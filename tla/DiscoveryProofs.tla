-------------------------- MODULE DiscoveryProofs ---------------------------
(***************************************************************************)
(* Proofs about discovery: AddressRetention for every set of peers and     *)
(* addresses and every budget, RecoveryQueries for every set of peers,     *)
(* every timing and every limit on the records.                            *)
(***************************************************************************)
EXTENDS RecoveryQueries, AddressRetention, FiniteSetTheorems, TLAPS

-----------------------------------------------------------------------------
(* Address retention.                                                      *)


\* Only an entry of peer p and the class was added, and an entry of another peer made
\* room for it only where it is the first of p in the class.
FairlyAdded(p, overlay, left) ==
    /\ \A n \in left \ entries : n.peer = p /\ n.overlay = overlay
    /\ \A e \in entries : Key(e) \notin Keys(left) =>
         \/ e.peer = p
         \/ /\ e.overlay = overlay
            /\ \A n \in left \ entries, x \in left :
                 x.peer = p /\ x.overlay = overlay => x = n

\* The entries gone are of S, and preferred ones if S has any.
ChosenFrom(gone, S, preferred) ==
    \A e \in gone : e \in S /\ (e \in preferred \/ S \cap preferred = {})

\* A victim is one of the entries, and a preferred one if there are any.
LEMMA VictimsChosen ==
    ASSUME NEW S, NEW limit, NEW preferred, NEW gone \in Making(S, limit, preferred)
    PROVE  ChosenFrom(gone, S, preferred)
<1> SUFFICES ASSUME NEW e \in gone
             PROVE  e \in S /\ (e \in preferred \/ S \cap preferred = {})
  BY Zenon DEF ChosenFrom
<1>1. PICK v \in Victims(S, preferred) : gone = {v}
  BY Zenon DEF Making
<1>2. e \in Victims(S, preferred)
  BY <1>1, Zenon
<1> QED BY <1>2, Zenon DEF Victims

\* What admit leaves: the new entry, and of the other entries those it does not
\* evict.
LEMMA AdmissionKeeps ==
    ASSUME NEW p, NEW a, NEW overlay, NEW o \in Admissions(p, a, overlay)
    PROVE  /\ <<p, a>> \in Keys(o.entries)
           /\ Keys(entries) \subseteq Keys(o.entries) \cup o.evicted
           /\ FairlyAdded(p, overlay, o.entries)
<1> DEFINE new == [peer |-> p, address |-> a, overlay |-> overlay, seen |-> clock]
           same == {e \in entries : Key(e) = <<p, a>>}
           others == entries \ same
           own == {e \in others : e.peer = p}
           ofClass(first) == {e \in others \ first : e.overlay = overlay}
           alike == {e \in own : Category[e.address] = Category[a]}
           limit == IF overlay THEN MaxOverlay ELSE MaxInfrastructure
<1>1. Key(new) = <<p, a>> /\ new.peer = p /\ new.overlay = overlay
  BY Zenon DEF Key
<1>2. CASE \E e \in same : e.overlay = overlay
  <2>1. o.entries = others \cup {new} /\ o.evicted = {}
    BY <1>2 DEF Admissions
  <2>2. Keys(entries) \subseteq Keys(o.entries)
    BY <2>1, <1>1, Zenon DEF Keys
  <2> HIDE DEF new
  <2> QED
    BY <2>1, <2>2, <1>1, Zenon DEF Keys, FairlyAdded
<1>3. CASE ~ \E e \in same : e.overlay = overlay
  <2>1. PICK first \in Making(own, MaxPerPeer, alike) :
          \E second \in Making(ofClass(first), limit, own) :
            o = [entries |-> (others \ (first \cup second)) \cup {new},
                 evicted |-> Evicted(first, second)]
    <3>1. o \in UNION {{[entries |-> (others \ (first \cup second)) \cup {new},
                        evicted |-> Evicted(first, second)] :
                       second \in Making(ofClass(first), limit, own)} :
                      first \in Making(own, MaxPerPeer, alike)}
      BY <1>3, Zenon DEF Admissions
    <3> HIDE DEF new, same, others, own, ofClass, alike, limit
    <3> QED BY <3>1, Zenon
  <2>2. PICK second \in Making(ofClass(first), limit, own) :
            o = [entries |-> (others \ (first \cup second)) \cup {new},
                 evicted |-> Evicted(first, second)]
    BY <2>1, Zenon
  <2>3. /\ o.entries = (others \ (first \cup second)) \cup {new}
        /\ o.evicted = Keys(first \cup second)
    BY <2>2, Zenon DEF Evicted
  <2>4. first \subseteq own
    <3> HIDE DEF own, alike
    <3>1. first \in Making(own, MaxPerPeer, alike)
      BY Zenon
    <3>2. ChosenFrom(first, own, alike)
      BY ONLY <3>1, VictimsChosen, Zenon
    <3> QED BY ONLY <3>2, Zenon DEF ChosenFrom
  <2>5. \A e \in second : /\ e \in ofClass(first)
                          /\ e \in own \/ ofClass(first) \cap own = {}
    <3> DEFINE pool == ofClass(first)
    <3>1. second \in Making(pool, limit, own)
      BY Zenon
    <3> HIDE DEF own, pool, limit
    <3>2. ChosenFrom(second, pool, own)
      BY ONLY <3>1, VictimsChosen, Zenon
    <3>3. \A e \in second : e \in pool /\ (e \in own \/ pool \cap own = {})
      BY ONLY <3>2, Zenon DEF ChosenFrom
    <3> QED BY <3>3, Zenon DEF pool
  <2> HIDE DEF new
  <2>6. <<p, a>> \in Keys(o.entries)
    BY <2>3, <1>1, Zenon DEF Keys
  <2>7. Keys(entries) \subseteq Keys(o.entries) \cup o.evicted
    BY <2>3, <2>6, Zenon DEF Keys
  <2>8. \A n \in o.entries \ entries : n = new
    BY <2>3, Zenon
  <2>9. ASSUME NEW e \in entries, Key(e) \notin Keys(o.entries), e.peer # p
        PROVE  /\ e.overlay = overlay
               /\ \A n \in o.entries \ entries, x \in o.entries :
                    x.peer = p /\ x.overlay = overlay => x = n
    <3>1. e \in others
      BY <2>6, <2>9, Zenon
    <3>2. e \in second
      BY <3>1, <2>3, <2>4, <2>9, Zenon DEF Keys
    <3>3. ofClass(first) \cap own = {} /\ e.overlay = overlay
      BY <3>2, <2>5, <2>9, Zenon
    <3>4. \A x \in o.entries : x.peer = p /\ x.overlay = overlay => x = new
      BY <2>3, <3>3, Zenon
    <3> QED
      BY <3>3, <3>4, <2>8, Zenon
  <2> QED
    BY <2>6, <2>7, <2>8, <2>9, <1>1, Zenon DEF FairlyAdded
<1> QED
  BY <1>2, <1>3, Zenon

\* Evicting what an admission evicts, everywhere, keeps the copies within the index.
LEMMA AdmissionCovers ==
    ASSUME CopiesAreRetained,
           NEW p, NEW a, NEW overlay, NEW o \in Admissions(p, a, overlay)
    PROVE  /\ Keys(CacheWithout(o.evicted)) \subseteq Keys(o.entries)
           /\ TableWithout(kad, o.evicted) \subseteq Keys(o.entries) \cup protected
           /\ TableWithout(pairingKad, o.evicted) \subseteq Keys(o.entries) \cup protected
           /\ <<p, a>> \in Keys(o.entries)
<1>1. <<p, a>> \in Keys(o.entries) /\ Keys(entries) \subseteq Keys(o.entries) \cup o.evicted
  BY AdmissionKeeps, Zenon
<1>2. Keys(CacheWithout(o.evicted)) \subseteq Keys(cache) \ o.evicted
  BY Zenon DEF Keys, CacheWithout
<1> QED
  BY <1>1, <1>2, Zenon DEF CopiesAreRetained, TableWithout

\* Every operation on the addresses keeps the copies within the index.
LEMMA CopiesKept == CopiesAreRetained /\ [BookNext]_bookVars => CopiesAreRetained'
<1> SUFFICES ASSUME CopiesAreRetained, [BookNext]_bookVars
             PROVE  CopiesAreRetained'
  BY Zenon
<1>1. ASSUME NEW k \in Heard, Learn(k[1], k[2])
      PROVE  CopiesAreRetained'
  <2> DEFINE p == k[1]
             a == k[2]
             added == [peer |-> p, address |-> a, seen |-> clock]
             overlay == p \in members
  <2>1. PICK o \in Admissions(p, a, overlay) :
          /\ entries' = o.entries
          /\ kad' = TableWithout(kad, o.evicted) \cup {<<p, a>>}
          /\ pairingKad' = TableWithout(pairingKad, o.evicted)
          /\ cache' \subseteq CacheWithout(o.evicted) \cup {added}
          /\ UNCHANGED protected
    BY <1>1, Zenon DEF Learn
  <2>2. Key(added) = <<p, a>>
    BY Zenon DEF Key
  <2> HIDE DEF overlay, added, p, a
  <2>3. Keys(cache') \subseteq Keys(CacheWithout(o.evicted)) \cup {<<p, a>>}
    BY <2>1, <2>2, Zenon DEF Keys
  <2>4. /\ Keys(CacheWithout(o.evicted)) \subseteq Keys(o.entries)
        /\ TableWithout(kad, o.evicted) \subseteq Keys(o.entries) \cup protected
        /\ TableWithout(pairingKad, o.evicted) \subseteq Keys(o.entries) \cup protected
        /\ <<p, a>> \in Keys(o.entries)
    BY AdmissionCovers, Zenon
  <2>5. Keys(cache)' = Keys(cache') /\ Keys(entries)' = Keys(o.entries)
    BY <2>1, Zenon DEF Keys, Key
  <2> QED
    BY <2>1, <2>3, <2>4, <2>5, Zenon DEF CopiesAreRetained
<1>2. ASSUME NEW k \in Heard, LearnPairing(k[1], k[2])
      PROVE  CopiesAreRetained'
  <2> DEFINE p == k[1]
             a == k[2]
  <2>1. PICK o \in Admissions(p, a, FALSE) :
          /\ entries' = o.entries
          /\ kad' = TableWithout(kad, o.evicted)
          /\ pairingKad' = TableWithout(pairingKad, o.evicted) \cup {<<p, a>>}
          /\ cache' = CacheWithout(o.evicted)
          /\ UNCHANGED protected
    BY <1>2, Zenon DEF LearnPairing
  <2>2. /\ Keys(CacheWithout(o.evicted)) \subseteq Keys(o.entries)
        /\ TableWithout(kad, o.evicted) \subseteq Keys(o.entries) \cup protected
        /\ TableWithout(pairingKad, o.evicted) \subseteq Keys(o.entries) \cup protected
        /\ <<p, a>> \in Keys(o.entries)
    BY AdmissionCovers, Zenon
  <2> QED
    BY <2>1, <2>2, Zenon DEF CopiesAreRetained, Keys, Key
<1>3. CASE ExpireAddresses
  <2> DEFINE gone == Keys({e \in entries : ~Fresh(e)})
  <2>1. Keys(entries) \subseteq Keys({e \in entries : Fresh(e)}) \cup gone
    BY Zenon DEF Keys
  <2>2. Keys({e \in CacheWithout(gone) : Fresh(e)}) \subseteq Keys(cache) \ gone
    BY Zenon DEF Keys, CacheWithout
  <2>3. /\ entries' = {e \in entries : Fresh(e)}
        /\ cache' = {e \in CacheWithout(gone) : Fresh(e)}
        /\ kad' = TableWithout(kad, gone)
        /\ pairingKad' = TableWithout(pairingKad, gone)
        /\ UNCHANGED protected
    BY <1>3, Zenon DEF ExpireAddresses
  <2>4. /\ Keys(cache)' = Keys({e \in CacheWithout(gone) : Fresh(e)})
        /\ Keys(entries)' = Keys({e \in entries : Fresh(e)})
    BY <2>3, Zenon DEF Keys, Key
  <2> HIDE DEF gone
  <2> QED
    BY <2>1, <2>2, <2>3, <2>4, Zenon DEF CopiesAreRetained, TableWithout
<1>4. ASSUME NEW k \in Heard, MdnsExpired(k[1], k[2]) \/ NoReservation(k[1], k[2])
      PROVE  CopiesAreRetained'
  BY <1>4, Zenon DEF MdnsExpired, NoReservation, CacheWithout, CopiesAreRetained, Keys, Key
<1>5. ASSUME NEW chosen \in SUBSET Remotes, Reconcile(chosen)
      PROVE  CopiesAreRetained'
  <2> DEFINE departed == Previous \ chosen
  <2>1. /\ entries' = {e \in entries : e.peer \notin departed}
        /\ protected' = {k \in protected : k[1] \notin departed}
        /\ cache' = {e \in cache : e.peer \notin departed}
        /\ kad' = {k \in kad : k[1] \notin departed}
        /\ pairingKad' = {k \in pairingKad : k[1] \notin departed}
    BY <1>5, Zenon DEF Reconcile
  <2> HIDE DEF departed
  <2>2. Keys(cache)' = {k \in Keys(cache) : k[1] \notin departed}
    BY <2>1 DEF Keys, Key
  <2>3. Keys(entries)' = {k \in Keys(entries) : k[1] \notin departed}
    BY <2>1 DEF Keys, Key
  <2> QED
    BY <2>1, <2>2, <2>3, Zenon DEF CopiesAreRetained
<1>6. ASSUME \/ \E roster \in SUBSET Remotes : RosterChanges(roster)
             \/ TimePasses
             \/ UNCHANGED bookVars
      PROVE  CopiesAreRetained'
  BY <1>6, Zenon DEF RosterChanges, TimePasses, bookVars, CopiesAreRetained, Keys, Key
<1> QED
  BY <1>1, <1>2, <1>3, <1>4, <1>5, <1>6, Zenon DEF BookNext

\* For every budget: what is evicted, expires or departs is gone from the recovery
\* cache and from both routing tables (retain_discovered_address, replace_eligible).
THEOREM CopiesRetained == BookSpec => []CopiesAreRetained
<1>1. BookInit => CopiesAreRetained
  BY Zenon DEF BookInit, CopiesAreRetained, Keys
<1> QED
  BY <1>1, CopiesKept, PTL DEF BookSpec

\* For every budget: an address makes room for one of another peer only in the same
\* class and only for the first address of that peer there (admit).
THEOREM SharesKept == BookSpec => OthersKeepTheirShare
<1> DEFINE Kept ==
      \A n \in entries' \ entries, e \in entries :
        Key(e) \notin Keys(entries') =>
          \/ n.peer = e.peer
          \/ /\ n.overlay = e.overlay
             /\ {x \in entries' : x.peer = n.peer /\ x.overlay = n.overlay} = {n}
<1>1. ASSUME NEW p, NEW a, NEW overlay, NEW o \in Admissions(p, a, overlay),
             entries' = o.entries
      PROVE  Kept
  <2>1. FairlyAdded(p, overlay, o.entries)
    BY AdmissionKeeps, Zenon
  <2>2. ASSUME NEW n \in o.entries \ entries, NEW e \in entries,
               Key(e) \notin Keys(o.entries), n.peer # e.peer
        PROVE  /\ n.overlay = e.overlay
               /\ {x \in o.entries : x.peer = n.peer /\ x.overlay = n.overlay} = {n}
    <3>1. n.peer = p /\ n.overlay = overlay
      BY <2>1, Zenon DEF FairlyAdded
    <3>2. /\ e.overlay = overlay
          /\ \A x \in o.entries : x.peer = p /\ x.overlay = overlay => x = n
      BY <2>1, <2>2, <3>1, Zenon DEF FairlyAdded
    <3> QED
      BY <3>1, <3>2, Zenon
  <2> QED
    BY <2>2, <1>1, Zenon
<1>2. ASSUME NEW k \in Heard, Learn(k[1], k[2]) \/ LearnPairing(k[1], k[2])
      PROVE  Kept
  BY <1>2, <1>1, Zenon DEF Learn, LearnPairing
<1>3. ASSUME NEW k \in Heard, MdnsExpired(k[1], k[2]) \/ NoReservation(k[1], k[2])
      PROVE  entries' \subseteq entries
  BY <1>3, Zenon DEF MdnsExpired, NoReservation
<1>4. ASSUME \/ ExpireAddresses
             \/ \E chosen \in SUBSET Remotes : Reconcile(chosen)
             \/ \E roster \in SUBSET Remotes : RosterChanges(roster)
             \/ TimePasses
      PROVE  entries' \subseteq entries
  BY <1>4, Zenon DEF ExpireAddresses, Reconcile, RosterChanges, TimePasses
<1>5. BookNext => Kept
  BY <1>2, <1>3, <1>4, Zenon DEF BookNext
<1> QED
  BY <1>5, PTL DEF BookSpec, OthersKeepTheirShare

-----------------------------------------------------------------------------
(* Recovery queries.                                                       *)


\* A set of numbers has a least one.
LEMMA LeastNat ==
    ASSUME NEW S \in SUBSET Nat, S # {}
    PROVE  \E m \in S : \A n \in S : m <= n
<1> DEFINE R == OpToRel(<, Nat)
<1>1. R = {ss \in Nat \X Nat : ss[1] < ss[2]}
  BY Zenon DEF OpToRel
<1>2. IsWellFoundedOn(R, Nat)
  BY NatLessThanWellFounded, Zenon
<1> HIDE DEF R
<1>3. \A x, y \in Nat : y < x => <<y, x>> \in R
  BY <1>1, Zenon
<1>4. PICK x \in S : \A y \in S : ~(<<y, x>> \in R)
  BY <1>2, WFMin, Zenon
<1>5. \A y \in S : ~(y < x)
  BY <1>3, <1>4, Zenon
<1>6. \A y \in S : x <= y
  BY <1>5
<1> QED BY <1>6, Zenon

(* ------------------------------- backoff ------------------------------- *)

LEMMA MinOfTwo ==
    ASSUME NEW x \in Int, NEW y \in Int
    PROVE  Min({x, y}) = IF x <= y THEN x ELSE y
BY DEF Min

LEMMA MaxOfTwo ==
    ASSUME NEW x \in Int, NEW y \in Int
    PROVE  Max({x, y}) = IF x >= y THEN x ELSE y
BY DEF Max

\* 1 << exponent grows with the exponent: 2^n counts the subsets of 1..n.
LEMMA PowersGrow ==
    ASSUME NEW m \in Nat, NEW n \in Nat, m <= n
    PROVE  2^m \in Nat /\ 1 <= 2^m /\ 2^m <= 2^n
<1>1. /\ IsFiniteSet(1..m) /\ Cardinality(1..m) = m
      /\ IsFiniteSet(1..n) /\ Cardinality(1..n) = n
  BY FS_Interval
<1>2. /\ IsFiniteSet(SUBSET (1..m)) /\ Cardinality(SUBSET (1..m)) = 2^m
      /\ IsFiniteSet(SUBSET (1..n)) /\ Cardinality(SUBSET (1..n)) = 2^n
  BY <1>1, FS_SUBSET, Zenon
<1>3. SUBSET (1..m) \subseteq SUBSET (1..n)
  OBVIOUS
<1>4. 2^m <= 2^n
  BY <1>2, <1>3, FS_Subset
<1>5. 2^m \in Nat /\ 2^m # 0
  <2>1. SUBSET (1..m) # {}
    BY Zenon
  <2> QED BY <1>2, <2>1, FS_CardinalityType, FS_EmptySet, Zenon
<1> QED BY <1>4, <1>5

LEMMA ProductsGrow ==
    ASSUME NEW c \in Nat \ {0}, NEW x \in Nat, NEW y \in Nat, 1 <= x, x <= y
    PROVE  c * x \in Nat /\ 1 <= c * x /\ c * x <= c * y
<1>1. PICK d \in Nat : y = x + d
  BY y - x \in Nat
<1>2. PICK k \in Nat : x = k + 1
  BY x - 1 \in Nat
<1>3. c * d \in Nat /\ c * k \in Nat
  OBVIOUS
<1>4. c * y = c * x + c * d /\ c * x = c * k + c
  BY <1>1, <1>2
<1> QED BY <1>3, <1>4

\* failure_backoff never shrinks with the failures and stays within its maximum.
LEMMA BackoffGrows ==
    ASSUME NEW m \in Nat, NEW n \in Nat, m <= n
    PROVE  /\ FailureBackoff(m) \in Nat /\ 1 <= FailureBackoff(m)
           /\ FailureBackoff(m) <= BackoffMax
           /\ FailureBackoff(m) <= FailureBackoff(n)
<1> DEFINE e(i) == Min({Max({i - 1, 0}), MaxExponent})
           product(i) == BackoffBase * 2^e(i)
<1>1. MaxExponent \in Nat /\ BackoffBase \in Nat \ {0} /\ BackoffMax \in Nat \ {0}
  BY RecoveryAssumption, Zenon
<1>2. ASSUME NEW i \in Nat
      PROVE  e(i) = LET x == IF i - 1 >= 0 THEN i - 1 ELSE 0
                    IN  IF x <= MaxExponent THEN x ELSE MaxExponent
  <2>1. Max({i - 1, 0}) = IF i - 1 >= 0 THEN i - 1 ELSE 0
    BY MaxOfTwo
  <2> QED BY <1>1, <2>1, MinOfTwo
<1>3. e(m) \in Nat /\ e(n) \in Nat /\ e(m) <= e(n)
  BY <1>1, <1>2
<1> HIDE DEF e
<1>4. 2^e(m) \in Nat /\ 2^e(n) \in Nat /\ 1 <= 2^e(m) /\ 2^e(m) <= 2^e(n)
  BY <1>3, PowersGrow
<1>5. product(m) \in Nat /\ product(n) \in Nat /\ 1 <= product(m) /\ product(m) <= product(n)
  BY <1>1, <1>4, ProductsGrow
<1>6. FailureBackoff(m) = Min({product(m), BackoffMax})
      /\ FailureBackoff(n) = Min({product(n), BackoffMax})
  BY Zenon DEF FailureBackoff, e
<1> HIDE DEF product
<1> QED BY <1>1, <1>5, <1>6, MinOfTwo

(* ------------------------------ ownership ------------------------------ *)

States == [age : Nat, pending : {0, 1}, attempts : 0..MaxAttempts,
           retry : {r \in Int : r >= 0 - StateTtl}]

\* What the two maps have to agree on: OwnershipMatches, for a set of authorized peers.
Sound(s, auth) ==
    /\ s = [peers |-> s.peers, queries |-> s.queries]
    /\ DOMAIN s.peers \subseteq Peers
    /\ s.peers \in [DOMAIN s.peers -> States]
    /\ s.queries = {p \in DOMAIN s.peers : s.peers[p].pending > 0}
    /\ s.queries \subseteq auth
    /\ \A p, q \in s.queries : p = q

\* The fate of a peer's state when no query of it starts or ends.
Rests(s, t, p) ==
    \/ /\ p \in DOMAIN s.peers /\ p \in DOMAIN t.peers
       /\ t.peers[p] = s.peers[p]
    \/ p \notin DOMAIN s.peers
    \/ s.peers[p].retry <= 0 - StateTtl

\* What a handler may do to the query of a peer: leave it, end it with the backoff
\* earned, leave the peer without one, or start one that is due.
Follows(s, t, p) ==
    /\ p \in s.queries /\ p \in t.queries => t.peers[p] = s.peers[p]
    /\ p \in s.queries /\ p \notin t.queries =>
         /\ p \in DOMAIN t.peers
         /\ t.peers[p].attempts = s.peers[p].attempts
         /\ t.peers[p].retry = FailureBackoff(s.peers[p].attempts)
    /\ p \notin s.queries /\ p \notin t.queries => Rests(s, t, p)
    /\ p \notin s.queries /\ p \in t.queries =>
         \/ /\ p \in DOMAIN s.peers /\ s.peers[p].retry <= 0
            /\ t.peers[p].attempts = IF s.peers[p].attempts < MaxAttempts
                                     THEN s.peers[p].attempts + 1 ELSE MaxAttempts
         \/ /\ p \notin DOMAIN s.peers \/ s.peers[p].retry <= 0 - StateTtl
            /\ t.peers[p].attempts = 1

LEMMA StateParts ==
    ASSUME NEW x \in States
    PROVE  /\ x.age \in Nat /\ x.pending \in {0, 1} /\ x.attempts \in 0..MaxAttempts
           /\ x.attempts \in Nat
           /\ x.retry \in Int /\ x.retry >= 0 - StateTtl
           /\ x = [age |-> x.age, pending |-> x.pending, attempts |-> x.attempts,
                   retry |-> x.retry]
BY RecoveryAssumption DEF States, MaxAttempts

\* The updates of a state.
LEMMA StateAfter ==
    ASSUME NEW x \in States, NEW retry \in Int, retry >= 0 - StateTtl
    PROVE  /\ [x EXCEPT !.pending = 0, !.retry = retry] \in States
           /\ [x EXCEPT !.attempts = 0, !.retry = retry] \in States
           /\ \A age \in Nat : [x EXCEPT !.age = age, !.retry = retry] \in States
<1> SUFFICES ASSUME NEW age \in Nat
             PROVE  /\ [x EXCEPT !.pending = 0, !.retry = retry] \in States
                    /\ [x EXCEPT !.attempts = 0, !.retry = retry] \in States
                    /\ [x EXCEPT !.age = age, !.retry = retry] \in States
  BY 0 \in Nat
<1>1. ASSUME NEW y \in States PROVE [y EXCEPT !.retry = retry] \in States
  <2>1. [y EXCEPT !.retry = retry] = [age |-> y.age, pending |-> y.pending,
                                      attempts |-> y.attempts, retry |-> retry]
    BY DEF States
  <2> QED BY <2>1, StateParts, Zenon DEF States
<1>2. [x EXCEPT !.pending = 0] \in States
  <2>1. [x EXCEPT !.pending = 0] = [age |-> x.age, pending |-> 0,
                                          attempts |-> x.attempts, retry |-> x.retry]
    BY DEF States
  <2> QED BY <2>1, StateParts, Zenon DEF States
<1>3. [x EXCEPT !.attempts = 0] \in States
  <2>1. [x EXCEPT !.attempts = 0] = [age |-> x.age, pending |-> x.pending,
                                     attempts |-> 0, retry |-> x.retry]
    BY DEF States
  <2> QED BY <2>1, StateParts, RecoveryAssumption DEF States, MaxAttempts
<1>4. [x EXCEPT !.age = age] \in States
  <2>1. [x EXCEPT !.age = age] = [age |-> age, pending |-> x.pending,
                                  attempts |-> x.attempts, retry |-> x.retry]
    BY DEF States
  <2> QED BY <2>1, StateParts, Zenon DEF States
<1>5. /\ [x EXCEPT !.pending = 0, !.retry = retry]
           = [[x EXCEPT !.pending = 0] EXCEPT !.retry = retry]
      /\ [x EXCEPT !.attempts = 0, !.retry = retry]
           = [[x EXCEPT !.attempts = 0] EXCEPT !.retry = retry]
      /\ [x EXCEPT !.age = age, !.retry = retry]
           = [[x EXCEPT !.age = age] EXCEPT !.retry = retry]
  BY Zenon
<1> QED BY <1>1, <1>2, <1>3, <1>4, <1>5, Zenon

\* finished, for queries that are owned.
LEMMA FinishedSound ==
    ASSUME NEW auth, NEW s, Sound(s, auth), NEW done \in SUBSET s.queries
    PROVE  /\ Sound(Finished(s, done), auth)
           /\ DOMAIN Finished(s, done).peers = DOMAIN s.peers
           /\ Finished(s, done).queries = s.queries \ done
           /\ \A p \in DOMAIN s.peers :
                IF p \in done
                THEN /\ Finished(s, done).peers[p].pending = 0
                     /\ Finished(s, done).peers[p].attempts = s.peers[p].attempts
                     /\ Finished(s, done).peers[p].retry = FailureBackoff(s.peers[p].attempts)
                ELSE Finished(s, done).peers[p] = s.peers[p]
<1> DEFINE t == Finished(s, done)
           after(p) == [s.peers[p] EXCEPT !.pending = @ - 1,
                                          !.retry = FailureBackoff(s.peers[p].attempts)]
<1>1. /\ t = [queries |-> s.queries \ done,
              peers |-> [p \in DOMAIN s.peers |-> IF p \in done THEN after(p) ELSE s.peers[p]]]
      /\ t.queries = s.queries \ done
      /\ DOMAIN t.peers = DOMAIN s.peers
      /\ \A p \in DOMAIN s.peers : t.peers[p] = IF p \in done THEN after(p) ELSE s.peers[p]
      /\ t = [peers |-> t.peers, queries |-> t.queries]
  BY Zenon DEF Finished
<1> HIDE DEF t
<1>2. \A p \in DOMAIN s.peers : s.peers[p] \in States
  BY Zenon DEF Sound
<1>3. ASSUME NEW p \in done
      PROVE  /\ after(p).pending = 0 /\ after(p).attempts = s.peers[p].attempts
             /\ after(p).retry = FailureBackoff(s.peers[p].attempts)
             /\ after(p) \in States
  <2>1. p \in DOMAIN s.peers /\ s.peers[p].pending > 0 /\ s.peers[p] \in States
    BY <1>2, Zenon DEF Sound
  <2>2. FailureBackoff(s.peers[p].attempts) \in Nat
    BY <2>1, StateParts, BackoffGrows
  <2>3. s.peers[p].pending - 1 = 0
    BY <2>1, StateParts
  <2>4. after(p) = [s.peers[p] EXCEPT !.pending = 0,
                                      !.retry = FailureBackoff(s.peers[p].attempts)]
    BY <2>3, Zenon
  <2>5. after(p) \in States
    <3>1. FailureBackoff(s.peers[p].attempts) >= 0 - StateTtl
      BY <2>2, RecoveryAssumption
    <3> DEFINE x == s.peers[p]
               backoff == FailureBackoff(s.peers[p].attempts)
    <3>2. x \in States /\ backoff \in Int /\ backoff >= 0 - StateTtl
      BY <2>1, <2>2, <3>1
    <3>3. after(p) = [x EXCEPT !.pending = 0, !.retry = backoff]
      BY <2>4, Zenon
    <3> HIDE DEF after, x, backoff
    <3>4. [x EXCEPT !.pending = 0, !.retry = backoff] \in States
      BY ONLY <3>2, StateAfter, Zenon
    <3> QED BY <3>3, <3>4, Zenon
  <2>6. /\ after(p).pending = 0 /\ after(p).attempts = s.peers[p].attempts
        /\ after(p).retry = FailureBackoff(s.peers[p].attempts)
    BY <2>1, <2>4, Zenon DEF States
  <2> QED BY <2>5, <2>6, Zenon
<1>4. \A p \in done : after(p).pending = 0 /\ after(p).attempts = s.peers[p].attempts
                      /\ after(p).retry = FailureBackoff(s.peers[p].attempts)
                      /\ after(p) \in States
  BY <1>3, Zenon
<1> HIDE DEF after
<1>5. t.peers \in [DOMAIN t.peers -> States]
  <2>1. \A p \in DOMAIN t.peers : t.peers[p] \in States
    BY <1>1, <1>2, <1>4, Zenon
  <2>2. t.peers = [p \in DOMAIN s.peers |-> IF p \in done THEN after(p) ELSE s.peers[p]]
    BY <1>1, Zenon
  <2> QED BY <1>1, <2>1, <2>2, Zenon
<1>6. t.queries = {p \in DOMAIN t.peers : t.peers[p].pending > 0}
  BY <1>1, <1>4 DEF Sound
<1>7. Sound(t, auth)
  BY <1>1, <1>5, <1>6, Zenon DEF Sound
<1> QED BY <1>1, <1>4, <1>7, Zenon DEF t

LEMMA PrunedSound ==
    ASSUME NEW auth, NEW s, Sound(s, auth)
    PROVE  /\ Sound(Pruned(s), auth)
           /\ Pruned(s).queries = s.queries
           /\ DOMAIN Pruned(s).peers \subseteq DOMAIN s.peers
           /\ \A p \in DOMAIN Pruned(s).peers : Pruned(s).peers[p] = s.peers[p]
           /\ \A p \in DOMAIN s.peers \ DOMAIN Pruned(s).peers :
                s.peers[p].pending = 0 /\ s.peers[p].retry <= 0 - StateTtl
<1> DEFINE t == Pruned(s)
           keep == {x \in DOMAIN s.peers : s.peers[x].pending > 0 \/ Idle(s.peers[x]) < StateTtl}
<1>1. s = [peers |-> s.peers, queries |-> s.queries]
  BY Zenon DEF Sound
<1>2. t = [s EXCEPT !.peers = [p \in keep |-> s.peers[p]]]
  BY <1>1, Zenon DEF Pruned
<1>3. /\ t = [peers |-> [p \in keep |-> s.peers[p]], queries |-> s.queries]
      /\ t = [peers |-> t.peers, queries |-> t.queries]
      /\ t.queries = s.queries /\ DOMAIN t.peers = keep
      /\ \A p \in keep : t.peers[p] = s.peers[p]
      /\ t.peers = [p \in keep |-> s.peers[p]]
  BY <1>1, <1>2
<1> HIDE DEF t
<1>4. \A p \in DOMAIN s.peers : s.peers[p] \in States
  BY Zenon DEF Sound
<1>5. ASSUME NEW p \in DOMAIN s.peers \ keep
      PROVE  s.peers[p].pending = 0 /\ s.peers[p].retry <= 0 - StateTtl
  <2>1. ~(s.peers[p].pending > 0) /\ ~(Idle(s.peers[p]) < StateTtl)
    BY Zenon
  <2>2. /\ s.peers[p].age \in Int /\ s.peers[p].retry \in Int
        /\ s.peers[p].pending \in {0, 1}
    BY <1>4, StateParts
  <2>3. Idle(s.peers[p]) \in Int /\ Idle(s.peers[p]) <= 0 - s.peers[p].retry
    BY <2>2, MinOfTwo DEF Idle
  <2> QED BY <2>1, <2>2, <2>3, RecoveryAssumption
<1>6. t.queries = {p \in DOMAIN t.peers : t.peers[p].pending > 0}
  BY <1>3, Zenon DEF Sound
<1>7. keep \subseteq DOMAIN s.peers
  BY Zenon
<1> HIDE DEF keep
<1>8. t.peers \in [DOMAIN t.peers -> States]
  BY <1>3, <1>4, <1>7, Zenon
<1>9. Sound(t, auth)
  BY <1>3, <1>6, <1>7, <1>8, Zenon DEF Sound
<1> QED BY <1>3, <1>5, <1>7, <1>9, Zenon DEF t

LEMMA KnownSound ==
    ASSUME NEW auth, NEW s, Sound(s, auth), NEW new \in SUBSET Peers,
           new \cap DOMAIN s.peers = {}
    PROVE  /\ Sound(Known(s, new), auth)
           /\ Known(s, new).queries = s.queries
           /\ DOMAIN Known(s, new).peers = DOMAIN s.peers \cup new
           /\ \A p \in DOMAIN s.peers : Known(s, new).peers[p] = s.peers[p]
           /\ \A p \in new : Known(s, new).peers[p] = NewState
<1> DEFINE t == Known(s, new)
           f == [x \in DOMAIN s.peers \cup new |->
                   IF x \in DOMAIN s.peers THEN s.peers[x] ELSE NewState]
<1>1. s = [peers |-> s.peers, queries |-> s.queries]
  BY Zenon DEF Sound
<1>2. t = [s EXCEPT !.peers = f]
  BY <1>1, Zenon DEF Known
<1>3. t = [peers |-> f, queries |-> s.queries] /\ t.peers = f /\ t.queries = s.queries
  BY <1>1, <1>2, Zenon
<1>4. NewState \in States /\ NewState.pending = 0
  BY RecoveryAssumption DEF NewState, States, MaxAttempts
<1>5. /\ DOMAIN f = DOMAIN s.peers \cup new
      /\ \A p \in DOMAIN s.peers : f[p] = s.peers[p]
      /\ \A p \in new : f[p] = NewState
  BY Zenon
<1>6. f \in [DOMAIN f -> States]
  BY <1>4, Zenon DEF Sound
<1> HIDE DEF f, t
<1>7. s.queries = {p \in DOMAIN f : f[p].pending > 0}
  BY <1>4, <1>5 DEF Sound
<1>8. Sound(t, auth)
  BY <1>3, <1>5, <1>6, <1>7, Zenon DEF Sound
<1> QED BY <1>3, <1>5, <1>8, Zenon DEF t

LEMMA RecordSound ==
    ASSUME NEW auth, NEW s, Sound(s, auth), s.queries = {},
           NEW p \in DOMAIN s.peers, p \in auth
    PROVE  /\ Sound(Record(s, p), auth)
           /\ Record(s, p).queries = {p}
           /\ DOMAIN Record(s, p).peers = DOMAIN s.peers
           /\ \A q \in DOMAIN s.peers \ {p} : Record(s, p).peers[q] = s.peers[q]
           /\ Record(s, p).peers[p].attempts = IF s.peers[p].attempts < MaxAttempts
                                               THEN s.peers[p].attempts + 1 ELSE MaxAttempts
<1> DEFINE t == Record(s, p)
           attempts == Min({s.peers[p].attempts + 1, MaxAttempts})
           x == [age |-> 0, attempts |-> attempts, pending |-> s.peers[p].pending + 1,
                 retry |-> FailureBackoff(attempts)]
           f == [s.peers EXCEPT ![p] = x]
<1>1. /\ t = [queries |-> s.queries \cup {p}, peers |-> f]
      /\ t.queries = s.queries \cup {p} /\ t.peers = f
      /\ t = [peers |-> t.peers, queries |-> t.queries]
  BY Zenon DEF Record
<1>2. s.peers[p] \in States /\ ~(s.peers[p].pending > 0)
  BY Zenon DEF Sound
<1>3. s.peers[p].pending + 1 = 1 /\ s.peers[p].attempts \in 0..MaxAttempts
  BY <1>2, StateParts
<1>4. MaxAttempts \in Nat \ {0}
  BY RecoveryAssumption DEF MaxAttempts
<1>5. /\ attempts = IF s.peers[p].attempts < MaxAttempts
                    THEN s.peers[p].attempts + 1 ELSE MaxAttempts
      /\ attempts \in 0..MaxAttempts /\ attempts \in Nat
  BY <1>3, <1>4, MinOfTwo
<1> HIDE DEF attempts
<1>6. FailureBackoff(attempts) \in {r \in Int : r >= 0 - StateTtl}
  BY <1>5, BackoffGrows, RecoveryAssumption
<1>7. x \in States /\ x.pending = 1 /\ x.attempts = attempts
  BY <1>3, <1>5, <1>6, Zenon DEF States
<1> HIDE DEF x
<1>8. /\ DOMAIN f = DOMAIN s.peers /\ f[p] = x
      /\ \A q \in DOMAIN s.peers \ {p} : f[q] = s.peers[q]
      /\ f \in [DOMAIN f -> States]
  BY <1>7, Zenon DEF Sound
<1> HIDE DEF f, t
<1>9. t.queries = {q \in DOMAIN f : f[q].pending > 0}
  BY <1>1, <1>7, <1>8 DEF Sound
<1>10. Sound(t, auth)
  BY <1>1, <1>8, <1>9, Zenon DEF Sound
<1> QED BY <1>1, <1>5, <1>7, <1>8, <1>10, Zenon DEF t

\* What should_query and the query of the first peer that may have the slot change.
Starts(s, t) ==
    /\ s.queries \subseteq t.queries
    /\ DOMAIN s.peers \subseteq DOMAIN t.peers
    /\ \A p \in DOMAIN s.peers : p \notin t.queries \ s.queries => t.peers[p] = s.peers[p]
    /\ \A p \in t.queries \ s.queries :
         IF p \in DOMAIN s.peers
         THEN /\ s.peers[p].retry <= 0
              /\ t.peers[p].attempts = IF s.peers[p].attempts < MaxAttempts
                                       THEN s.peers[p].attempts + 1 ELSE MaxAttempts
         ELSE t.peers[p].attempts = 1

LEMMA QueriedSound ==
    ASSUME NEW auth \in SUBSET Peers, NEW s, Sound(s, auth),
           NEW asked \in SUBSET auth, NEW accepts
    PROVE  /\ Sound(Queried(s, asked, accepts), auth)
           /\ Starts(s, Queried(s, asked, accepts))
<1> DEFINE new == Admitted(s, asked)
           known == Known(s, new)
           able == {p \in asked \cap DOMAIN known.peers : Ready(known.peers[p])}
           first == CHOOSE p \in able : \A q \in able : p <= q
           t == Queried(s, asked, accepts)
<1>1. new \in SUBSET Peers /\ new \cap DOMAIN s.peers = {}
  BY Zenon DEF Admitted
<1> HIDE DEF new
<1>2. /\ Sound(known, auth)
      /\ known.queries = s.queries
      /\ DOMAIN known.peers = DOMAIN s.peers \cup new
      /\ \A p \in DOMAIN s.peers : known.peers[p] = s.peers[p]
      /\ \A p \in new : known.peers[p] = NewState
  BY <1>1, KnownSound
<1>3. t = IF known.queries = {} /\ accepts /\ able # {} THEN Record(known, first) ELSE known
  BY Zenon DEF Queried, new
<1> HIDE DEF known
<1>4. CASE ~(known.queries = {} /\ accepts /\ able # {})
  BY <1>2, <1>3, <1>4, Zenon DEF Starts
<1>5. CASE known.queries = {} /\ accepts /\ able # {}
  <2>1. t = Record(known, first)
    BY <1>3, <1>5, Zenon
  <2>2. first \in able
    <3>1. able \in SUBSET Nat /\ able # {}
      BY <1>5, RecoveryAssumption, Zenon
    <3>2. \E p \in able : \A q \in able : p <= q
      BY <3>1, LeastNat, Zenon
    <3> QED BY <3>2, Zenon
  <2> HIDE DEF first
  <2>3. first \in DOMAIN known.peers /\ first \in auth /\ known.peers[first].retry <= 0
    BY <2>2, Zenon DEF Ready
  <2>4. /\ Sound(t, auth) /\ t.queries = {first} /\ DOMAIN t.peers = DOMAIN known.peers
        /\ \A q \in DOMAIN known.peers \ {first} : t.peers[q] = known.peers[q]
        /\ t.peers[first].attempts = IF known.peers[first].attempts < MaxAttempts
                                     THEN known.peers[first].attempts + 1 ELSE MaxAttempts
    <3> HIDE DEF t, able
    <3>1. Sound(known, auth) /\ known.queries = {}
      BY <1>2, <1>5, Zenon
    <3> QED BY ONLY <2>1, <2>3, <3>1, RecordSound
  <2> HIDE DEF t
  <2>5. first \notin DOMAIN s.peers => t.peers[first].attempts = 1
    <3>1. first \notin DOMAIN s.peers => known.peers[first] = NewState
      BY <1>2, <2>3, Zenon
    <3>2. NewState.attempts = 0 /\ 0 < MaxAttempts
      BY RecoveryAssumption DEF NewState, MaxAttempts
    <3> QED BY <2>4, <3>1, <3>2
  <2>6. s.queries = {}
    BY <1>2, <1>5, Zenon
  <2>7. Starts(s, t)
    BY <1>2, <2>3, <2>4, <2>5, <2>6, Zenon DEF Starts
  <2> QED BY <2>4, <2>7, Zenon DEF t
<1> QED BY <1>4, <1>5, Zenon

LEMMA ExpireFollows ==
    ASSUME NEW auth, NEW s, Sound(s, auth)
    PROVE  /\ Sound(Expire(s), auth)
           /\ DOMAIN Expire(s).peers = DOMAIN s.peers
           /\ Expire(s).queries \subseteq s.queries
           /\ \A p \in DOMAIN s.peers :
                IF p \in s.queries \ Expire(s).queries
                THEN /\ Expire(s).peers[p].attempts = s.peers[p].attempts
                     /\ Expire(s).peers[p].retry = FailureBackoff(s.peers[p].attempts)
                ELSE Expire(s).peers[p] = s.peers[p]
<1> DEFINE done == {p \in s.queries : s.peers[p].age >= QueryTimeout}
<1>1. Expire(s) = Finished(s, done) /\ done \in SUBSET s.queries
  BY Zenon DEF Expire
<1> HIDE DEF done
<1> QED BY <1>1, FinishedSound

\* A backoff is a time to wait for.
LEMMA BackoffPositive ==
    ASSUME NEW x \in States
    PROVE  FailureBackoff(x.attempts) \in Nat /\ FailureBackoff(x.attempts) > 0
BY StateParts, BackoffGrows

\* A handler that may ask for some peers.
LEMMA QueryForPeersFollows ==
    ASSUME NEW auth \in SUBSET Peers, NEW s, Sound(s, auth),
           NEW targets \in SUBSET auth, NEW lan, NEW accepts
    PROVE  LET t == QueryForPeers(s, targets, lan, accepts)
           IN  Sound(t, auth) /\ \A p \in Peers : Follows(s, t, p)
<1> DEFINE c == Expire(s)
           pr == Pruned(c)
           asked == {p \in targets : lan[p] = 0}
           t == QueryForPeers(s, targets, lan, accepts)
<1>0. /\ \A p \in s.queries : p \in DOMAIN s.peers
      /\ \A p \in DOMAIN s.peers : s.peers[p] \in States
  BY Zenon DEF Sound
<1>1. /\ Sound(c, auth)
      /\ DOMAIN c.peers = DOMAIN s.peers
      /\ c.queries \subseteq s.queries
      /\ \A p \in DOMAIN s.peers :
           IF p \in s.queries \ c.queries
           THEN /\ c.peers[p].attempts = s.peers[p].attempts
                /\ c.peers[p].retry = FailureBackoff(s.peers[p].attempts)
           ELSE c.peers[p] = s.peers[p]
  BY ExpireFollows, Zenon
<1>2. t = IF targets = {} THEN s ELSE IF asked = {} THEN c ELSE Queried(pr, asked, accepts)
  BY Zenon DEF QueryForPeers
<1> HIDE DEF c
<1>3. /\ Sound(pr, auth) /\ pr.queries = c.queries
      /\ DOMAIN pr.peers \subseteq DOMAIN c.peers
      /\ \A p \in DOMAIN pr.peers : pr.peers[p] = c.peers[p]
      /\ \A p \in DOMAIN c.peers \ DOMAIN pr.peers :
           c.peers[p].pending = 0 /\ c.peers[p].retry <= 0 - StateTtl
  BY <1>1, PrunedSound, Zenon
<1> HIDE DEF pr
<1>4. CASE targets = {}
  BY <1>0, <1>2, <1>4, Zenon DEF Follows, Rests
<1>5. CASE targets # {} /\ asked = {}
  BY <1>0, <1>1, <1>2, <1>5, Zenon DEF Follows, Rests
<1>6. CASE targets # {} /\ asked # {}
  <2>1. t = Queried(pr, asked, accepts) /\ asked \in SUBSET auth
    BY <1>2, <1>6, Zenon
  <2> HIDE DEF t, asked
  <2>2. /\ Sound(t, auth)
        /\ pr.queries \subseteq t.queries
        /\ DOMAIN pr.peers \subseteq DOMAIN t.peers
        /\ \A p \in DOMAIN pr.peers : p \notin t.queries \ pr.queries => t.peers[p] = pr.peers[p]
        /\ \A p \in t.queries \ pr.queries :
             IF p \in DOMAIN pr.peers
             THEN /\ pr.peers[p].retry <= 0
                  /\ t.peers[p].attempts = IF pr.peers[p].attempts < MaxAttempts
                                           THEN pr.peers[p].attempts + 1 ELSE MaxAttempts
             ELSE t.peers[p].attempts = 1
    <3>1. Sound(pr, auth)
      BY <1>3, Zenon
    <3>2. Sound(t, auth) /\ Starts(pr, t)
      BY <2>1, <3>1, QueriedSound, Zenon
    <3> QED BY ONLY <3>2, Zenon DEF Starts
  <2>3. StateTtl \in Nat
    BY RecoveryAssumption, Zenon
  \* An expired query leaves a backoff, which is neither pruned nor over.
  <2>4. ASSUME NEW p \in s.queries, p \notin c.queries
        PROVE  /\ p \in DOMAIN pr.peers /\ p \notin t.queries
               /\ t.peers[p].attempts = s.peers[p].attempts
               /\ t.peers[p].retry = FailureBackoff(s.peers[p].attempts)
    <3>1. /\ p \in DOMAIN c.peers /\ c.peers[p].attempts = s.peers[p].attempts
          /\ c.peers[p].retry = FailureBackoff(s.peers[p].attempts)
          /\ s.peers[p] \in States
      BY <1>0, <1>1, <2>4, Zenon
    <3>2. c.peers[p].retry \in Nat /\ c.peers[p].retry > 0
      BY <3>1, BackoffPositive, Zenon
    <3>3. ~(c.peers[p].retry <= 0) /\ ~(c.peers[p].retry <= 0 - StateTtl)
      BY <2>3, <3>2
    <3>4. p \in DOMAIN pr.peers /\ pr.peers[p] = c.peers[p]
      BY <1>3, <3>1, <3>3, Zenon
    <3>5. p \notin t.queries
      BY <1>3, <2>2, <2>4, <3>3, <3>4, Zenon
    <3> QED BY <2>2, <3>1, <3>4, <3>5, Zenon
  <2>5. ASSUME NEW p \in s.queries, p \in c.queries
        PROVE  p \in t.queries /\ t.peers[p] = s.peers[p]
    <3>1. p \in pr.queries /\ p \in DOMAIN pr.peers /\ p \in DOMAIN s.peers
      BY <1>0, <1>3, <2>5, Zenon DEF Sound
    <3>2. c.peers[p] = s.peers[p]
      BY <1>1, <2>5, <3>1, Zenon
    <3> QED BY <1>3, <2>2, <3>1, <3>2, Zenon
  <2>6. ASSUME NEW p \in Peers, p \notin s.queries, p \notin t.queries
        PROVE  Rests(s, t, p)
    <3>1. CASE p \in DOMAIN pr.peers
      BY <1>1, <1>3, <2>2, <2>6, <3>1, Zenon DEF Rests
    <3>2. CASE p \notin DOMAIN pr.peers
      BY <1>1, <1>3, <2>6, <3>2, Zenon DEF Rests
    <3> QED BY <3>1, <3>2, Zenon
  <2>7. ASSUME NEW p \in Peers, p \notin s.queries, p \in t.queries
        PROVE  \/ /\ p \in DOMAIN s.peers /\ s.peers[p].retry <= 0
                  /\ t.peers[p].attempts = IF s.peers[p].attempts < MaxAttempts
                                           THEN s.peers[p].attempts + 1 ELSE MaxAttempts
               \/ /\ p \notin DOMAIN s.peers \/ s.peers[p].retry <= 0 - StateTtl
                  /\ t.peers[p].attempts = 1
    <3>0. p \in t.queries \ pr.queries
      BY <1>1, <1>3, <2>7, Zenon
    <3>1. CASE p \in DOMAIN pr.peers
      <4>1. p \in DOMAIN s.peers /\ pr.peers[p] = s.peers[p]
        BY <1>1, <1>3, <2>7, <3>1
      <4> QED BY <2>2, <3>0, <3>1, <4>1, Zenon
    <3>2. CASE p \notin DOMAIN pr.peers
      <4>1. p \notin DOMAIN s.peers \/ s.peers[p].retry <= 0 - StateTtl
        BY <1>1, <1>3, <2>7, <3>2, Zenon
      <4> QED BY <2>2, <3>0, <3>2, <4>1, Zenon
    <3> QED BY <3>1, <3>2, Zenon
  <2>8. ASSUME NEW p \in Peers PROVE Follows(s, t, p)
    <3>1. p \in s.queries /\ p \in t.queries => t.peers[p] = s.peers[p]
      BY <2>4, <2>5, Zenon
    <3>2. p \in s.queries /\ p \notin t.queries =>
            /\ p \in DOMAIN t.peers
            /\ t.peers[p].attempts = s.peers[p].attempts
            /\ t.peers[p].retry = FailureBackoff(s.peers[p].attempts)
      BY <2>2, <2>4, <2>5, Zenon
    <3> QED BY <2>6, <2>7, <3>1, <3>2, Zenon DEF Follows
  <2> QED BY <2>2, <2>8, Zenon DEF t
<1> QED BY <1>4, <1>5, <1>6, Zenon

(* ------------------------------ cooldowns ------------------------------ *)

\* What is left of a cooldown of n queries after r ticks is still in the peer's state:
\* either nothing is, and the state may go, or the state has the attempts and the
\* retry time.  A query under way has counted its own.
Earned(s, p, n, r) ==
    IF p \in s.queries THEN s.peers[p].attempts >= n
    ELSE n > 0 => \/ r >= FailureBackoff(n) + StateTtl
                  \/ /\ p \in DOMAIN s.peers /\ s.peers[p].attempts >= n
                     /\ r + s.peers[p].retry >= FailureBackoff(n)

RecoveryInvariant ==
    /\ Sound(Now, authorized)
    /\ authorized \subseteq Peers /\ connected \subseteq authorized
    /\ streak \in [Peers -> 0..MaxAttempts] /\ rest \in [Peers -> 0..LongestRest]
    /\ \A p \in Peers : Earned(Now, p, streak[p], rest[p])

\* The step of CooldownsHold.
Waited ==
    \A p \in queries' \ queries :
      streak[p] > 0 => rest[p] >= FailureBackoff(streak[p])

LEMMA NowParts == Now = [peers |-> peers, queries |-> queries]
                  /\ Now.peers = peers /\ Now.queries = queries
BY Zenon DEF Now

LEMMA Numbers ==
    /\ MaxAttempts \in Nat \ {0} /\ StateTtl \in Nat \ {0} /\ BackoffMax \in Nat
    /\ LongestRest = BackoffMax + StateTtl /\ LongestRest \in Nat
BY RecoveryAssumption DEF MaxAttempts, LongestRest

\* What is earned stays earned when a handler follows the rules, and the query that
\* starts has waited.
LEMMA EarnedFollows ==
    ASSUME NEW auth, NEW s, NEW t, Sound(s, auth), Sound(t, auth), NEW p \in Peers,
           Follows(s, t, p), NEW n \in 0..MaxAttempts, NEW r \in 0..LongestRest,
           Earned(s, p, n, r),
           NEW n2, n2 = IF p \notin t.queries \ s.queries THEN n
                        ELSE IF r >= FailureBackoff(n) + StateTtl THEN 1
                        ELSE Min({n + 1, MaxAttempts}),
           NEW r2, r2 = IF p \in s.queries \ t.queries THEN 0 ELSE r
    PROVE  /\ n2 \in 0..MaxAttempts /\ r2 \in 0..LongestRest
           /\ Earned(t, p, n2, r2)
           /\ p \in t.queries \ s.queries => (n > 0 => r >= FailureBackoff(n))
<1>1. /\ n \in Nat /\ r \in Nat /\ FailureBackoff(n) \in Nat
      /\ n <= MaxAttempts
  BY BackoffGrows, Numbers
<1>2. Min({n + 1, MaxAttempts}) = IF n < MaxAttempts THEN n + 1 ELSE MaxAttempts
  BY <1>1, Numbers, MinOfTwo
<1>3. /\ \A q \in DOMAIN s.peers : s.peers[q] \in States
      /\ \A q \in s.queries : q \in DOMAIN s.peers
      /\ \A q \in t.queries : q \in DOMAIN t.peers
      /\ \A q \in DOMAIN t.peers : t.peers[q] \in States
  BY Zenon DEF Sound
<1>4. CASE p \in s.queries /\ p \in t.queries
  BY <1>1, <1>4, Zenon DEF Follows, Earned
<1>5. CASE p \in s.queries /\ p \notin t.queries
  <2>1. n2 = n /\ r2 = 0
    BY <1>5, Zenon
  <2>2. s.peers[p].attempts >= n /\ s.peers[p] \in States
    BY <1>3, <1>5, Zenon DEF Earned
  <2>3. s.peers[p].attempts \in Nat /\ FailureBackoff(s.peers[p].attempts) \in Nat
        /\ FailureBackoff(n) <= FailureBackoff(s.peers[p].attempts)
    BY <1>1, <2>2, StateParts, BackoffGrows
  <2>4. /\ p \in DOMAIN t.peers
        /\ t.peers[p].attempts = s.peers[p].attempts
        /\ t.peers[p].retry = FailureBackoff(s.peers[p].attempts)
    BY <1>5, Zenon DEF Follows
  <2>5. Earned(t, p, n, 0)
    BY <1>1, <1>5, <2>2, <2>3, <2>4 DEF Earned
  <2> QED BY <1>1, <1>5, <2>1, <2>5, Numbers
<1>6. CASE p \notin s.queries /\ p \notin t.queries
  <2>1. n2 = n /\ r2 = r
    BY <1>6, Zenon
  <2>2. Rests(s, t, p)
    BY <1>6, Zenon DEF Follows
  <2>3. p \in DOMAIN s.peers => s.peers[p].retry \in Int /\ s.peers[p].attempts \in Nat
    BY <1>3, StateParts, Zenon
  <2>4. Earned(t, p, n, r)
    <3>1. CASE n = 0
      BY <1>6, <3>1 DEF Earned
    <3>2. CASE p \in DOMAIN s.peers /\ p \in DOMAIN t.peers /\ t.peers[p] = s.peers[p]
      BY <1>6, <3>2, Zenon DEF Earned
    <3>3. CASE n > 0 /\ (p \notin DOMAIN s.peers \/ s.peers[p].retry <= 0 - StateTtl)
      <4>1. r >= FailureBackoff(n) + StateTtl
        BY <1>1, <1>6, <2>3, <3>3, Numbers DEF Earned
      <4> QED BY <1>6, <4>1, Zenon DEF Earned
    <3> QED BY <1>1, <2>2, <3>1, <3>2, <3>3 DEF Rests
  <2> QED BY <1>6, <2>1, <2>4, Zenon
<1>7. CASE p \notin s.queries /\ p \in t.queries
  <2>1. r2 = r /\ n2 = IF r >= FailureBackoff(n) + StateTtl THEN 1
                       ELSE IF n < MaxAttempts THEN n + 1 ELSE MaxAttempts
    BY <1>2, <1>7, Zenon
  <2>2. p \in DOMAIN s.peers => s.peers[p].retry \in Int /\ s.peers[p].attempts \in Nat
    BY <1>3, StateParts, Zenon
  <2>3. t.peers[p].attempts \in Nat
    BY <1>3, <1>7, StateParts, Zenon
  <2>4. CASE /\ p \in DOMAIN s.peers /\ s.peers[p].retry <= 0
             /\ t.peers[p].attempts = IF s.peers[p].attempts < MaxAttempts
                                      THEN s.peers[p].attempts + 1 ELSE MaxAttempts
    <3>1. n > 0 => \/ r >= FailureBackoff(n) + StateTtl
                   \/ s.peers[p].attempts >= n /\ r >= FailureBackoff(n)
      BY <1>1, <1>7, <2>2, <2>4, Numbers DEF Earned
    <3>2. t.peers[p].attempts >= n2
      BY <1>1, <2>1, <2>2, <2>4, <3>1, Numbers
    <3>3. n2 \in 0..MaxAttempts
      BY <1>1, <2>1, Numbers
    <3> QED BY <1>1, <1>7, <2>1, <3>1, <3>2, <3>3, Numbers DEF Earned
  <2>5. CASE /\ p \notin DOMAIN s.peers \/ s.peers[p].retry <= 0 - StateTtl
             /\ t.peers[p].attempts = 1
    <3>1. n > 0 => r >= FailureBackoff(n) + StateTtl
      BY <1>1, <1>7, <2>2, <2>5, Numbers DEF Earned
    <3>2. n2 = 1
      BY <1>1, <2>1, <3>1, Numbers
    <3> QED BY <1>1, <1>7, <2>1, <2>5, <3>1, <3>2, Numbers DEF Earned
  <2> QED BY <1>7, <2>4, <2>5, Zenon DEF Follows
<1> QED BY <1>4, <1>5, <1>6, <1>7, Zenon

\* The handlers that follow the rules keep the invariant.
LEMMA BecomesHolds ==
    ASSUME RecoveryInvariant, NEW t, Sound(t, authorized),
           \A p \in Peers : Follows(Now, t, p), Becomes(t),
           authorized' = authorized, connected' \subseteq authorized
    PROVE  RecoveryInvariant' /\ Waited
<1>1. /\ peers' = t.peers /\ queries' = t.queries
      /\ streak' = [p \in Peers |->
           IF p \notin t.queries \ queries THEN streak[p]
           ELSE IF rest[p] >= FailureBackoff(streak[p]) + StateTtl THEN 1
           ELSE Min({streak[p] + 1, MaxAttempts})]
      /\ rest' = [p \in Peers |-> IF p \in queries \ t.queries THEN 0 ELSE rest[p]]
  BY Zenon DEF Becomes
<1>2. Now' = t
  BY <1>1, Zenon DEF Now, Sound
<1>3. ASSUME NEW p \in Peers
      PROVE  /\ streak'[p] \in 0..MaxAttempts /\ rest'[p] \in 0..LongestRest
             /\ Earned(t, p, streak'[p], rest'[p])
             /\ p \in t.queries \ queries =>
                  (streak[p] > 0 => rest[p] >= FailureBackoff(streak[p]))
  <2>1. /\ Sound(Now, authorized) /\ streak[p] \in 0..MaxAttempts /\ rest[p] \in 0..LongestRest
        /\ Earned(Now, p, streak[p], rest[p]) /\ Follows(Now, t, p)
    BY Zenon DEF RecoveryInvariant
  <2>2. streak'[p] = IF p \notin t.queries \ Now.queries THEN streak[p]
                     ELSE IF rest[p] >= FailureBackoff(streak[p]) + StateTtl THEN 1
                     ELSE Min({streak[p] + 1, MaxAttempts})
    BY <1>1, NowParts, Zenon
  <2>3. rest'[p] = IF p \in Now.queries \ t.queries THEN 0 ELSE rest[p]
    BY <1>1, NowParts, Zenon
  <2> QED BY <2>1, <2>2, <2>3, EarnedFollows, NowParts
<1>4. streak' \in [Peers -> 0..MaxAttempts] /\ rest' \in [Peers -> 0..LongestRest]
  BY <1>1, <1>3, Zenon
<1>5. Waited
  <2>1. t.queries \subseteq Peers
    BY Zenon DEF Sound
  <2> QED BY <1>1, <1>3, <2>1, Zenon DEF Waited
<1>6. RecoveryInvariant'
  BY <1>2, <1>3, <1>4, Zenon DEF RecoveryInvariant
<1> QED BY <1>5, <1>6, Zenon

\* The handlers that forget the history of some peers.
LEMMA BecomesFreshHolds ==
    ASSUME RecoveryInvariant, NEW t, NEW auth \in SUBSET Peers, Sound(t, auth),
           NEW fresh \in SUBSET Peers, BecomesFresh(t, fresh),
           authorized' = auth, connected' \subseteq auth, t.queries \subseteq queries,
           \A p \in Peers \ fresh :
             /\ p \in t.queries <=> p \in queries
             /\ p \in DOMAIN t.peers <=> p \in DOMAIN peers
             /\ p \in DOMAIN peers => t.peers[p] = peers[p]
    PROVE  RecoveryInvariant' /\ Waited
<1>1. /\ peers' = t.peers /\ queries' = t.queries
      /\ streak' = [p \in Peers |-> IF p \in fresh THEN 0 ELSE streak[p]]
      /\ rest' = [p \in Peers |-> IF p \in fresh THEN LongestRest ELSE rest[p]]
  BY Zenon DEF BecomesFresh
<1>2. Now' = t
  BY <1>1, Zenon DEF Now, Sound
<1>3. ASSUME NEW p \in Peers
      PROVE  /\ streak'[p] \in 0..MaxAttempts /\ rest'[p] \in 0..LongestRest
             /\ Earned(t, p, streak'[p], rest'[p])
  <2>1. /\ streak[p] \in 0..MaxAttempts /\ rest[p] \in 0..LongestRest
        /\ Earned(Now, p, streak[p], rest[p])
    BY Zenon DEF RecoveryInvariant
  <2>2. CASE p \in fresh
    <3>1. streak'[p] = 0 /\ rest'[p] = LongestRest
      BY <1>1, <2>2, Zenon
    <3>2. p \in t.queries => t.peers[p].attempts \in Nat
      BY StateParts, Zenon DEF Sound
    <3> QED BY <3>1, <3>2, Numbers DEF Earned
  <2>3. CASE p \notin fresh
    <3>1. streak'[p] = streak[p] /\ rest'[p] = rest[p]
      BY <1>1, <2>3, Zenon
    <3>2. /\ p \in t.queries <=> p \in queries
          /\ p \in DOMAIN t.peers <=> p \in DOMAIN peers
          /\ p \in DOMAIN peers => t.peers[p] = peers[p]
      BY <2>3, Zenon
    <3>3. p \in queries => p \in DOMAIN peers
      BY NowParts, Zenon DEF RecoveryInvariant, Sound
    <3> QED BY <2>1, <3>1, <3>2, <3>3, NowParts, Zenon DEF Earned
  <2> QED BY <2>2, <2>3, Zenon
<1>4. streak' \in [Peers -> 0..MaxAttempts] /\ rest' \in [Peers -> 0..LongestRest]
  BY <1>1, <1>3, Zenon
<1>5. Waited
  BY <1>1, Zenon DEF Waited
<1>6. RecoveryInvariant'
  BY <1>2, <1>3, <1>4, Zenon DEF RecoveryInvariant
<1> QED BY <1>5, <1>6, Zenon

LEMMA FinishedFollows ==
    ASSUME NEW auth, NEW s, Sound(s, auth), NEW done \in SUBSET s.queries
    PROVE  /\ Sound(Finished(s, done), auth)
           /\ \A p \in Peers : Follows(s, Finished(s, done), p)
<1> DEFINE t == Finished(s, done)
<1>1. /\ Sound(t, auth) /\ DOMAIN t.peers = DOMAIN s.peers /\ t.queries = s.queries \ done
      /\ \A p \in DOMAIN s.peers :
           IF p \in done
           THEN /\ t.peers[p].pending = 0
                /\ t.peers[p].attempts = s.peers[p].attempts
                /\ t.peers[p].retry = FailureBackoff(s.peers[p].attempts)
           ELSE t.peers[p] = s.peers[p]
  BY FinishedSound
<1> HIDE DEF t
<1>2. \A p \in s.queries : p \in DOMAIN s.peers
  BY Zenon DEF Sound
<1> QED BY <1>1, <1>2, Zenon DEF Follows, Rests, t

LEMMA ConnectionEstablishedHolds ==
    ASSUME RecoveryInvariant, NEW p \in Peers, ConnectionEstablished(p)
    PROVE  RecoveryInvariant' /\ Waited
<1> DEFINE after(x) == [peers[x] EXCEPT !.attempts = 0, !.retry = ConnectedRetry]
           f == [x \in DOMAIN peers |-> IF x = p THEN after(x) ELSE peers[x]]
           t == [peers |-> f, queries |-> queries]
<1>1. /\ Sound(Now, authorized) /\ authorized \subseteq Peers /\ connected \subseteq authorized
      /\ p \in authorized /\ authorized' = authorized /\ connected' = connected \cup {p}
  BY Zenon DEF RecoveryInvariant, ConnectionEstablished
<1>2. BecomesFresh(t, {p})
  <2> DEFINE g == [x \in DOMAIN Now.peers |->
                     IF x = p THEN [Now.peers[x] EXCEPT !.attempts = 0, !.retry = ConnectedRetry]
                     ELSE Now.peers[x]]
  <2>1. BecomesFresh([Now EXCEPT !.peers = g], {p})
    BY Zenon DEF ConnectionEstablished
  <2>2. g = f
    BY NowParts, Zenon
  <2> HIDE DEF g, f
  <2>3. [Now EXCEPT !.peers = g] = [peers |-> g, queries |-> queries]
    BY DEF Now
  <2> QED BY <2>1, <2>2, <2>3, Zenon
<1>3. /\ \A x \in DOMAIN peers : peers[x] \in States
      /\ queries = {x \in DOMAIN peers : peers[x].pending > 0}
      /\ DOMAIN peers \subseteq Peers /\ queries \subseteq authorized
      /\ \A x, y \in queries : x = y
  BY <1>1, NowParts, Zenon DEF Sound
<1>4. ASSUME NEW x \in DOMAIN peers
      PROVE  after(x) \in States /\ after(x).pending = peers[x].pending
  <2>1. ConnectedRetry \in Int /\ ConnectedRetry >= 0 - StateTtl
    BY RecoveryAssumption
  <2>2. peers[x] \in States
    BY <1>3, Zenon
  <2>3. after(x) \in States
    BY ONLY <2>1, <2>2, StateAfter, Zenon
  <2> QED BY <2>2, <2>3, Zenon DEF States
<1> HIDE DEF after
<1>5. /\ f \in [DOMAIN f -> States] /\ DOMAIN f = DOMAIN peers
      /\ \A x \in DOMAIN peers : f[x].pending = peers[x].pending
      /\ \A x \in DOMAIN peers \ {p} : f[x] = peers[x]
  BY <1>3, <1>4, Zenon
<1> HIDE DEF f
<1>6. t = [peers |-> t.peers, queries |-> t.queries] /\ t.peers = f /\ t.queries = queries
  BY Zenon
<1> HIDE DEF t
<1>7. Sound(t, authorized)
  BY <1>3, <1>5, <1>6, Zenon DEF Sound
<1> QED BY <1>1, <1>2, <1>5, <1>6, <1>7, BecomesFreshHolds, Zenon

LEMMA NetworkChangedHolds ==
    ASSUME RecoveryInvariant, NetworkChanged PROVE RecoveryInvariant' /\ Waited
<1> DEFINE t == [peers |-> <<>>, queries |-> {}]
<1>1. BecomesFresh(t, Peers) /\ authorized' = authorized /\ connected' = {}
      /\ authorized \in SUBSET Peers
  BY Zenon DEF NetworkChanged, RecoveryInvariant
<1>2. t.queries = {} /\ t = [peers |-> t.peers, queries |-> t.queries] /\ t.peers = <<>>
  BY Zenon
<1>3. DOMAIN t.peers = {} /\ t.peers \in [{} -> States]
  BY <1>2
<1> HIDE DEF t
<1>4. Sound(t, authorized)
  BY <1>2, <1>3, Zenon DEF Sound
<1> QED BY <1>1, <1>2, <1>4, BecomesFreshHolds, Zenon

LEMMA AuthorizationChangedHolds ==
    ASSUME RecoveryInvariant, NEW keep \in SUBSET Peers, AuthorizationChanged(keep)
    PROVE  RecoveryInvariant' /\ Waited
<1> DEFINE f == [p \in DOMAIN peers \cap keep |-> peers[p]]
           t == [queries |-> queries \cap keep, peers |-> f]
<1>1. BecomesFresh(t, Peers \ keep) /\ authorized' = keep /\ connected' = connected \cap keep
  BY NowParts, Zenon DEF AuthorizationChanged, Retained
<1>2. /\ \A x \in DOMAIN peers : peers[x] \in States
      /\ queries = {x \in DOMAIN peers : peers[x].pending > 0}
      /\ DOMAIN peers \subseteq Peers
      /\ \A x, y \in queries : x = y
  BY NowParts, Zenon DEF RecoveryInvariant, Sound
<1>3. /\ DOMAIN f = DOMAIN peers \cap keep /\ f \in [DOMAIN f -> States]
      /\ \A p \in DOMAIN f : f[p] = peers[p]
  BY <1>2, Zenon
<1> HIDE DEF f
<1>4. t = [peers |-> t.peers, queries |-> t.queries] /\ t.peers = f /\ t.queries = queries \cap keep
  BY Zenon
<1> HIDE DEF t
<1>5. Sound(t, keep)
  BY <1>2, <1>3, <1>4, Zenon DEF Sound
<1> QED BY <1>1, <1>3, <1>4, <1>5, BecomesFreshHolds, Zenon

LEMMA TickHolds ==
    ASSUME RecoveryInvariant, Tick PROVE RecoveryInvariant' /\ Waited
<1> DEFINE age(p) == Min({peers[p].age + 1, LongestAge})
           retry(p) == Max({peers[p].retry - 1, 0 - StateTtl})
           after(p) == [peers[p] EXCEPT !.age = age(p), !.retry = retry(p)]
<1>1. /\ peers' = [p \in DOMAIN peers |-> after(p)]
      /\ rest' = [p \in Peers |-> Min({rest[p] + 1, LongestRest})]
      /\ queries' = queries /\ authorized' = authorized /\ connected' = connected
      /\ streak' = streak
  BY Zenon DEF Tick
<1>2. /\ \A x \in DOMAIN peers : peers[x] \in States
      /\ queries = {x \in DOMAIN peers : peers[x].pending > 0}
      /\ DOMAIN peers \subseteq Peers /\ queries \subseteq authorized
      /\ \A x, y \in queries : x = y
      /\ authorized \subseteq Peers /\ connected \subseteq authorized
      /\ streak \in [Peers -> 0..MaxAttempts] /\ rest \in [Peers -> 0..LongestRest]
      /\ \A p \in Peers : Earned(Now, p, streak[p], rest[p])
  BY NowParts, Zenon DEF RecoveryInvariant, Sound
<1>3. ASSUME NEW p \in DOMAIN peers
      PROVE  /\ after(p) \in States /\ after(p).pending = peers[p].pending
             /\ after(p).attempts = peers[p].attempts
             /\ after(p).retry = IF peers[p].retry - 1 >= 0 - StateTtl
                                 THEN peers[p].retry - 1 ELSE 0 - StateTtl
  <2>1. /\ peers[p].age \in Nat /\ peers[p].retry \in Int /\ peers[p] \in States
    BY <1>2, StateParts, Zenon
  <2>2. LongestAge \in Nat
    BY RecoveryAssumption, MaxOfTwo DEF LongestAge
  <2>3. age(p) \in Nat
    BY <2>1, <2>2, MinOfTwo
  <2>4. retry(p) = IF peers[p].retry - 1 >= 0 - StateTtl THEN peers[p].retry - 1 ELSE 0 - StateTtl
    BY <2>1, Numbers, MaxOfTwo
  <2>5. retry(p) \in Int /\ retry(p) >= 0 - StateTtl
    BY <2>1, <2>4, Numbers
  <2> HIDE DEF age, retry
  <2>6. after(p) \in States
    BY ONLY <2>1, <2>3, <2>5, StateAfter, Zenon
  <2>7. /\ after(p).pending = peers[p].pending /\ after(p).attempts = peers[p].attempts
        /\ after(p).retry = retry(p)
    BY <2>1, Zenon DEF States
  <2> QED BY <2>4, <2>6, <2>7, Zenon
<1> HIDE DEF after
<1>4. /\ DOMAIN peers' = DOMAIN peers /\ peers' \in [DOMAIN peers' -> States]
      /\ \A p \in DOMAIN peers : peers'[p] = after(p)
  BY <1>1, <1>3, Zenon
<1>5. Now' = [peers |-> peers', queries |-> queries'] /\ Now'.peers = peers'
      /\ Now'.queries = queries'
  BY Zenon DEF Now
<1>6. queries' = {x \in DOMAIN peers' : peers'[x].pending > 0}
  BY <1>1, <1>2, <1>3, <1>4, Zenon
<1>7. Sound(Now', authorized')
  BY <1>1, <1>2, <1>4, <1>5, <1>6, Zenon DEF Sound
<1>8. ASSUME NEW p \in Peers
      PROVE  rest'[p] \in 0..LongestRest /\ Earned(Now', p, streak'[p], rest'[p])
  <2> DEFINE n == streak[p]
             r == rest[p]
  <2>1. n \in 0..MaxAttempts /\ r \in 0..LongestRest /\ Earned(Now, p, n, r)
    BY <1>2, Zenon
  <2>2. rest'[p] = IF r + 1 <= LongestRest THEN r + 1 ELSE LongestRest
    BY <1>1, <2>1, Numbers, MinOfTwo
  <2>3. streak'[p] = n
    BY <1>1, Zenon
  <2> HIDE DEF n, r
  <2>4. /\ FailureBackoff(n) \in Nat /\ FailureBackoff(n) <= BackoffMax
    BY <2>1, BackoffGrows, Numbers
  <2>5. CASE p \in queries
    BY <1>1, <1>2, <1>3, <1>4, <1>5, <2>1, <2>2, <2>3, <2>5, NowParts, Numbers DEF Earned
  <2>6. CASE p \notin queries /\ (n = 0 \/ r >= FailureBackoff(n) + StateTtl)
    <3>1. r \in Nat /\ FailureBackoff(n) + StateTtl <= LongestRest
      BY <2>1, <2>4, Numbers
    <3>2. rest'[p] \in 0..LongestRest
          /\ (n = 0 \/ rest'[p] >= FailureBackoff(n) + StateTtl)
      BY <2>1, <2>2, <2>4, <2>6, <3>1, Numbers
    <3>3. p \notin Now'.queries
      BY <1>1, <1>5, <2>6, Zenon
    <3> QED BY <2>1, <2>3, <3>2, <3>3 DEF Earned
  <2>7. CASE p \notin queries /\ n > 0 /\ ~(r >= FailureBackoff(n) + StateTtl)
    <3>1. p \in DOMAIN peers /\ peers[p].attempts >= n /\ r + peers[p].retry >= FailureBackoff(n)
      BY <2>1, <2>7, NowParts, Zenon DEF Earned
    <3>2. peers[p].retry \in Int /\ peers[p].retry >= 0 - StateTtl
      BY <1>2, <3>1, StateParts, Zenon
    <3>3. /\ peers'[p].attempts = peers[p].attempts
          /\ peers'[p].retry = IF peers[p].retry - 1 >= 0 - StateTtl
                               THEN peers[p].retry - 1 ELSE 0 - StateTtl
      BY <1>3, <1>4, <3>1, Zenon
    <3>4. rest'[p] + peers'[p].retry >= FailureBackoff(n)
      BY <2>1, <2>2, <2>4, <3>1, <3>2, <3>3, Numbers
    <3> QED BY <1>1, <1>4, <1>5, <2>1, <2>2, <2>3, <2>7, <3>1, <3>3, <3>4, Numbers DEF Earned
  <2> QED BY <2>1, <2>5, <2>6, <2>7
<1>9. rest' \in [Peers -> 0..LongestRest]
  BY <1>1, <1>8, Zenon
<1>10. Waited
  BY <1>1, Zenon DEF Waited
<1> QED BY <1>1, <1>2, <1>7, <1>8, <1>9, <1>10, Zenon DEF RecoveryInvariant

LEMMA RecoveryStep ==
    ASSUME RecoveryInvariant, [Next]_recoveryVars PROVE RecoveryInvariant' /\ Waited
<1>0. /\ Sound(Now, authorized) /\ authorized \in SUBSET Peers /\ connected \subseteq authorized
      /\ Now.queries = queries
  BY NowParts, Zenon DEF RecoveryInvariant
<1>1. ASSUME NEW accepts \in BOOLEAN, RedialTick(accepts) PROVE RecoveryInvariant' /\ Waited
  <2>1. /\ Becomes(QueryForPeers(Now, Targets, grace, accepts))
        /\ authorized' = authorized /\ connected' = connected /\ Targets \in SUBSET authorized
    BY <1>1, Zenon DEF RedialTick, Targets
  <2> QED BY <1>0, <2>1, QueryForPeersFollows, BecomesHolds, Zenon
<1>2. CASE QuietTick
  <2>1. Becomes(Finished(Now, queries)) /\ authorized' = authorized /\ connected' = connected
    BY <1>2, Zenon DEF QuietTick
  <2> QED BY <1>0, <2>1, FinishedFollows, BecomesHolds, Zenon
<1>3. ASSUME NEW p \in queries, QueryProgress(p) PROVE RecoveryInvariant' /\ Waited
  <2>1. Becomes(Finished(Now, {p})) /\ authorized' = authorized /\ connected' = connected
        /\ {p} \in SUBSET Now.queries
    BY <1>0, <1>3, Zenon DEF QueryProgress
  <2> QED BY <1>0, <2>1, FinishedFollows, BecomesHolds, Zenon
<1>4. ASSUME NEW p \in Peers, NEW accepts \in BOOLEAN, OutgoingConnectionError(p, accepts)
      PROVE  RecoveryInvariant' /\ Waited
  <2>1. /\ Becomes(QueryForPeers(Now, {p}, grace, accepts))
        /\ authorized' = authorized /\ connected' = connected /\ {p} \in SUBSET authorized
    BY <1>4, Zenon DEF OutgoingConnectionError
  <2> QED BY <1>0, <2>1, QueryForPeersFollows, BecomesHolds, Zenon
<1>5. ASSUME NEW p \in Peers, ConnectionEstablished(p) PROVE RecoveryInvariant' /\ Waited
  BY <1>5, ConnectionEstablishedHolds, Zenon
<1>6. ASSUME NEW p \in connected, NEW accepts \in BOOLEAN, ConnectionClosed(p, accepts)
      PROVE  RecoveryInvariant' /\ Waited
  <2>1. /\ Becomes(QueryForPeers(Now, {p}, grace', accepts))
        /\ authorized' = authorized /\ connected' \subseteq authorized
        /\ {p} \in SUBSET authorized
    BY <1>0, <1>6, Zenon DEF ConnectionClosed
  <2> QED BY <1>0, <2>1, QueryForPeersFollows, BecomesHolds, Zenon
<1>7. CASE NetworkChanged
  BY <1>7, NetworkChangedHolds, Zenon
<1>8. ASSUME NEW keep \in SUBSET Peers, AuthorizationChanged(keep)
      PROVE  RecoveryInvariant' /\ Waited
  BY <1>8, AuthorizationChangedHolds, Zenon
<1>9. CASE Tick
  BY <1>9, TickHolds, Zenon
<1>10. CASE UNCHANGED recoveryVars
  BY <1>10, Zenon DEF recoveryVars, RecoveryInvariant, Now, Waited
<1> QED BY <1>1, <1>2, <1>3, <1>4, <1>5, <1>6, <1>7, <1>8, <1>9, <1>10, Zenon DEF Next

\* The maps of RecoveryQueries stay consistent and remember every cooldown, whatever
\* connections, refusals, expiries, network and authority changes come between.
THEOREM RecoveryIsConsistent == Spec => []RecoveryInvariant
<1>1. Init => RecoveryInvariant
  <2> SUFFICES ASSUME Init PROVE RecoveryInvariant
    BY Zenon
  <2>1. peers = <<>> /\ queries = {} /\ authorized = Peers /\ connected = {}
        /\ streak = [p \in Peers |-> 0] /\ rest = [p \in Peers |-> LongestRest]
    BY Zenon DEF Init
  <2>2. DOMAIN peers = {} /\ peers \in [{} -> States]
    BY <2>1
  <2>3. Sound(Now, authorized)
    BY <2>1, <2>2, NowParts, Zenon DEF Sound
  <2>4. \A p \in Peers : Earned(Now, p, streak[p], rest[p])
    BY <2>1, NowParts DEF Earned
  <2> QED BY <2>1, <2>3, <2>4, Numbers DEF RecoveryInvariant
<1>2. RecoveryInvariant /\ [Next]_recoveryVars => RecoveryInvariant'
  BY RecoveryStep, Zenon
<1> QED BY <1>1, <1>2, PTL DEF Spec

\* The query slot is never held for nobody: queries and pending counts agree, for
\* authorized peers only and for one at a time.
THEOREM SlotsAreOwned == Spec => []OwnershipMatches
<1>1. RecoveryInvariant => OwnershipMatches
  <2> SUFFICES ASSUME RecoveryInvariant PROVE OwnershipMatches
    BY Zenon
  <2>1. /\ queries = {p \in DOMAIN peers : peers[p].pending > 0}
        /\ queries \subseteq authorized /\ \A p, q \in queries : p = q
    BY NowParts, Zenon DEF RecoveryInvariant, Sound
  <2>2. Cardinality(queries) <= 1
    <3>1. CASE queries = {}
      BY <3>1, FS_EmptySet
    <3>2. CASE queries # {}
      <4>1. PICK p \in queries : TRUE
        BY <3>2, Zenon
      <4>2. queries = {p}
        BY <2>1, <4>1, Zenon
      <4> QED BY <4>2, FS_Singleton
    <3> QED BY <3>1, <3>2, Zenon
  <2> QED BY <2>1, <2>2, Zenon DEF OwnershipMatches
<1> QED BY <1>1, RecoveryIsConsistent, PTL

\* Idle expiry never erases a cooldown: a query starts only after the backoff that the
\* peer's streak of queries has earned, though its state may have been pruned, admitted
\* again or passed over in between.
THEOREM CooldownsAreWaitedOut == Spec => CooldownsHold
<1>1. RecoveryInvariant /\ [Next]_recoveryVars =>
        [\A p \in queries' \ queries :
           streak[p] > 0 => rest[p] >= FailureBackoff(streak[p])]_recoveryVars
  BY RecoveryStep, Zenon DEF Waited
<1> QED BY <1>1, RecoveryIsConsistent, PTL DEF Spec, CooldownsHold
=============================================================================
