---------------------- MODULE CheckpointTransferProofs ----------------------
(***************************************************************************)
(* Assemblies are awaited and nonces stay reserved, for every number of    *)
(* devices, sessions and pages and every order of answers and failures.    *)
(***************************************************************************)
EXTENDS CheckpointTransfer, TLAPS

-----------------------------------------------------------------------------
(* The inductive invariant.                                                *)

Rounds == [nonce : Nat, attempted : SUBSET Devices, deadline : Nat]

\* The requests that could continue the session of key k.
Continuing(rs, k) == {r \in rs : r.to = PeerOf(k) /\ r.nonce = k[2]}

Shaped(s) ==
    /\ DOMAIN s = {"open", "retired", "buffered"}
    /\ \A k \in DOMAIN s.open :
         /\ k = Key(PeerOf(k), k[2], DirectionOf(k))
         /\ DOMAIN s.open[k] = {"digest", "total", "cursor", "deadline"}

\* AssembliesAreAwaited for one device.
Awaited(d, s, rs) ==
    \A k \in DOMAIN s.open : DirectionOf(k) = "Assemble" =>
      Continuing(rs, k)
        = {Request(d, PeerOf(k), k[2], s.open[k].cursor, s.open[k].digest)}

\* The requests of a device are of its round, and of peers the round has asked.
OfRound(rd, rs) ==
    /\ rd \in Rounds \cup {None}
    /\ rd = None => rs = {}
    /\ \A r \in rs : r.nonce = rd.nonce /\ r.to \in rd.attempted

DeviceSound(d, s, rd, rs) == Shaped(s) /\ Awaited(d, s, rs) /\ OfRound(rd, rs)

\* An assembly is awaited because a round never asks a peer twice: that the requests
\* are those of the open round, and of peers it has asked, is part of the invariant.
TransferInvariant ==
    /\ now \in Nat /\ nonces \in Nat /\ restarts \in Nat
    /\ DOMAIN sync = Devices /\ DOMAIN round = Devices /\ DOMAIN requests = Devices
    /\ \A d \in Devices : DeviceSound(d, sync[d], round[d], requests[d])

-----------------------------------------------------------------------------
(* The operations on sessions.                                             *)

\* What is open in t was open in s and is as it was.
Within(t, s) ==
    /\ Shaped(t)
    /\ DOMAIN t.open \subseteq DOMAIN s.open
    /\ \A k \in DOMAIN t.open : t.open[k] = s.open[k]

\* No slot of s is free in t.
Keeps(s, t) == DOMAIN s.open \subseteq Slots(t) /\ DOMAIN s.retired \subseteq DOMAIN t.retired

\* The step of NoncesStayReserved for one device.
Reserves(s, t) ==
    /\ \A k \in DOMAIN s.open : now < s.open[k].deadline => k \in Slots(t)
    /\ \A k \in DOMAIN s.retired : now < s.retired[k] => k \in DOMAIN t.retired

\* cleanup drops only what expired.
LEMMA CleanupDrops ==
    ASSUME NEW s, Shaped(s)
    PROVE  /\ Within(Cleanup(s), s)
           /\ \A t : Keeps(Cleanup(s), t) => Reserves(s, t)
<1> DEFINE live == {k \in DOMAIN s.open : now < s.open[k].deadline}
           u == Cleanup(s)
<1>1. /\ DOMAIN u = {"open", "retired", "buffered"}
      /\ u.open = [k \in live |-> s.open[k]]
      /\ DOMAIN u.retired = {k \in DOMAIN s.retired : now < s.retired[k]}
  BY Zenon DEF Cleanup, Restrict
<1>2. /\ DOMAIN u.open = live /\ \A k \in live : u.open[k] = s.open[k]
  BY <1>1, Zenon
<1>3. Within(u, s)
  BY <1>1, <1>2, Zenon DEF Within, Shaped
<1>4. ASSUME NEW t, Keeps(u, t) PROVE Reserves(s, t)
  BY <1>1, <1>2, <1>4, Zenon DEF Keeps, Reserves
<1> QED BY <1>3, <1>4, Zenon

\* retire closes the sessions of the keys and keeps their slots.
LEMMA RetireCloses ==
    ASSUME NEW s, Shaped(s), NEW keys
    PROVE  /\ Within(Retire(s, keys), s)
           /\ Keeps(s, Retire(s, keys))
           /\ DOMAIN Retire(s, keys).open = DOMAIN s.open \ keys
<1> DEFINE gone == keys \cap DOMAIN s.open
           u == Retire(s, keys)
<1>1. /\ DOMAIN u = {"open", "retired", "buffered"}
      /\ u.open = [k \in DOMAIN s.open \ gone |-> s.open[k]]
      /\ DOMAIN u.retired = gone \cup DOMAIN s.retired
  BY Zenon DEF Retire, Restrict
<1>2. /\ DOMAIN u.open = DOMAIN s.open \ keys
      /\ \A k \in DOMAIN u.open : u.open[k] = s.open[k]
  BY <1>1, Zenon
<1> QED BY <1>1, <1>2, Zenon DEF Within, Shaped, Keeps, Slots

\* Sessions that close, and requests that go only with their session, keep the rest
\* awaited.
LEMMA StillAwaited ==
    ASSUME NEW d, NEW s, NEW t, NEW rs, NEW us, Awaited(d, s, rs), Within(t, s),
           \A k \in DOMAIN t.open :
             DirectionOf(k) = "Assemble" => Continuing(us, k) = Continuing(rs, k)
    PROVE  Awaited(d, t, us)
BY Zenon DEF Awaited, Within

\* What one operation does at device d.
Moves(d, t, us) ==
    /\ Shaped(t) /\ Awaited(d, t, us)
    /\ Reserves(sync[d], t)

\* The keys of every request that goes are among these.
Covers(keys, rs, us) ==
    us \subseteq rs /\ \A r \in rs \ us : BothWays(r.to, r.nonce) \subseteq keys

\* A cancelled session has no request left that somebody waits for.
LEMMA CancelMoves ==
    ASSUME TransferInvariant, NEW d \in Devices, NEW keys, NEW us,
           Covers(keys, requests[d], us)
    PROVE  Moves(d, Retire(Cleanup(sync[d]), keys), us)
<1> DEFINE s == sync[d]
           u == Cleanup(s)
           t == Retire(u, keys)
<1>1. Shaped(s) /\ Awaited(d, s, requests[d])
  BY Zenon DEF TransferInvariant, DeviceSound
<1>2. Within(u, s) /\ \A x : Keeps(u, x) => Reserves(s, x)
  BY <1>1, CleanupDrops, Zenon
<1>3. Within(t, u) /\ Keeps(u, t) /\ DOMAIN t.open = DOMAIN u.open \ keys
  BY <1>2, RetireCloses, Zenon DEF Within
<1> HIDE DEF s, u, t
<1>4. Within(t, s)
  BY <1>2, <1>3, Zenon DEF Within
<1>5. ASSUME NEW k \in DOMAIN t.open, DirectionOf(k) = "Assemble"
      PROVE  Continuing(us, k) = Continuing(requests[d], k)
  <2>1. k \notin keys /\ k = Key(PeerOf(k), k[2], "Assemble")
    BY <1>3, <1>5, Zenon DEF Within, Shaped
  <2>2. \A r \in requests[d] : r.to = PeerOf(k) /\ r.nonce = k[2] => r \in us
    BY <2>1, Zenon DEF BothWays, Covers
  <2> QED BY <2>2, Zenon DEF Continuing, Covers
<1>6. Awaited(d, t, us)
  BY <1>1, <1>4, <1>5, StillAwaited, Zenon
<1> QED BY <1>2, <1>3, <1>6, Zenon DEF Moves, Within, s, u, t

\* cleanup alone.
LEMMA CleanupMoves ==
    ASSUME TransferInvariant, NEW d \in Devices
    PROVE  Moves(d, Cleanup(sync[d]), requests[d])
<1>1. Shaped(sync[d]) /\ Awaited(d, sync[d], requests[d])
  BY Zenon DEF TransferInvariant, DeviceSound
<1>2. Keeps(Cleanup(sync[d]), Cleanup(sync[d]))
  BY Zenon DEF Keeps, Slots
<1> QED BY <1>1, <1>2, CleanupDrops, StillAwaited, Zenon DEF Moves, Within

\* Nothing happens at the device.
LEMMA RestMoves ==
    ASSUME TransferInvariant, NEW d \in Devices
    PROVE  Moves(d, sync[d], requests[d])
BY Zenon DEF TransferInvariant, DeviceSound, Moves, Reserves, Slots

\* Only device d has moved.
Steps(d) ==
    /\ DOMAIN sync' = Devices /\ DOMAIN round' = Devices /\ DOMAIN requests' = Devices
    /\ Moves(d, sync'[d], requests'[d]) /\ OfRound(round'[d], requests'[d])
    /\ \A e \in Devices \ {d} :
         sync'[e] = sync[e] /\ round'[e] = round[e] /\ requests'[e] = requests[e]

LEMMA StepsSound ==
    ASSUME TransferInvariant, NEW d \in Devices, Steps(d),
           now' \in Nat, nonces' \in Nat, restarts' \in Nat
    PROVE  /\ TransferInvariant'
           /\ \A e \in Devices : Reserves(sync[e], sync'[e])
<1>1. ASSUME NEW e \in Devices \ {d}
      PROVE  Reserves(sync[e], sync'[e]) /\ DeviceSound(e, sync'[e], round'[e], requests'[e])
  BY RestMoves, Zenon DEF Steps, TransferInvariant, Moves
<1>2. Reserves(sync[d], sync'[d]) /\ DeviceSound(d, sync'[d], round'[d], requests'[d])
  BY Zenon DEF Steps, Moves, DeviceSound
<1> QED BY <1>1, <1>2, Zenon DEF Steps, TransferInvariant

-----------------------------------------------------------------------------
(* The actions.                                                            *)

\* What a step of device d keeps and reserves.
Advances ==
    TransferInvariant' /\ \A e \in Devices : Reserves(sync[e], sync'[e])

\* Where the round stays and no request is new, the requests are still of the round.
LEMMA FewerOfRound ==
    ASSUME NEW rd, NEW rs, NEW us \in SUBSET rs, OfRound(rd, rs)
    PROVE  OfRound(rd, us)
BY Zenon DEF OfRound

LEMMA BeginStep ==
    ASSUME TransferInvariant, NEW d \in Devices, BeginResync(d) PROVE Advances
<1>1. /\ sync'[d] = sync[d] /\ requests'[d] = requests[d] /\ requests[d] = {}
      /\ round'[d] = [nonce |-> nonces + 1, attempted |-> {}, deadline |-> now + SessionTimeout]
  BY Zenon DEF BeginResync, TransferInvariant, DeviceSound, OfRound
<1>2. OfRound(round'[d], requests'[d])
  BY <1>1, TransferAssumption DEF OfRound, Rounds, TransferInvariant
<1>3. Steps(d)
  BY <1>1, <1>2, RestMoves, Zenon DEF Steps, BeginResync, TransferInvariant
<1> QED BY <1>3, StepsSound DEF Advances, BeginResync, TransferInvariant

LEMMA IdleStep ==
    ASSUME TransferInvariant, NEW d \in Devices, Idle(d) PROVE Advances
<1>1. sync'[d] = Cleanup(sync[d])
  BY Zenon DEF Idle, TransferInvariant
<1>2. Steps(d)
  BY <1>1, CleanupMoves, Zenon DEF Steps, Idle, TransferInvariant, DeviceSound
<1> QED BY <1>2, StepsSound, Zenon DEF Advances, Idle, TransferInvariant

\* A step that cancels and drops requests, and leaves the round.
Cancels(d, keys, us) ==
    /\ sync' = [sync EXCEPT ![d] = Retire(Cleanup(@), keys)]
    /\ DOMAIN requests' = Devices /\ requests'[d] = us
    /\ \A e \in Devices \ {d} : requests'[e] = requests[e]
    /\ UNCHANGED <<now, round, nonces, restarts>>

LEMMA CancelStep ==
    ASSUME TransferInvariant, NEW d \in Devices, NEW keys, NEW us,
           Covers(keys, requests[d], us), Cancels(d, keys, us)
    PROVE  Advances
<1>1. sync'[d] = Retire(Cleanup(sync[d]), keys) /\ requests'[d] = us
  BY Zenon DEF TransferInvariant, Cancels
<1>2. Moves(d, sync'[d], requests'[d])
  BY <1>1, CancelMoves, Zenon
<1>3. OfRound(round'[d], requests'[d])
  BY <1>1, FewerOfRound, Zenon DEF TransferInvariant, DeviceSound, Covers, Cancels
<1>4. Steps(d)
  BY <1>2, <1>3, Zenon DEF Steps, TransferInvariant, Cancels
<1> QED BY <1>4, StepsSound, Zenon DEF Advances, TransferInvariant, Cancels

LEMMA OutboundStep ==
    ASSUME TransferInvariant, NEW d \in Devices, NEW r \in requests[d], OutboundFailure(d, r)
    PROVE  Advances
<1>1. Covers(BothWays(r.to, r.nonce), requests[d], requests[d] \ {r})
  BY Zenon DEF Covers
<1>2. Cancels(d, BothWays(r.to, r.nonce), requests[d] \ {r})
  BY Zenon DEF Cancels, OutboundFailure, Cancel, TransferInvariant
<1> QED BY <1>1, <1>2, CancelStep, Zenon

LEMMA InboundStep ==
    ASSUME TransferInvariant, NEW d \in Devices, NEW page \in responses[d], InboundFailure(d, page)
    PROVE  Advances
<1>1. Covers(BothWays(page.to, page.nonce), requests[d], requests[d])
  BY Zenon DEF Covers
<1>2. Cancels(d, BothWays(page.to, page.nonce), requests[d])
  BY Zenon DEF Cancels, InboundFailure, Cancel, TransferInvariant
<1> QED BY <1>1, <1>2, CancelStep, Zenon

LEMMA RetireStep ==
    ASSUME TransferInvariant, NEW d \in Devices, RetireResync(d) PROVE Advances
<1> DEFINE keys == UNION {BothWays(r.to, r.nonce) : r \in requests[d]}
<1>1. /\ round'[d] = None /\ requests'[d] = {}
      /\ sync'[d] = IF requests[d] = {} THEN sync[d] ELSE Retire(Cleanup(sync[d]), keys)
  BY Zenon DEF RetireResync, TransferInvariant
<1>2. Moves(d, sync'[d], {})
  <2>1. Covers(keys, requests[d], {})
    BY Zenon DEF Covers
  <2>2. Moves(d, Retire(Cleanup(sync[d]), keys), {})
    BY <2>1, CancelMoves, Zenon
  <2> QED BY <1>1, <2>2, RestMoves, Zenon
<1>3. Steps(d)
  BY <1>1, <1>2, Zenon DEF Steps, RetireResync, TransferInvariant, OfRound
<1> QED BY <1>3, StepsSound, Zenon DEF Advances, RetireResync, TransferInvariant

\* A new session is awaited by its request, which no other session waits for.
LEMMA StartStep ==
    ASSUME TransferInvariant, NEW d \in Devices, NEW p \in Devices, StartRequest(d, p)
    PROVE  Advances
<1> DEFINE u == Cleanup(sync[d])
           key == Key(p, round[d].nonce, "Assemble")
           session == [digest |-> 0, total |-> 0, cursor |-> 0, deadline |-> round[d].deadline]
           m == Request(d, p, round[d].nonce, 0, 0)
           t == Open(u, key, session)
<1>1. /\ sync'[d] = t /\ requests'[d] = requests[d] \cup {m}
      /\ round'[d] = [round[d] EXCEPT !.attempted = @ \cup {p}]
  BY Zenon DEF StartRequest, TransferInvariant
<1>2. round[d] # None /\ p \notin round[d].attempted /\ key \notin Slots(u)
  BY Zenon DEF StartRequest, CanReserve
<1>3. /\ Shaped(sync[d]) /\ Awaited(d, sync[d], requests[d]) /\ OfRound(round[d], requests[d])
  BY Zenon DEF TransferInvariant, DeviceSound
<1>4. Within(u, sync[d]) /\ \A x : Keeps(u, x) => Reserves(sync[d], x)
  BY <1>3, CleanupDrops, Zenon
<1>5. /\ PeerOf(key) = p /\ key[2] = round[d].nonce /\ DirectionOf(key) = "Assemble"
      /\ m.to = p /\ m.nonce = round[d].nonce
  BY Zenon DEF Key, PeerOf, DirectionOf, Request
<1>6. /\ DOMAIN t = {"open", "retired", "buffered"} /\ t.retired = u.retired
      /\ DOMAIN t.open = DOMAIN u.open \cup {key} /\ t.open[key] = session
      /\ \A k \in DOMAIN u.open : t.open[k] = u.open[k]
  BY <1>2, Zenon DEF Open, Slots
<1> HIDE DEF u, t, key, m
<1>7. Shaped(t)
  BY <1>4, <1>5, <1>6 DEF Shaped, Within, key
<1>8. Keeps(u, t)
  BY <1>6, Zenon DEF Keeps, Slots
<1>9. ASSUME NEW k \in DOMAIN t.open, DirectionOf(k) = "Assemble"
      PROVE  Continuing(requests[d] \cup {m}, k)
               = {Request(d, PeerOf(k), k[2], t.open[k].cursor, t.open[k].digest)}
  <2>1. CASE k = key
    <3>1. Continuing(requests[d], k) = {}
      BY <1>2, <1>3, <1>5, <2>1, Zenon DEF Continuing, OfRound
    <3> QED BY <1>5, <1>6, <2>1, <3>1 DEF Continuing, m
  <2>2. CASE k # key
    <3>1. k \in DOMAIN sync[d].open /\ t.open[k] = sync[d].open[k]
      BY <1>4, <1>6, <2>2, Zenon DEF Within
    <3>2. k = Key(PeerOf(k), k[2], "Assemble")
      BY <1>3, <1>9, <3>1, Zenon DEF Shaped
    <3>3. ~(m.to = PeerOf(k) /\ m.nonce = k[2])
      BY <1>5, <2>2, <3>2, Zenon DEF key
    <3>4. Continuing(requests[d] \cup {m}, k) = Continuing(requests[d], k)
      BY <3>3, Zenon DEF Continuing
    <3> QED BY <1>3, <1>9, <3>1, <3>4, Zenon DEF Awaited
  <2> QED BY <2>1, <2>2, Zenon
<1>10. Moves(d, sync'[d], requests'[d])
  <2>1. Awaited(d, t, requests[d] \cup {m})
    BY <1>9, Zenon DEF Awaited
  <2>2. Reserves(sync[d], t)
    BY <1>4, <1>8, Zenon
  <2> QED BY <1>1, <1>7, <2>1, <2>2, Zenon DEF Moves
<1>11. OfRound(round'[d], requests'[d])
  <2>1. round[d] \in Rounds
    BY <1>2, <1>3, Zenon DEF OfRound
  <2>2. /\ round'[d] \in Rounds /\ round'[d].nonce = round[d].nonce
        /\ round'[d].attempted = round[d].attempted \cup {p}
    BY <1>1, <2>1, Zenon DEF Rounds
  <2>3. round'[d] # None
    BY <2>2, TransferAssumption, Zenon DEF Rounds
  <2> QED BY <1>1, <1>3, <1>5, <2>2, <2>3, Zenon DEF OfRound
<1>12. Steps(d)
  BY <1>10, <1>11, Zenon DEF Steps, StartRequest, TransferInvariant
<1>13. now' \in Nat /\ nonces' \in Nat /\ restarts' \in Nat
  BY Zenon DEF StartRequest, TransferInvariant
<1> QED BY <1>12, <1>13, StepsSound, Zenon DEF Advances

\* A step after which every device is as it was.
Rests ==
    /\ DOMAIN sync' = Devices /\ DOMAIN round' = Devices /\ DOMAIN requests' = Devices
    /\ \A e \in Devices :
         sync'[e] = sync[e] /\ round'[e] = round[e] /\ requests'[e] = requests[e]
    /\ now' \in Nat /\ nonces' \in Nat /\ restarts' \in Nat

LEMMA RestStep ==
    ASSUME TransferInvariant, Rests PROVE Advances
<1>1. ASSUME NEW e \in Devices
      PROVE  Reserves(sync[e], sync'[e]) /\ DeviceSound(e, sync'[e], round'[e], requests'[e])
  BY RestMoves, Zenon DEF Rests, TransferInvariant, Moves
<1> QED BY <1>1, Zenon DEF Advances, Rests, TransferInvariant

\* A page that continues the assembly: the session and its request advance together.
LEMMA ExtendedMoves ==
    ASSUME TransferInvariant, NEW d \in Devices, NEW m, NEW key, NEW r, NEW more,
           key = Key(m.from, m.nonce, "Assemble"),
           r = Request(d, m.from, m.nonce, m.cursor, m.sought), r \in requests[d],
           more = Request(d, m.from, m.nonce, m.cursor + 1, m.digest),
           Assembles(Cleanup(sync[d]), key, r, m)
    PROVE  LET x == Extended(Cleanup(sync[d]), key, m)
           IN  /\ Moves(d, x, (requests[d] \ {r}) \cup {more})
               /\ Moves(d, Retire(x, {key}), requests[d] \ {r})
<1> DEFINE u == Cleanup(sync[d])
           x == Extended(u, key, m)
           t == Retire(x, {key})
           rs == requests[d]
<1>1. Shaped(sync[d]) /\ Awaited(d, sync[d], rs)
  BY Zenon DEF TransferInvariant, DeviceSound
<1>2. Within(u, sync[d]) /\ \A y : Keeps(u, y) => Reserves(sync[d], y)
  BY <1>1, CleanupDrops, Zenon
<1>3. key \in DOMAIN u.open /\ u.open[key].cursor = m.cursor
  BY Zenon DEF Assembles, Request
<1>4. /\ PeerOf(key) = m.from /\ key[2] = m.nonce /\ DirectionOf(key) = "Assemble"
      /\ r.to = m.from /\ r.nonce = m.nonce /\ more.to = m.from /\ more.nonce = m.nonce
  BY Zenon DEF Key, PeerOf, DirectionOf, Request
<1> HIDE DEF u
<1>5. Shaped(u)
  BY <1>2, Zenon DEF Within
<1>6. /\ DOMAIN x = {"open", "retired", "buffered"} /\ DOMAIN x.open = DOMAIN u.open
      /\ x.retired = u.retired
      /\ \A k \in DOMAIN u.open \ {key} : x.open[k] = u.open[k]
      /\ x.open[key] = [u.open[key] EXCEPT !.digest = m.digest, !.total = m.total, !.cursor = @ + 1]
  BY <1>3, <1>5, Zenon DEF Extended, Shaped
<1>7. /\ DOMAIN x.open[key] = {"digest", "total", "cursor", "deadline"}
      /\ x.open[key].cursor = m.cursor + 1 /\ x.open[key].digest = m.digest
  <2>1. DOMAIN u.open[key] = {"digest", "total", "cursor", "deadline"}
    BY <1>3, <1>5, Zenon DEF Shaped
  <2> HIDE DEF x
  <2> QED BY <1>3, <1>6, <2>1
<1> HIDE DEF x
<1>8. Shaped(x)
  <2>1. ASSUME NEW k \in DOMAIN x.open
        PROVE  /\ k = Key(PeerOf(k), k[2], DirectionOf(k))
               /\ DOMAIN x.open[k] = {"digest", "total", "cursor", "deadline"}
    <3>1. /\ k = Key(PeerOf(k), k[2], DirectionOf(k))
          /\ DOMAIN u.open[k] = {"digest", "total", "cursor", "deadline"}
      BY <1>5, <1>6, <2>1, Zenon DEF Shaped
    <3>2. CASE k = key
      BY <1>7, <3>1, <3>2, Zenon
    <3>3. CASE k # key
      <4>1. x.open[k] = u.open[k]
        BY <1>6, <2>1, <3>3, Zenon
      <4> QED BY <3>1, <4>1, Zenon
    <3> QED BY <3>2, <3>3, Zenon
  <2> QED BY <1>6, <2>1, Zenon DEF Shaped
<1>9. Keeps(u, x)
  BY <1>6, Zenon DEF Keeps, Slots
<1>10. Within(t, x) /\ Keeps(x, t) /\ DOMAIN t.open = DOMAIN x.open \ {key}
  BY <1>8, RetireCloses, Zenon
<1> HIDE DEF t
<1>11. Keeps(u, t)
  BY <1>6, <1>10, Zenon DEF Keeps, Slots
<1>12. ASSUME NEW k \in DOMAIN x.open \ {key}, DirectionOf(k) = "Assemble"
       PROVE  /\ Continuing((rs \ {r}) \cup {more}, k) = Continuing(rs, k)
              /\ Continuing(rs \ {r}, k) = Continuing(rs, k)
  <2>1. k = Key(PeerOf(k), k[2], "Assemble")
    BY <1>8, <1>12, Zenon DEF Shaped
  <2>2. ~(m.from = PeerOf(k) /\ m.nonce = k[2])
    BY <1>12, <2>1, Zenon
  <2> QED BY <1>4, <2>2, Zenon DEF Continuing
<1>13. ASSUME NEW k \in DOMAIN x.open \ {key}, DirectionOf(k) = "Assemble"
       PROVE  Continuing(rs, k) = {Request(d, PeerOf(k), k[2], x.open[k].cursor, x.open[k].digest)}
  <2>1. k \in DOMAIN sync[d].open /\ x.open[k] = sync[d].open[k]
    BY <1>2, <1>6, <1>13, Zenon DEF Within
  <2> QED BY <1>1, <1>13, <2>1, Zenon DEF Awaited
<1>14. Continuing((rs \ {r}) \cup {more}, key) = {more}
  <2>1. Continuing(rs, key) = {r}
    <3>1. key \in DOMAIN sync[d].open
      BY <1>2, <1>3, Zenon DEF Within
    <3>2. Continuing(rs, key) = {Request(d, PeerOf(key), key[2], sync[d].open[key].cursor,
                                         sync[d].open[key].digest)}
      BY <1>1, <1>4, <3>1, Zenon DEF Awaited
    <3>3. r \in Continuing(rs, key)
      BY <1>4, Zenon DEF Continuing
    <3> QED BY <3>2, <3>3, Zenon
  <2> QED BY <1>4, <2>1, Zenon DEF Continuing
<1>15. Awaited(d, x, (rs \ {r}) \cup {more})
  BY <1>4, <1>7, <1>12, <1>13, <1>14, Zenon DEF Awaited
<1>16. Awaited(d, t, rs \ {r})
  <2>1. ASSUME NEW k \in DOMAIN t.open, DirectionOf(k) = "Assemble"
        PROVE  Continuing(rs \ {r}, k)
                 = {Request(d, PeerOf(k), k[2], t.open[k].cursor, t.open[k].digest)}
    <3>1. k \in DOMAIN x.open \ {key} /\ t.open[k] = x.open[k]
      BY <1>10, <2>1, Zenon DEF Within
    <3>2. Continuing(rs \ {r}, k) = Continuing(rs, k)
      BY <1>12, <2>1, <3>1, Zenon
    <3>3. Continuing(rs, k)
            = {Request(d, PeerOf(k), k[2], x.open[k].cursor, x.open[k].digest)}
      BY <1>13, <2>1, <3>1, Zenon
    <3> QED BY <3>1, <3>2, <3>3, Zenon
  <2> QED BY <2>1, Zenon DEF Awaited
<1>17. Moves(d, x, (rs \ {r}) \cup {more})
  BY <1>2, <1>8, <1>9, <1>15, Zenon DEF Moves
<1>18. Moves(d, t, rs \ {r})
  BY <1>2, <1>10, <1>11, <1>16, Zenon DEF Moves, Within
<1> QED BY <1>17, <1>18, Zenon DEF u, x, t

LEMMA AcceptStep ==
    ASSUME TransferInvariant, NEW m, AcceptResponse(m.to, m)
    PROVE  Advances
<1> DEFINE d == m.to
           r == Request(d, m.from, m.nonce, m.cursor, m.sought)
           key == Key(m.from, m.nonce, "Assemble")
           u == Cleanup(sync[d])
           more == Request(d, m.from, m.nonce, m.cursor + 1, m.digest)
           x == Extended(u, key, m)
           valid == r \in requests[d] /\ Assembles(u, key, r, m)
           last == valid /\ m.cursor + 1 = m.total
<1>1. /\ DOMAIN sync' = Devices /\ DOMAIN requests' = Devices /\ round' = round
      /\ now' = now /\ nonces' = nonces /\ restarts' = restarts
      /\ \A e \in Devices \ {d} : sync'[e] = sync[e] /\ requests'[e] = requests[e]
  BY Zenon DEF AcceptResponse, TransferInvariant
<1>2. ASSUME d \in Devices
      PROVE  /\ r \notin requests[d] => sync'[d] = sync[d]
             /\ r \in requests[d] /\ ~valid => sync' = [sync EXCEPT ![d] = Cancel(@, m.from, m.nonce)]
             /\ valid /\ last => sync'[d] = Retire(x, {key})
             /\ valid /\ ~last => sync'[d] = x
             /\ requests'[d] = (requests[d] \ {r}) \cup (IF valid /\ ~last THEN {more} ELSE {})
  <2>1. ASSUME r \notin requests[d] PROVE sync'[d] = sync[d]
    BY <1>2, <2>1, Zenon DEF AcceptResponse, TransferInvariant
  <2>2. ASSUME r \in requests[d], ~valid
        PROVE  sync' = [sync EXCEPT ![d] = Cancel(@, m.from, m.nonce)]
    BY <1>2, <2>2, Zenon DEF AcceptResponse, TransferInvariant
  <2>3. ASSUME valid PROVE sync'[d] = IF last THEN Retire(x, {key}) ELSE x
    BY <1>2, <2>3, Zenon DEF AcceptResponse, TransferInvariant
  <2>4. requests'[d] = (requests[d] \ {r}) \cup (IF valid /\ ~last THEN {more} ELSE {})
    BY <1>2, Zenon DEF AcceptResponse, TransferInvariant
  <2> HIDE DEF r, key, u, more, x, last, valid
  <2> QED BY <2>1, <2>2, <2>3, <2>4, Zenon
<1>3. CASE d \notin Devices
  BY <1>1, <1>3, RestStep, Zenon DEF Rests, TransferInvariant
<1>4. CASE d \in Devices /\ r \notin requests[d]
  <2>1. sync'[d] = sync[d] /\ requests'[d] = requests[d]
    BY <1>2, <1>4, Zenon
  <2> QED BY <1>1, <2>1, RestStep, Zenon DEF Rests, TransferInvariant
<1>5. CASE d \in Devices /\ r \in requests[d] /\ ~valid
  <2>1. Covers(BothWays(m.from, m.nonce), requests[d], requests[d] \ {r})
    BY DEF Covers, Request
  <2>2. Cancels(d, BothWays(m.from, m.nonce), requests[d] \ {r})
    BY <1>1, <1>2, <1>5, Zenon DEF Cancels, Cancel
  <2> QED BY <1>5, <2>1, <2>2, CancelStep, Zenon
<1>6. CASE d \in Devices /\ valid
  <2>1. /\ Moves(d, x, (requests[d] \ {r}) \cup {more})
        /\ Moves(d, Retire(x, {key}), requests[d] \ {r})
    BY <1>6, ExtendedMoves, Zenon
  <2>2. Moves(d, sync'[d], requests'[d])
    <3> HIDE DEF r, key, u, more, x
    <3>1. CASE last
      BY <1>2, <1>6, <2>1, <3>1, Zenon
    <3>2. CASE ~last
      BY <1>2, <1>6, <2>1, <3>2, Zenon
    <3> QED BY <3>1, <3>2, Zenon
  <2>3. OfRound(round'[d], requests'[d])
    <3>1. OfRound(round[d], requests[d])
      BY <1>6, Zenon DEF TransferInvariant, DeviceSound
    <3>2. more.to = r.to /\ more.nonce = r.nonce /\ r \in requests[d]
      BY <1>6, Zenon DEF Request
    <3>3. requests'[d] \subseteq requests[d] \cup {more}
      BY <1>2, <1>6, Zenon
    <3> HIDE DEF r, more
    <3> QED BY <1>1, <3>1, <3>2, <3>3, Zenon DEF OfRound
  <2>4. Steps(d)
    BY <1>1, <2>2, <2>3, Zenon DEF Steps, TransferInvariant
  <2>5. now' \in Nat /\ nonces' \in Nat /\ restarts' \in Nat
    BY <1>1, Zenon DEF TransferInvariant
  <2> QED BY <1>6, <2>4, <2>5, StepsSound, Zenon DEF Advances
<1> QED BY <1>3, <1>4, <1>5, <1>6, Zenon

\* t is s but for the session of key.
Differs(s, t, key) ==
    /\ Shaped(t) /\ Keeps(s, t)
    /\ \A k \in DOMAIN t.open \ {key} : k \in DOMAIN s.open /\ t.open[k] = s.open[k]

\* A publication concerns no assembly.
LEMMA PublicationMoves ==
    ASSUME TransferInvariant, NEW d \in Devices, NEW key, NEW t,
           DirectionOf(key) = "Publish", Differs(Cleanup(sync[d]), t, key)
    PROVE  Moves(d, t, requests[d])
<1> DEFINE u == Cleanup(sync[d])
<1>1. Shaped(sync[d]) /\ Awaited(d, sync[d], requests[d])
  BY Zenon DEF TransferInvariant, DeviceSound
<1>2. Within(u, sync[d]) /\ Reserves(sync[d], t)
  BY <1>1, CleanupDrops, Zenon DEF Differs
<1> HIDE DEF u
<1>3. ASSUME NEW k \in DOMAIN t.open, DirectionOf(k) = "Assemble"
      PROVE  k \in DOMAIN sync[d].open /\ t.open[k] = sync[d].open[k]
  BY <1>2, <1>3, Zenon DEF Within, Differs, u
<1>4. Awaited(d, t, requests[d])
  BY <1>1, <1>3, Zenon DEF Awaited
<1> QED BY <1>2, <1>4, Zenon DEF Moves, Differs

LEMMA KeepsOn ==
    ASSUME NEW s, NEW t, NEW u, Keeps(s, t), Keeps(t, u) PROVE Keeps(s, u)
BY Zenon DEF Keeps, Slots

LEMMA RespondStep ==
    ASSUME TransferInvariant, NEW m, NEW v, RespondAt(m, v)
    PROVE  Advances
<1> DEFINE d == m.to
           key == Key(m.from, m.nonce, "Publish")
           u == Cleanup(sync[d])
           after == Published(u, key, m, v)
           advanced == [after EXCEPT !.open[key].cursor = @ + 1]
           first == [digest |-> v, total |-> Sizes[v], cursor |-> 0,
                     deadline |-> now + SessionTimeout]
<1>1. \/ sync' = sync
      \/ sync' = [sync EXCEPT ![d] = Retire(u, {key})]
      \/ after # None /\ sync' = [sync EXCEPT ![d] = Retire(advanced, {key})]
      \/ after # None /\ sync' = [sync EXCEPT ![d] = advanced]
  <2>1. CASE Cardinality(responses[d]) >= MaxResponses
    BY <2>1, Zenon DEF RespondAt
  <2>2. CASE ~(Cardinality(responses[d]) >= MaxResponses) /\ after = None
    BY <2>2, Zenon DEF RespondAt
  <2>3. CASE ~(Cardinality(responses[d]) >= MaxResponses) /\ after # None
    BY <2>3, Zenon DEF RespondAt
  <2> QED BY <2>1, <2>2, <2>3, Zenon
<1>2. /\ DOMAIN sync' = Devices /\ requests' = requests /\ round' = round
      /\ now' = now /\ nonces' = nonces /\ restarts' = restarts
      /\ \A e \in Devices \ {d} : sync'[e] = sync[e]
  <2>1. UNCHANGED <<now, round, requests, nonces, restarts>>
    BY Zenon DEF RespondAt
  <2> HIDE DEF u, after, advanced, key
  <2> QED BY <1>1, <2>1, Zenon DEF TransferInvariant
<1>3. CASE d \notin Devices
  BY <1>2, <1>3, RestStep, Zenon DEF Rests, TransferInvariant
<1>4. CASE d \in Devices /\ sync'[d] = sync[d]
  BY <1>2, <1>4, RestStep, Zenon DEF Rests, TransferInvariant
<1>5. ASSUME d \in Devices, sync'[d] # sync[d]
      PROVE  Moves(d, sync'[d], requests[d])
  <2>1. DirectionOf(key) = "Publish" /\ key = Key(PeerOf(key), key[2], DirectionOf(key))
    BY Zenon DEF Key, PeerOf, DirectionOf
  <2>2. Within(u, sync[d])
    BY <1>5, CleanupDrops, Zenon DEF TransferInvariant, DeviceSound
  <2>3. Shaped(u)
    BY <2>2, Zenon DEF Within
  <2>4. Within(Retire(u, {key}), u) /\ Keeps(u, Retire(u, {key}))
    BY <2>3, RetireCloses, Zenon
  <2>5. ASSUME after # None
        PROVE  Differs(u, advanced, key)
    <3>1. \/ after = u /\ key \in DOMAIN u.open
          \/ after = Open(u, key, first)
      BY <2>5, Zenon DEF Published
    <3>2. /\ DOMAIN after = {"open", "retired", "buffered"} /\ key \in DOMAIN after.open
          /\ DOMAIN after.open \subseteq DOMAIN u.open \cup {key}
          /\ DOMAIN u.open \subseteq DOMAIN after.open /\ after.retired = u.retired
          /\ DOMAIN after.open[key] = {"digest", "total", "cursor", "deadline"}
          /\ \A k \in DOMAIN after.open \ {key} : after.open[k] = u.open[k]
      <4>1. CASE after = u /\ key \in DOMAIN u.open
        BY <2>3, <4>1, Zenon DEF Shaped
      <4>2. CASE after = Open(u, key, first)
        <5>1. DOMAIN first = {"digest", "total", "cursor", "deadline"}
          BY Zenon
        <5> HIDE DEF after, u, first, key
        <5> QED BY <4>2, <5>1, Zenon DEF Open
      <4> QED BY <3>1, <4>1, <4>2, Zenon
    <3> HIDE DEF after, u
    <3>3. /\ DOMAIN advanced = {"open", "retired", "buffered"}
          /\ DOMAIN advanced.open = DOMAIN after.open /\ advanced.retired = after.retired
          /\ DOMAIN advanced.open[key] = {"digest", "total", "cursor", "deadline"}
          /\ \A k \in DOMAIN after.open \ {key} : advanced.open[k] = after.open[k]
      BY <3>2, Zenon
    <3> HIDE DEF advanced
    <3>4. ASSUME NEW k \in DOMAIN advanced.open
          PROVE  /\ k = Key(PeerOf(k), k[2], DirectionOf(k))
                 /\ DOMAIN advanced.open[k] = {"digest", "total", "cursor", "deadline"}
      <4>1. CASE k = key
        BY <2>1, <3>3, <4>1, Zenon
      <4>2. CASE k # key
        <5>1. k \in DOMAIN u.open /\ advanced.open[k] = u.open[k]
          BY <3>2, <3>3, <3>4, <4>2
        <5> QED BY <2>3, <5>1, Zenon DEF Shaped
      <4> QED BY <4>1, <4>2, Zenon
    <3> QED BY <3>2, <3>3, <3>4, Zenon DEF Shaped, Keeps, Slots, Differs
  <2> HIDE DEF u, after, advanced, key
  <2>6. ASSUME after # None
        PROVE  /\ Within(Retire(advanced, {key}), advanced)
               /\ Keeps(advanced, Retire(advanced, {key}))
    BY <2>5, <2>6, RetireCloses, Zenon DEF Differs
  <2>7. CASE sync'[d] = Retire(u, {key})
    <3>1. Differs(u, Retire(u, {key}), key)
      BY <2>4, Zenon DEF Within, Differs
    <3> QED BY <1>5, <2>1, <2>7, <3>1, PublicationMoves, Zenon DEF u
  <2>8. CASE after # None /\ sync'[d] = advanced
    BY <1>5, <2>1, <2>5, <2>8, PublicationMoves, Zenon DEF u
  <2>9. CASE after # None /\ sync'[d] = Retire(advanced, {key})
    <3>1. Differs(u, Retire(advanced, {key}), key)
      <4>1. Keeps(u, Retire(advanced, {key}))
        BY <2>5, <2>6, <2>9, KeepsOn, Zenon DEF Differs
      <4> QED BY <2>5, <2>6, <2>9, <4>1, Zenon DEF Differs, Within
    <3> QED BY <1>5, <2>1, <2>9, <3>1, PublicationMoves, Zenon DEF u
  <2> QED BY <1>1, <1>5, <2>7, <2>8, <2>9, Zenon DEF TransferInvariant
<1>6. CASE d \in Devices /\ sync'[d] # sync[d]
  <2>1. Moves(d, sync'[d], requests'[d])
    BY <1>2, <1>5, <1>6, Zenon
  <2>2. OfRound(round'[d], requests'[d])
    BY <1>2, <1>6, Zenon DEF TransferInvariant, DeviceSound
  <2>3. Steps(d)
    BY <1>2, <2>1, <2>2, Zenon DEF Steps, TransferInvariant
  <2>4. now' \in Nat /\ nonces' \in Nat /\ restarts' \in Nat
    BY <1>2, Zenon DEF TransferInvariant
  <2> QED BY <1>6, <2>3, <2>4, StepsSound, Zenon DEF Advances
<1> QED BY <1>3, <1>4, <1>6, Zenon

LEMMA RestartStep ==
    ASSUME TransferInvariant, NEW d \in Devices, Restart(d)
    PROVE  TransferInvariant' /\ restarts' # restarts
<1>1. DeviceSound(d, NoSessions, None, {})
  BY DEF DeviceSound, Shaped, Awaited, OfRound, NoSessions
<1>2. /\ DOMAIN sync' = Devices /\ DOMAIN round' = Devices /\ DOMAIN requests' = Devices
      /\ sync'[d] = NoSessions /\ round'[d] = None /\ requests'[d] = {}
      /\ \A e \in Devices \ {d} :
           sync'[e] = sync[e] /\ round'[e] = round[e] /\ requests'[e] = requests[e]
      /\ now' \in Nat /\ nonces' \in Nat /\ restarts' \in Nat /\ restarts' # restarts
  BY DEF Restart, TransferInvariant
<1>3. ASSUME NEW e \in Devices PROVE DeviceSound(e, sync'[e], round'[e], requests'[e])
  BY <1>1, <1>2, Zenon DEF TransferInvariant
<1> QED BY <1>2, <1>3, Zenon DEF TransferInvariant

LEMMA TransferInitially == TransferInit => TransferInvariant
<1> SUFFICES ASSUME TransferInit PROVE TransferInvariant
  BY Zenon
<1>1. ASSUME NEW d \in Devices PROVE DeviceSound(d, sync[d], round[d], requests[d])
  BY DEF TransferInit, DeviceSound, Shaped, Awaited, OfRound, NoSessions
<1> QED BY <1>1, Zenon DEF TransferInit, TransferInvariant

LEMMA TransferStep ==
    ASSUME TransferInvariant, [TransferNext]_transferVars
    PROVE  /\ TransferInvariant'
           /\ restarts' = restarts => \A e \in Devices : Reserves(sync[e], sync'[e])
<1>1. ASSUME NEW d \in Devices, Restart(d)
      PROVE  TransferInvariant' /\ restarts' # restarts
  BY <1>1, RestartStep, Zenon
<1>2. ASSUME NEW d \in Devices, NEW page \in responses[d], ResponseSent(d, page) PROVE Advances
  BY <1>2, RestStep, Zenon DEF Rests, ResponseSent, TransferInvariant
<1>3. ASSUME Tick PROVE Advances
  BY <1>3, RestStep DEF Rests, Tick, TransferInvariant
<1>4. ASSUME UNCHANGED transferVars PROVE Advances
  BY <1>4, RestStep, Zenon DEF Rests, transferVars, TransferInvariant
<1>5. Advances \/ (TransferInvariant' /\ restarts' # restarts)
  BY <1>1, <1>2, <1>3, <1>4, BeginStep, IdleStep, RetireStep, StartStep, OutboundStep,
     InboundStep, RespondStep, AcceptStep, Zenon DEF TransferNext
<1> QED BY <1>5, Zenon DEF Advances

-----------------------------------------------------------------------------
(* The theorems.                                                           *)

\* The invariant above holds in every state the transfer reaches.
THEOREM TransferInvariantHolds == TransferSpec => []TransferInvariant
<1>1. TransferInvariant /\ [TransferNext]_transferVars => TransferInvariant'
  BY TransferStep, Zenon
<1> QED BY <1>1, TransferInitially, PTL DEF TransferSpec

\* An open assembly always waits for exactly one request, the one for the page its
\* session expects next, whatever was answered, refused, cancelled or expired before.
THEOREM AssembliesAwaited == TransferSpec => []AssembliesAreAwaited
<1>1. TransferInvariant => AssembliesAreAwaited
  BY Zenon DEF TransferInvariant, DeviceSound, Awaited, Continuing, AssembliesAreAwaited
<1> QED BY <1>1, TransferInvariantHolds, PTL

\* No step but a restart frees the nonce of a session before its deadline.
THEOREM NoncesReserved == TransferSpec => NoncesStayReserved
<1>1. ASSUME TransferInvariant, [TransferNext]_transferVars
      PROVE  [\A d \in Devices :
                restarts' = restarts =>
                  /\ \A k \in DOMAIN sync[d].open : now < sync[d].open[k].deadline =>
                        k \in Slots(sync'[d])
                  /\ \A k \in DOMAIN sync[d].retired : now < sync[d].retired[k] =>
                        k \in DOMAIN sync'[d].retired]_transferVars
  BY <1>1, TransferStep, Zenon DEF Reserves
<1> QED BY <1>1, TransferInvariantHolds, PTL DEF TransferSpec, NoncesStayReserved
=============================================================================
