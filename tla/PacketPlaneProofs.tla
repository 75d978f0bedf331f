-------------------------- MODULE PacketPlaneProofs -------------------------
(***************************************************************************)
(* The replay window for every width of its bitmap, and on top of it: no   *)
(* datagram is accepted twice, for every width of the window, session      *)
(* lifetime, number of Hellos, of datagrams and of failures.               *)
(***************************************************************************)
EXTENDS PacketPlane, TLAPS

(* ============================= ReplayWindow ============================ *)

Windows == [highest : Nat \cup {Unset}, seen : SUBSET Nat]

\* The bits of the shifted bitmap, in both branches of accept.
LEMMA ShiftedBits ==
    ASSUME NEW seen \in SUBSET Nat, NEW n \in Nat
    PROVE  /\ Shifted(seen, n) \in SUBSET Nat
           /\ \A o \in Nat : o \in Shifted(seen, n) <=> (o < WindowBits /\ o >= n /\ o - n \in seen)
<1>1. CASE n >= WindowBits
  BY <1>1, WindowAssumption DEF Shifted
<1>2. CASE ~(n >= WindowBits)
  <2>1. Shifted(seen, n) = {o + n : o \in seen} \cap (0..(WindowBits - 1))
    BY <1>2 DEF Shifted
  <2>2. ASSUME NEW o \in Nat, o \in Shifted(seen, n)
        PROVE  o < WindowBits /\ o >= n /\ o - n \in seen
    <3>1. PICK p \in seen : o = p + n
      BY <2>1, <2>2
    <3>2. p \in Nat /\ o - n = p
      BY <3>1
    <3> QED BY <2>1, <2>2, <3>1, <3>2, WindowAssumption
  <2>3. ASSUME NEW o \in Nat, o < WindowBits, o >= n, o - n \in seen
        PROVE  o \in Shifted(seen, n)
    <3>1. o = (o - n) + n
      OBVIOUS
    <3>2. o \in {q + n : q \in seen}
      BY <2>3, <3>1
    <3> QED BY <2>1, <2>3, <3>2, WindowAssumption
  <2>4. Shifted(seen, n) \in SUBSET Nat
    BY <2>1, WindowAssumption
  <2> QED BY <2>2, <2>3, <2>4
<1> QED BY <1>1, <1>2

\* PacketPlaneReplayWindow::new has heard nothing.
LEMMA NewWindowTracks == NewWindow \in Windows /\ Tracks(NewWindow, {})
BY DEF NewWindow, Windows, Tracks, Unset

\* What PacketPlaneReplayWindow::accept lets through was not heard before, and the
\* window then stands for one sequence more, whatever the distance it moved.
THEOREM AcceptedOnce ==
    ASSUME NEW w \in Windows, NEW heard \in SUBSET Nat, NEW s \in Nat,
           Tracks(w, heard), Accepts(w, s)
    PROVE  /\ s \notin heard
           /\ Accept(w, s) \in Windows
           /\ Tracks(Accept(w, s), heard \cup {s})
<1> USE DEF Windows, Unset
<1>1. CASE w.highest = Unset
  <2>1. heard = {} /\ Accept(w, s) = [highest |-> s, seen |-> {0}]
    BY <1>1 DEF Tracks, Accept
  <2> QED BY <2>1, WindowAssumption DEF Tracks
<1>2. CASE w.highest # Unset /\ s > w.highest
  <2>0. w.highest \in Nat /\ s - w.highest \in Nat /\ s - w.highest > 0 /\ w.seen \in SUBSET Nat
    BY <1>2
  <2> DEFINE moved == Shifted(w.seen, s - w.highest)
  <2>1. Accept(w, s) = [highest |-> s, seen |-> moved \cup {0}]
    BY <1>2 DEF Accept
  <2>2. /\ moved \in SUBSET Nat
        /\ \A o \in Nat : o \in moved <=>
               (o < WindowBits /\ o >= s - w.highest /\ o - (s - w.highest) \in w.seen)
    BY <2>0, ShiftedBits
  <2> HIDE DEF moved
  <2>3. s \notin heard
    BY <1>2, <2>0 DEF Tracks
  <2>4. Accept(w, s) \in Windows
    BY <2>1, <2>2
  <2>5. ASSUME NEW t \in heard \cup {s}
        PROVE  t <= s /\ (s - t < WindowBits => s - t \in moved \cup {0})
    <3>1. CASE t = s
      BY <3>1
    <3>2. CASE t \in heard
      <4>1. t \in Nat /\ t <= w.highest /\ (w.highest - t < WindowBits => w.highest - t \in w.seen)
        BY <3>2 DEF Tracks
      <4>2. (s - t) - (s - w.highest) = w.highest - t /\ s - t \in Nat /\ s - t >= s - w.highest
        BY <2>0, <4>1, <1>2
      <4>3. t <= s
        BY <1>2, <2>0, <4>1
      <4>4. ASSUME s - t < WindowBits PROVE s - t \in moved
        <5>1. w.highest - t < WindowBits
          BY <1>2, <2>0, <4>1, <4>4, WindowAssumption
        <5>2. (s - t) - (s - w.highest) \in w.seen
          BY <4>1, <4>2, <5>1
        <5> QED BY <2>2, <4>2, <4>4, <5>2
      <4> QED BY <4>3, <4>4
    <3> QED BY <3>1, <3>2
  <2>6. ASSUME NEW o \in moved \cup {0}
        PROVE  s - o \in heard \cup {s}
    <3>1. CASE o = 0
      BY <3>1
    <3>2. CASE o \in moved
      <4>1. o \in Nat /\ o - (s - w.highest) \in w.seen
        BY <2>2, <3>2
      <4>2. w.highest - (o - (s - w.highest)) = s - o
        BY <2>0, <4>1
      <4> QED BY <4>1, <4>2 DEF Tracks
    <3> QED BY <3>1, <3>2
  <2>7. Tracks(Accept(w, s), heard \cup {s})
    BY <2>1, <2>5, <2>6 DEF Tracks
  <2> QED BY <2>3, <2>4, <2>7
<1>3. CASE w.highest # Unset /\ ~(s > w.highest)
  <2>1. w.highest \in Nat /\ w.highest - s \in Nat /\ w.highest - s \notin w.seen
        /\ w.highest - s < WindowBits
    BY <1>3 DEF Accepts
  <2>2. Accept(w, s) = [highest |-> w.highest, seen |-> w.seen \cup {w.highest - s}]
    BY <1>3, Zenon DEF Accept
  <2>3. s \notin heard
    BY <2>1 DEF Tracks
  <2>4. w.highest - (w.highest - s) = s
    BY <2>1
  <2> QED BY <1>3, <2>1, <2>2, <2>3, <2>4 DEF Tracks
<1> QED BY <1>1, <1>2, <1>3

\* What accept turns away was heard before (ReplayedDatagram) or is WindowBits or
\* more behind a sequence that was (DatagramOutsideReplayWindow).
THEOREM RefusedForCause ==
    ASSUME NEW w \in Windows, NEW heard \in SUBSET Nat, NEW s \in Nat,
           Tracks(w, heard), ~Accepts(w, s)
    PROVE  s \in heard \/ \E h \in heard : h - s >= WindowBits
<1> USE DEF Windows, Unset
<1>1. w.highest \in Nat /\ w.highest \in heard /\ s <= w.highest
  BY DEF Tracks, Accepts
<1>2. CASE w.highest - s >= WindowBits
  BY <1>1, <1>2
<1>3. CASE ~(w.highest - s >= WindowBits)
  <2>1. w.highest - s \in w.seen
    BY <1>1, <1>3, WindowAssumption DEF Accepts
  <2>2. w.highest - (w.highest - s) = s
    BY <1>1
  <2> QED BY <2>1, <2>2 DEF Tracks
<1> QED BY <1>2, <1>3

(* ============================= PacketPlane ============================= *)

Keys == [hello : Nat, accept : Nat]
Sessions == [key : Keys, endpoint : Nat, age : Nat, window : Windows, tx : BOOLEAN]

\* The sequences an end accepted under a key.
Heard(d, k) == {n \in Nat : <<k, n>> \in got[d]}

\* A key the end has used is not the one that a Hello still to be handled there, or
\* the reply it still waits for, will install.
Spent(d, k) ==
    /\ k.hello \in Nat /\ 0 < k.hello /\ k.hello <= hello
    /\ d = Responder => \A h \in hellos : h.id # k.hello
    /\ d = Initiator => pending # k.hello

Sound(d, s) == s # Nobody => s \in Sessions /\ Spent(d, s.key) /\ Tracks(s.window, Heard(d, s.key))

ControlTyped ==
    /\ hello \in Nat /\ pending \in Nat /\ pending <= hello
    /\ \A h \in hellos : h.id \in Nat /\ 0 < h.id /\ h.id <= hello /\ h.endpoint \in Nat
    /\ \A h \in hellos, g \in hellos : h.id = g.id => h = g
    /\ \A r \in replies : r.id \in Nat /\ 0 < r.id /\ r.endpoint \in Nat
    /\ endpoint \in [Ends -> Nat] /\ known \in [Ends -> Nat]

WireTyped == frame \in [Ends -> Nat] /\ \A m \in wire : m.sequence \in Nat

SessionsSound ==
    /\ session = [d \in Ends |-> session[d]] /\ previous = [d \in Ends |-> previous[d]]
    /\ got \in [Ends -> SUBSET (Keys \X Nat)]
    /\ \A d \in Ends :
         /\ Sound(d, session[d]) /\ Sound(d, previous[d])
         /\ \A g \in got[d] : Spent(d, g[1])
         /\ session[d] # Nobody /\ previous[d] # Nobody => session[d].key # previous[d].key

\* The inductive invariant: the windows stand for what was accepted, each end holds a
\* key in one session only, and a key it has used is never installed again.
PlaneInvariant ==
    /\ ControlTyped /\ WireTyped /\ SessionsSound
    /\ replayed = FALSE

\* Where only sessions end or age, and used keys stay used, the sessions stay sound.
LEMMA SessionsKept ==
    ASSUME SessionsSound, got' = got,
           session' = [d \in Ends |-> session'[d]], previous' = [d \in Ends |-> previous'[d]],
           \A d \in Ends : \A k \in Keys : Spent(d, k) => Spent(d, k)',
           \A d \in Ends : session'[d] # Nobody =>
               /\ session[d] # Nobody /\ session'[d] \in Sessions
               /\ session'[d].key = session[d].key /\ session'[d].window = session[d].window,
           \A d \in Ends : previous'[d] # Nobody =>
               /\ previous[d] # Nobody /\ previous'[d] \in Sessions
               /\ previous'[d].key = previous[d].key /\ previous'[d].window = previous[d].window
    PROVE  SessionsSound'
<1>1. ASSUME NEW d \in Ends PROVE Sound(d, session[d])'
  <2>1. SUFFICES ASSUME session'[d] # Nobody
                 PROVE  /\ session'[d] \in Sessions /\ Spent(d, session[d].key)'
                        /\ Tracks(session[d].window, Heard(d, session[d].key))'
    BY DEF Sound
  <2>2. Sound(d, session[d]) /\ session[d] # Nobody /\ session[d] \in Sessions
    BY <2>1 DEF SessionsSound, Sound
  <2>3. session[d].key \in Keys /\ Spent(d, session[d].key) /\ Tracks(session[d].window, Heard(d, session[d].key))
    BY <2>2 DEF Sound, Sessions
  <2>4. session'[d].key = session[d].key /\ session'[d].window = session[d].window
    BY <2>1
  <2>5. Spent(d, session[d].key)'
    BY <2>3, <2>4 DEF Spent
  <2>6. Tracks(session[d].window, Heard(d, session[d].key))'
    BY <2>3, <2>4, Zenon DEF Tracks, Heard
  <2> QED BY <2>1, <2>5, <2>6
<1>2. ASSUME NEW d \in Ends PROVE Sound(d, previous[d])'
  <2>1. SUFFICES ASSUME previous'[d] # Nobody
                 PROVE  /\ previous'[d] \in Sessions /\ Spent(d, previous[d].key)'
                        /\ Tracks(previous[d].window, Heard(d, previous[d].key))'
    BY DEF Sound
  <2>2. Sound(d, previous[d]) /\ previous[d] # Nobody /\ previous[d] \in Sessions
    BY <2>1 DEF SessionsSound, Sound
  <2>3. previous[d].key \in Keys /\ Spent(d, previous[d].key) /\ Tracks(previous[d].window, Heard(d, previous[d].key))
    BY <2>2 DEF Sound, Sessions
  <2>4. previous'[d].key = previous[d].key /\ previous'[d].window = previous[d].window
    BY <2>1
  <2>5. Spent(d, previous[d].key)'
    BY <2>3, <2>4 DEF Spent
  <2>6. Tracks(previous[d].window, Heard(d, previous[d].key))'
    BY <2>3, <2>4, Zenon DEF Tracks, Heard
  <2> QED BY <2>1, <2>5, <2>6
<1>3. ASSUME NEW d \in Ends, NEW g \in got'[d] PROVE Spent(d, g[1])'
  <2>1. g \in got[d] /\ g[1] \in Keys /\ Spent(d, g[1])
    BY DEF SessionsSound
  <2> QED BY <2>1
<1>4. ASSUME NEW d \in Ends, session'[d] # Nobody, previous'[d] # Nobody
      PROVE  session'[d].key # previous'[d].key
  BY <1>4 DEF SessionsSound
<1>5. got' \in [Ends -> SUBSET (Keys \X Nat)]
  BY DEF SessionsSound
<1> QED BY <1>1, <1>2, <1>3, <1>4, <1>5 DEF SessionsSound

\* maybe_send_packet_plane_hello numbers a Hello past every key in use.
LEMMA NegotiateKeeps ==
    ASSUME ControlTyped, NEW d \in Ends, NEW p \in Nat, p = pending \/ p = 0,
           Negotiate(d, p), replies' = replies,
           endpoint' = endpoint, known' \in [Ends -> Nat]
    PROVE  /\ ControlTyped'
           /\ \A e \in Ends : \A k \in Keys : Spent(e, k) => Spent(e, k)'
<1>1. CASE d = Initiator /\ p = 0 /\ NeedsHello'
  <2>1. /\ hello' = hello + 1 /\ pending' = hello + 1
        /\ hellos' = hellos \cup {[id |-> hello + 1, endpoint |-> endpoint[d]]}
    BY <1>1 DEF Negotiate
  <2>2. ControlTyped'
    BY <2>1 DEF ControlTyped
  <2> QED BY <2>1, <2>2 DEF ControlTyped, Spent
<1>2. CASE ~(d = Initiator /\ p = 0 /\ NeedsHello')
  <2>1. pending' = p /\ hello' = hello /\ hellos' = hellos
    BY <1>2 DEF Negotiate
  <2>2. ControlTyped'
    BY <2>1 DEF ControlTyped
  <2> QED BY <2>1, <2>2 DEF ControlTyped, Spent
<1> QED BY <1>1, <1>2

\* install_session retires a session it held, with its keys and its window.
LEMMA RetiredHeld ==
    ASSUME SessionsSound, NEW e \in Ends, NEW remote, Retired(e, remote) # Nobody
    PROVE  /\ Retired(e, remote) \in Sessions
           /\ \E s \in {session[e], previous[e]} :
                 /\ s # Nobody /\ Sound(e, s)
                 /\ Retired(e, remote).key = s.key /\ Retired(e, remote).window = s.window
<1>1. CASE Retired(e, remote) = previous[e]
  BY <1>1 DEF SessionsSound, Sound
<1>2. CASE session[e] # Nobody /\ Retired(e, remote) = [session[e] EXCEPT !.tx = (e = Responder)]
  <2>1. session[e] \in Sessions /\ Sound(e, session[e])
    BY <1>2 DEF SessionsSound, Sound
  <2>2. (e = Responder) \in BOOLEAN
    OBVIOUS
  <2>3. Retired(e, remote) \in Sessions
    BY <1>2, <2>1, <2>2, Zenon DEF Sessions
  <2>4. Retired(e, remote).key = session[e].key /\ Retired(e, remote).window = session[e].window
    BY <1>2, <2>1 DEF Sessions
  <2> QED BY <1>2, <2>1, <2>3, <2>4
<1> QED BY <1>1, <1>2 DEF Retired

\* A key that was never used may be installed.
LEMMA InstallKeeps ==
    ASSUME SessionsSound, NEW e \in Ends, NEW key \in Keys, NEW remote \in Nat,
           Install(e, key, remote), got' = got,
           \A d \in Ends : \A k \in Keys : Spent(d, k) => Spent(d, k)',
           Spent(e, key)', \A k \in Keys : Spent(e, k) => k.hello # key.hello
    PROVE  SessionsSound'
<1>1. /\ session' = [session EXCEPT ![e] = NewSession(key, remote)]
      /\ previous' = [previous EXCEPT ![e] = Retired(e, remote)]
  BY DEF Install
<1>2. session' = [d \in Ends |-> session'[d]] /\ previous' = [d \in Ends |-> previous'[d]]
  BY <1>1, Zenon DEF SessionsSound
<1>3. ASSUME NEW d \in Ends, d # e
      PROVE  session'[d] = session[d] /\ previous'[d] = previous[d]
  BY <1>1, <1>3, Zenon DEF SessionsSound
<1>4. session'[e] = NewSession(key, remote) /\ previous'[e] = Retired(e, remote)
  BY <1>1 DEF SessionsSound
<1>5. ASSUME NEW d \in Ends, NEW s, s \in {session[d], previous[d]}, s # Nobody
      PROVE  /\ s \in Sessions /\ s.key \in Keys /\ Spent(d, s.key)
             /\ Spent(d, s.key)' /\ Tracks(s.window, Heard(d, s.key))
  <2>1. Sound(d, s)
    BY <1>5 DEF SessionsSound
  <2>2. s \in Sessions /\ s.key \in Keys /\ Spent(d, s.key) /\ Tracks(s.window, Heard(d, s.key))
    BY <1>5, <2>1 DEF Sound, Sessions
  <2> QED BY <2>2
<1>6. ASSUME NEW d \in Ends, d # e PROVE Sound(d, session[d])' /\ Sound(d, previous[d])'
  BY <1>3, <1>5, <1>6 DEF Sound, Spent, Tracks, Heard
<1>7. Sound(e, session[e])'
  <2>1. Heard(e, key) = {}
    BY DEF Heard, SessionsSound
  <2>2. /\ NewSession(key, remote) \in Sessions
        /\ NewSession(key, remote).key = key /\ NewSession(key, remote).window = NewWindow
    BY NewWindowTracks DEF NewSession, Sessions
  <2>3. Tracks(NewWindow, Heard(e, key))
    BY <2>1, NewWindowTracks
  <2> QED BY <1>4, <2>2, <2>3 DEF Sound, Spent, Tracks, Heard
<1>8. ASSUME previous'[e] # Nobody
      PROVE  /\ previous'[e] \in Sessions /\ Spent(e, previous'[e].key)
             /\ previous'[e].key \in Keys
             /\ Tracks(previous'[e].window, Heard(e, previous'[e].key))
  <2>1. PICK s \in {session[e], previous[e]} :
            /\ s # Nobody /\ Sound(e, s)
            /\ Retired(e, remote).key = s.key /\ Retired(e, remote).window = s.window
    BY <1>4, <1>8, RetiredHeld
  <2>2. Retired(e, remote) \in Sessions
    BY <1>4, <1>8, RetiredHeld
  <2>3. /\ s.key \in Keys /\ Spent(e, s.key) /\ Tracks(s.window, Heard(e, s.key))
    BY <1>5, <2>1
  <2> QED BY <1>4, <2>1, <2>2, <2>3
<1>9. Sound(e, previous[e])'
  BY <1>8, Zenon DEF Sound, Spent, Tracks, Heard
<1>10. previous'[e] # Nobody => session'[e].key # previous'[e].key
  BY <1>4, <1>8 DEF NewSession
<1>11. ASSUME NEW d \in Ends, NEW g \in got'[d] PROVE Spent(d, g[1])'
  <2>1. g \in got[d] /\ g[1] \in Keys /\ Spent(d, g[1])
    BY DEF SessionsSound
  <2> QED BY <2>1
<1>12. \A d \in Ends : d # e /\ session'[d] # Nobody /\ previous'[d] # Nobody
                          => session'[d].key # previous'[d].key
  BY <1>3 DEF SessionsSound
<1>13. got' \in [Ends -> SUBSET (Keys \X Nat)]
  BY DEF SessionsSound
<1> QED BY <1>2, <1>6, <1>7, <1>9, <1>10, <1>11, <1>12, <1>13 DEF SessionsSound

\* open_session_datagram: the session whose keys open the datagram had not heard its
\* sequence, and hears it now.
LEMMA ReceiveKeeps ==
    ASSUME PlaneInvariant, NEW d \in Ends, NEW m \in wire, NEW refused \in BOOLEAN,
           Receive(d, m, refused)
    PROVE  SessionsSound' /\ replayed' = FALSE
<1> DEFINE n == m.sequence
           current == m.key = session[d].key
           held == IF current THEN session[d] ELSE previous[d]
<1>1. /\ session[d] # Nobody /\ m.key \in Opens(d) /\ Accepts(held.window, n)
      /\ got' = [got EXCEPT ![d] = @ \cup {<<m.key, n>>}]
      /\ replayed' = (replayed \/ <<m.key, n>> \in got[d])
  BY DEF Receive
<1>2. held # Nobody /\ held.key = m.key
  BY <1>1 DEF Opens, Overlaps
<1>3. Sound(d, session[d]) /\ Sound(d, previous[d]) /\ Sound(d, held) /\ n \in Nat
  BY DEF PlaneInvariant, SessionsSound, WireTyped
<1>4. /\ held \in Sessions /\ held.window \in Windows /\ m.key \in Keys
      /\ Spent(d, m.key) /\ Tracks(held.window, Heard(d, m.key))
  BY <1>2, <1>3 DEF Sound, Sessions
<1> DEFINE w == Accept(held.window, n)
<1>5. n \notin Heard(d, m.key) /\ w \in Windows /\ Tracks(w, Heard(d, m.key) \cup {n})
  <2>1. Heard(d, m.key) \in SUBSET Nat
    BY DEF Heard
  <2> HIDE DEF held
  <2> QED BY <1>1, <1>3, <1>4, <2>1, AcceptedOnce
<1>6. replayed' = FALSE
  <2>1. <<m.key, n>> \notin got[d]
    BY <1>3, <1>5 DEF Heard
  <2> QED BY <1>1, <2>1, Zenon DEF PlaneInvariant
<1>7. got \in [Ends -> SUBSET (Keys \X Nat)]
  BY DEF PlaneInvariant, SessionsSound
<1>8. got' \in [Ends -> SUBSET (Keys \X Nat)]
  BY <1>1, <1>3, <1>4, <1>7
<1>9. Heard(d, m.key)' = Heard(d, m.key) \cup {n}
  <2>1. m' = m
    OBVIOUS
  <2> QED BY <1>1, <1>3, <1>7 DEF Heard
<1>10. ASSUME NEW e \in Ends, NEW k \in Keys, e # d \/ k # m.key
       PROVE  {x \in Nat : <<k, x>> \in got'[e]} = Heard(e, k)
  BY <1>1, <1>7, <1>10 DEF Heard
<1>0. hello' = hello /\ hellos' = hellos /\ pending' = pending
  BY DEF Receive, controlVars
<1>11. \A e \in Ends, k \in Keys : Spent(e, k) => Spent(e, k)'
  BY <1>0 DEF Spent
<1>12. \A e \in Ends : \A g \in got'[e] : Spent(e, g[1])'
  <2>1. SUFFICES ASSUME NEW e \in Ends, NEW g \in got'[e] PROVE Spent(e, g[1])'
    OBVIOUS
  <2>2. g[1] \in Keys
    BY <1>8
  <2>3. g \in got[e] \/ (e = d /\ g[1] = m.key)
    BY <1>1, <1>7
  <2>4. Spent(e, g[1])
    BY <1>4, <2>3 DEF PlaneInvariant, SessionsSound
  <2> QED BY <1>11, <2>2, <2>4
<1>13. ASSUME NEW e \in Ends, NEW s, s # Nobody, Sound(e, s), e # d \/ s.key # m.key
       PROVE  /\ s \in Sessions /\ Spent(e, s.key)
              /\ Tracks(s.window, {x \in Nat : <<s.key, x>> \in got'[e]})
  <2>1. s \in Sessions /\ s.key \in Keys /\ Spent(e, s.key) /\ Tracks(s.window, Heard(e, s.key))
    BY <1>13 DEF Sound, Sessions
  <2> QED BY <1>10, <1>11, <1>13, <2>1, Zenon
<1>14. ASSUME NEW s \in Sessions, s.key = m.key, s.window = w
       PROVE  /\ Spent(d, s.key)
              /\ Tracks(s.window, {x \in Nat : <<s.key, x>> \in got'[d]})
  BY <1>4, <1>5, <1>9, <1>11, <1>14, Zenon DEF Heard
<1>15. /\ session = [e \in Ends |-> session[e]] /\ previous = [e \in Ends |-> previous[e]]
       /\ \A e \in Ends : Sound(e, session[e]) /\ Sound(e, previous[e])
       /\ \A e \in Ends : session[e] # Nobody /\ previous[e] # Nobody
                             => session[e].key # previous[e].key
  BY DEF PlaneInvariant, SessionsSound
<1> HIDE DEF w
<1>16. CASE current
  <2>1. /\ session' = [session EXCEPT ![d].window = w]
        /\ previous' = IF previous[d] = Nobody THEN previous ELSE [previous EXCEPT ![d].tx = FALSE]
    BY <1>16 DEF Receive, w
  <2>2. /\ session' = [e \in Ends |-> session'[e]] /\ previous' = [e \in Ends |-> previous'[e]]
        /\ \A e \in Ends : e # d => session'[e] = session[e] /\ previous'[e] = previous[e]
    BY <1>15, <2>1, Zenon
  <2>3. session[d] \in Sessions /\ session[d].key = m.key
    BY <1>4, <1>16
  <2>4. /\ session'[d] = [session[d] EXCEPT !.window = w]
        /\ session'[d] \in Sessions /\ session'[d].key = m.key /\ session'[d].window = w
    BY <1>5, <1>15, <2>1, <2>3 DEF Sessions
  <2>5. previous[d] = Nobody => previous'[d] = Nobody
    BY <2>1
  <2>6. ASSUME previous[d] # Nobody
        PROVE  /\ previous'[d] \in Sessions /\ previous'[d].key = previous[d].key
               /\ previous'[d].window = previous[d].window /\ previous[d].key # m.key
    <3>1. previous[d] \in Sessions
      BY <1>3, <2>6 DEF Sound
    <3> QED BY <1>1, <1>15, <2>1, <2>3, <2>6, <3>1, Zenon DEF Sessions
  <2>7. \A e \in Ends : Sound(e, session[e])'
    <3>1. ASSUME NEW e \in Ends, e # d PROVE Sound(e, session[e])'
      <4>1. session'[e] = session[e] /\ Sound(e, session[e])
        BY <1>15, <2>2, <3>1
      <4>2. session[e] # Nobody =>
              /\ session[e] \in Sessions /\ Spent(e, session[e].key)
              /\ Tracks(session[e].window, {x \in Nat : <<session[e].key, x>> \in got'[e]})
        BY <1>13, <3>1, <4>1, Zenon
      <4> QED BY <1>0, <4>1, <4>2 DEF Sound, Heard, Spent, Tracks
    <3>2. Sound(d, session[d])'
      BY <1>0, <1>14, <2>4, Zenon DEF Sound, Heard, Spent, Tracks
    <3> QED BY <3>1, <3>2
  <2>8. \A e \in Ends : Sound(e, previous[e])'
    <3>1. ASSUME NEW e \in Ends, e # d PROVE Sound(e, previous[e])'
      <4>1. previous'[e] = previous[e] /\ Sound(e, previous[e])
        BY <1>15, <2>2, <3>1
      <4>2. previous[e] # Nobody =>
              /\ previous[e] \in Sessions /\ Spent(e, previous[e].key)
              /\ Tracks(previous[e].window, {x \in Nat : <<previous[e].key, x>> \in got'[e]})
        BY <1>13, <3>1, <4>1
      <4> QED BY <1>0, <4>1, <4>2 DEF Sound, Heard, Spent, Tracks
    <3>2. Sound(d, previous[d])'
      <4>1. previous[d] # Nobody =>
              /\ Spent(d, previous[d].key)
              /\ Tracks(previous[d].window, {x \in Nat : <<previous[d].key, x>> \in got'[d]})
        BY <1>3, <1>13, <2>6, Zenon
      <4> QED BY <1>0, <2>5, <2>6, <4>1 DEF Sound, Heard, Spent, Tracks
    <3> QED BY <3>1, <3>2
  <2>9. \A e \in Ends : session'[e] # Nobody /\ previous'[e] # Nobody
                             => session'[e].key # previous'[e].key
    BY <1>15, <2>2, <2>4, <2>5, <2>6, Zenon
  <2> QED BY <1>6, <1>8, <1>12, <2>2, <2>7, <2>8, <2>9 DEF SessionsSound
<1>17. CASE ~current
  <2>1. session' = session /\ previous' = [previous EXCEPT ![d].window = w]
    BY <1>17 DEF Receive, w
  <2>2. /\ session' = [e \in Ends |-> session'[e]] /\ previous' = [e \in Ends |-> previous'[e]]
        /\ \A e \in Ends : session'[e] = session[e]
        /\ \A e \in Ends : e # d => previous'[e] = previous[e]
    BY <1>15, <2>1
  <2>3. previous[d] \in Sessions /\ previous[d] # Nobody /\ previous[d].key = m.key
    BY <1>2, <1>4, <1>17
  <2>4. /\ previous'[d] = [previous[d] EXCEPT !.window = w]
        /\ previous'[d] \in Sessions /\ previous'[d].key = m.key /\ previous'[d].window = w
    BY <1>5, <1>15, <2>1, <2>3 DEF Sessions
  <2>5. \A e \in Ends : Sound(e, session[e])'
    <3>1. ASSUME NEW e \in Ends PROVE Sound(e, session[e])'
      <4>1. session[e] # Nobody =>
              /\ session[e] \in Sessions /\ Spent(e, session[e].key)
              /\ Tracks(session[e].window, {x \in Nat : <<session[e].key, x>> \in got'[e]})
        BY <1>13, <1>15, <1>17, Zenon
      <4> QED BY <1>0, <2>2, <4>1, Zenon DEF Sound, Heard, Spent, Tracks
    <3> QED BY <3>1
  <2>6. \A e \in Ends : Sound(e, previous[e])'
    <3>1. ASSUME NEW e \in Ends, e # d PROVE Sound(e, previous[e])'
      <4>1. previous'[e] = previous[e] /\ Sound(e, previous[e])
        BY <1>15, <2>2, <3>1
      <4>2. previous[e] # Nobody =>
              /\ previous[e] \in Sessions /\ Spent(e, previous[e].key)
              /\ Tracks(previous[e].window, {x \in Nat : <<previous[e].key, x>> \in got'[e]})
        BY <1>13, <3>1, <4>1
      <4> QED BY <1>0, <4>1, <4>2 DEF Sound, Heard, Spent, Tracks
    <3>2. Sound(d, previous[d])'
      BY <1>0, <1>14, <2>4 DEF Sound, Heard, Spent, Tracks
    <3> QED BY <3>1, <3>2
  <2>7. \A e \in Ends : session'[e] # Nobody /\ previous'[e] # Nobody
                             => session'[e].key # previous'[e].key
    BY <1>1, <1>15, <1>17, <2>2, <2>4, Zenon
  <2> QED BY <1>6, <1>8, <1>12, <2>2, <2>5, <2>6, <2>7 DEF SessionsSound
<1> QED BY <1>16, <1>17, Zenon

LEMMA InitEstablishes == PlaneInit => PlaneInvariant
<1> SUFFICES ASSUME PlaneInit PROVE PlaneInvariant
  OBVIOUS
<1>1. ControlTyped /\ WireTyped /\ replayed = FALSE
  BY DEF PlaneInit, ControlTyped, WireTyped
<1>2. SessionsSound
  BY DEF PlaneInit, SessionsSound, Sound
<1> QED BY <1>1, <1>2 DEF PlaneInvariant

LEMMA StepKeeps == PlaneInvariant /\ [PlaneNext]_planeVars => PlaneInvariant'
<1> SUFFICES ASSUME PlaneInvariant, [PlaneNext]_planeVars PROVE PlaneInvariant'
  OBVIOUS
<1>0. ControlTyped /\ WireTyped /\ SessionsSound /\ replayed = FALSE
  BY DEF PlaneInvariant
<1>a. /\ session = [e \in Ends |-> session[e]] /\ previous = [e \in Ends |-> previous[e]]
      /\ \A e \in Ends : session[e] # Nobody => session[e] \in Sessions
      /\ \A e \in Ends : previous[e] # Nobody => previous[e] \in Sessions
  BY <1>0 DEF SessionsSound, Sound
<1>1. ASSUME NEW h \in hellos, NEW admitted \in BOOLEAN, AcceptHello(h, admitted)
      PROVE  PlaneInvariant'
  <2>1. /\ hellos' = hellos \ {h} /\ got' = got /\ replayed' = replayed
        /\ hello' = hello /\ pending' = pending /\ wire' = wire /\ frame' = frame
        /\ endpoint' = endpoint /\ known' = known
    BY <1>1 DEF AcceptHello
  <2>2. \A r \in replies' : r.id \in Nat /\ 0 < r.id /\ r.endpoint \in Nat
    BY <1>0, <1>1 DEF AcceptHello, ControlTyped, Ends
  <2>3. ControlTyped' /\ WireTyped'
    BY <1>0, <2>1, <2>2 DEF ControlTyped, WireTyped
  <2>4. \A d \in Ends : \A k \in Keys : Spent(d, k) => Spent(d, k)'
    BY <2>1 DEF Spent
  <2>5. CASE admitted /\ h.endpoint = known[Responder]
    <3>1. Install(Responder, [hello |-> h.id, accept |-> h.id], h.endpoint)
      BY <1>1, <2>5 DEF AcceptHello
    <3>2. [hello |-> h.id, accept |-> h.id] \in Keys /\ h.endpoint \in Nat
      BY <1>0 DEF ControlTyped, Keys
    <3>3. Spent(Responder, [hello |-> h.id, accept |-> h.id])'
      BY <1>0, <2>1, PlaneAssumption DEF ControlTyped, Spent
    <3>4. \A k \in Keys : Spent(Responder, k) => k.hello # [hello |-> h.id, accept |-> h.id].hello
      BY DEF Spent
    <3>5. SessionsSound'
      BY <1>0, <2>1, <2>4, <3>1, <3>2, <3>3, <3>4, InstallKeeps DEF Ends
    <3> QED BY <1>0, <2>1, <2>3, <3>5 DEF PlaneInvariant
  <2>6. CASE ~(admitted /\ h.endpoint = known[Responder])
    <3>1. session' = session /\ previous' = previous
      BY <1>1, <2>6 DEF AcceptHello
    <3>2. SessionsSound'
      BY <1>0, <1>a, <2>1, <2>4, <3>1, SessionsKept
    <3> QED BY <1>0, <2>1, <2>3, <3>2 DEF PlaneInvariant
  <2> QED BY <2>5, <2>6
<1>2. ASSUME NEW r \in replies, HearReply(r) PROVE PlaneInvariant'
  <2>1. /\ hellos' = hellos /\ got' = got /\ replayed' = replayed /\ replies' = replies \ {r}
        /\ hello' = hello /\ (pending' = pending \/ pending' = 0) /\ wire' = wire /\ frame' = frame
        /\ endpoint' = endpoint /\ known' = known
    BY <1>2 DEF HearReply
  <2>2. ControlTyped' /\ WireTyped'
    BY <1>0, <2>1 DEF ControlTyped, WireTyped
  <2>3. \A d \in Ends : \A k \in Keys : Spent(d, k) => Spent(d, k)'
    BY <2>1 DEF Spent
  <2>4. CASE OwnsReply(r) /\ r.ok /\ r.endpoint = known[Initiator]
    <3>1. [hello |-> pending, accept |-> r.id] \in Keys /\ r.endpoint \in Nat
      BY <1>0 DEF ControlTyped, Keys
    <3>2. PICK key \in Keys : key = [hello |-> pending, accept |-> r.id]
      BY <3>1
    <3>3. Install(Initiator, key, r.endpoint) /\ pending' = 0 /\ key.hello = pending
      BY <1>2, <2>4, <3>2 DEF HearReply
    <3>4. \A k \in Keys : Spent(Initiator, k) => k.hello # key.hello
      BY <3>3 DEF Spent
    <3>5. pending # 0
      BY <1>0, <2>4 DEF OwnsReply, ControlTyped
    <3>6. Spent(Initiator, key)'
      BY <1>0, <2>1, <3>3, <3>5, PlaneAssumption DEF ControlTyped, Spent
    <3>7. SessionsSound'
      BY <1>0, <2>1, <2>3, <3>1, <3>3, <3>4, <3>6, InstallKeeps DEF Ends
    <3> QED BY <1>0, <2>1, <2>2, <3>7 DEF PlaneInvariant
  <2>5. CASE ~(OwnsReply(r) /\ r.ok /\ r.endpoint = known[Initiator])
    <3>1. session' = session /\ previous' = previous
      BY <1>2, <2>5 DEF HearReply
    <3>2. SessionsSound'
      BY <1>0, <1>a, <2>1, <2>3, <3>1, SessionsKept
    <3> QED BY <1>0, <2>1, <2>2, <3>2 DEF PlaneInvariant
  <2> QED BY <2>4, <2>5
<1>3. ASSUME NEW id \in open, RequestFails(id) PROVE PlaneInvariant'
  <2>1. /\ hellos' = hellos /\ got' = got /\ replayed' = replayed /\ replies' \subseteq replies
        /\ hello' = hello /\ (pending' = pending \/ pending' = 0) /\ wire' = wire /\ frame' = frame
        /\ endpoint' = endpoint /\ known' = known /\ session' = session /\ previous' = previous
    BY <1>3 DEF RequestFails
  <2>2. ControlTyped' /\ WireTyped'
    BY <1>0, <2>1 DEF ControlTyped, WireTyped
  <2>3. \A d \in Ends : \A k \in Keys : Spent(d, k) => Spent(d, k)'
    BY <2>1 DEF Spent
  <2>4. SessionsSound'
    BY <1>0, <1>a, <2>1, <2>3, SessionsKept
  <2> QED BY <1>0, <2>1, <2>2, <2>4 DEF PlaneInvariant
<1>4. ASSUME NEW d \in Ends, LearnEndpoint(d) PROVE PlaneInvariant'
  <2>1. /\ got' = got /\ replayed' = replayed /\ replies' = replies /\ wire' = wire /\ frame' = frame
        /\ endpoint' = endpoint /\ session' = session /\ previous' = previous /\ Negotiate(d, pending)
        /\ known' = [known EXCEPT ![d] = endpoint[Peer(d)]]
    BY <1>4 DEF LearnEndpoint
  <2>2. known' \in [Ends -> Nat] /\ pending \in Nat
    BY <1>0, <2>1 DEF ControlTyped, Peer, Ends
  <2>3. ControlTyped' /\ \A e \in Ends : \A k \in Keys : Spent(e, k) => Spent(e, k)'
    BY <1>0, <2>1, <2>2, NegotiateKeeps
  <2>4. SessionsSound'
    BY <1>0, <1>a, <2>1, <2>3, SessionsKept
  <2> QED BY <1>0, <2>1, <2>3, <2>4 DEF PlaneInvariant, WireTyped
<1>5. ASSUME Elapse PROVE PlaneInvariant'
  <2>1. /\ hellos' = hellos /\ got' = got /\ replayed' = replayed /\ replies' = replies
        /\ hello' = hello /\ pending' = pending /\ wire' = wire /\ frame' = frame
        /\ endpoint' = endpoint /\ known' = known
        /\ session' = [e \in Ends |-> Older(session[e])]
        /\ previous' = [e \in Ends |-> Older(previous[e])]
    BY <1>5 DEF Elapse, controlVars
  <2>2. ASSUME NEW s, s # Nobody => s \in Sessions, Older(s) # Nobody
        PROVE  s # Nobody /\ Older(s) \in Sessions /\ Older(s).key = s.key /\ Older(s).window = s.window
    BY <2>2 DEF Older, Sessions
  <2>3. ControlTyped' /\ WireTyped'
    BY <1>0, <2>1 DEF ControlTyped, WireTyped
  <2>4. \A d \in Ends : \A k \in Keys : Spent(d, k) => Spent(d, k)'
    BY <2>1 DEF Spent
  <2>5. \A e \in Ends : session'[e] = Older(session[e]) /\ previous'[e] = Older(previous[e])
    BY <2>1
  <2>6. SessionsSound'
    BY <1>0, <1>a, <2>1, <2>2, <2>4, <2>5, SessionsKept
  <2> QED BY <1>0, <2>1, <2>3, <2>6 DEF PlaneInvariant
<1>6. ASSUME NEW d \in Ends, NEW stale \in BOOLEAN, Expire(d, stale) PROVE PlaneInvariant'
  <2>1. /\ got' = got /\ replayed' = replayed /\ replies' = replies /\ wire' = wire /\ frame' = frame
        /\ endpoint' = endpoint /\ known' = known
        /\ \E left \in {0, pending} :
             Negotiate(d, left) \/ UNCHANGED <<pending, hello, hellos, open>>
    BY <1>6 DEF Expire
  <2>2. /\ session' = [e \in Ends |-> session'[e]] /\ previous' = [e \in Ends |-> previous'[e]]
        /\ \A e \in Ends : session'[e] = Nobody \/ session'[e] = session[e]
        /\ \A e \in Ends : previous'[e] = Nobody \/ previous'[e] = previous[e]
    BY <1>6, <1>a, Zenon DEF Expire
  <2>3. ControlTyped' /\ \A e \in Ends : \A k \in Keys : Spent(e, k) => Spent(e, k)'
    <3>1. CASE UNCHANGED <<pending, hello, hellos, open>>
      BY <1>0, <2>1, <3>1 DEF ControlTyped, Spent
    <3>2. ASSUME NEW left \in {0, pending}, Negotiate(d, left)
          PROVE  ControlTyped' /\ \A e \in Ends : \A k \in Keys : Spent(e, k) => Spent(e, k)'
      <4>1. left \in Nat /\ known' \in [Ends -> Nat] /\ (left = pending \/ left = 0)
        BY <1>0, <2>1 DEF ControlTyped
      <4> QED BY <1>0, <2>1, <3>2, <4>1, NegotiateKeeps
    <3> QED BY <2>1, <3>1, <3>2
  <2>4. SessionsSound'
    BY <1>0, <1>a, <2>1, <2>2, <2>3, SessionsKept
  <2> QED BY <1>0, <2>1, <2>3, <2>4 DEF PlaneInvariant, WireTyped
<1>7. ASSUME NEW d \in Ends, NEW moved \in BOOLEAN, Forget(d, moved) PROVE PlaneInvariant'
  <2>1. /\ hellos' = hellos /\ got' = got /\ replayed' = replayed /\ replies' = replies
        /\ hello' = hello /\ (pending' = pending \/ pending' = 0) /\ wire' = wire /\ frame' = frame
        /\ known' = known
        /\ endpoint' = [endpoint EXCEPT ![d] = IF moved THEN @ + 1 ELSE @]
    BY <1>7 DEF Forget
  <2>2. /\ session' = [e \in Ends |-> session'[e]] /\ previous' = [e \in Ends |-> previous'[e]]
        /\ \A e \in Ends : session'[e] = Nobody \/ session'[e] = session[e]
        /\ \A e \in Ends : previous'[e] = Nobody \/ previous'[e] = previous[e]
    BY <1>7, <1>a, Zenon DEF Forget, Forgotten
  <2>3. endpoint' \in [Ends -> Nat]
    BY <1>0, <2>1 DEF ControlTyped
  <2>4. ControlTyped' /\ WireTyped'
    BY <1>0, <2>1, <2>3 DEF ControlTyped, WireTyped
  <2>5. \A e \in Ends : \A k \in Keys : Spent(e, k) => Spent(e, k)'
    BY <2>1 DEF Spent
  <2>6. SessionsSound'
    BY <1>0, <1>a, <2>1, <2>2, <2>5, SessionsKept
  <2> QED BY <1>0, <2>1, <2>4, <2>6 DEF PlaneInvariant
<1>b. ASSUME NEW d \in Ends, NEW payload, NEW ack,
             Send(d, payload, ack) \/ UNCHANGED <<wire, frame>>
      PROVE  WireTyped'
  BY <1>0, <1>b DEF WireTyped, Send
<1>8. ASSUME NEW d \in Ends, NEW unanswered \in BOOLEAN, ProbeTick(d, unanswered)
      PROVE  PlaneInvariant'
  <2>1. /\ got' = got /\ replayed' = replayed /\ replies' = replies
        /\ endpoint' = endpoint /\ known' = known /\ session' = session /\ previous' = previous
        /\ Negotiate(d, pending) /\ (Send(d, "probe", 0) \/ UNCHANGED <<wire, frame>>)
    BY <1>8 DEF ProbeTick
  <2>2. known' \in [Ends -> Nat] /\ pending \in Nat
    BY <1>0, <2>1 DEF ControlTyped
  <2>3. ControlTyped' /\ \A e \in Ends : \A k \in Keys : Spent(e, k) => Spent(e, k)'
    BY <1>0, <2>1, <2>2, NegotiateKeeps
  <2>4. SessionsSound'
    BY <1>0, <1>a, <2>1, <2>3, SessionsKept
  <2>5. WireTyped'
    BY <1>b, <2>1
  <2> QED BY <1>0, <2>1, <2>3, <2>4, <2>5 DEF PlaneInvariant
<1>9. ASSUME NEW d \in Ends, NEW m \in wire, NEW refused \in BOOLEAN,
             Receive(d, m, refused)
      PROVE  PlaneInvariant'
  <2>1. /\ UNCHANGED <<controlVars, endpoint, known>>
        /\ Send(d, "ack", m.sequence) \/ UNCHANGED <<wire, frame>>
    BY <1>9 DEF Receive, HandleReceived
  <2>2. ControlTyped'
    BY <1>0, <2>1 DEF ControlTyped, controlVars
  <2>3. WireTyped'
    BY <1>b, <2>1
  <2>4. SessionsSound' /\ replayed' = FALSE
    BY <1>9, ReceiveKeeps, Zenon
  <2> QED BY <2>2, <2>3, <2>4 DEF PlaneInvariant
<1>10. ASSUME NEW d \in Ends, NEW failed \in BOOLEAN, SendPacket(d, failed)
       PROVE  PlaneInvariant'
  <2>1. /\ got' = got /\ replayed' = replayed /\ UNCHANGED controlVars
        /\ endpoint' = endpoint /\ known' = known /\ session' = session /\ previous' = previous
        /\ (Send(d, "packet", 0) \/ UNCHANGED <<wire, frame>>)
    BY <1>10 DEF SendPacket
  <2>2. ControlTyped' /\ \A e \in Ends : \A k \in Keys : Spent(e, k) => Spent(e, k)'
    BY <1>0, <2>1 DEF ControlTyped, Spent, controlVars
  <2>3. SessionsSound'
    BY <1>0, <1>a, <2>1, <2>2, SessionsKept
  <2>4. WireTyped'
    BY <1>b, <2>1
  <2> QED BY <1>0, <2>1, <2>2, <2>3, <2>4 DEF PlaneInvariant
<1>11. CASE UNCHANGED planeVars
  <2>1. UNCHANGED <<session, previous, endpoint, known, got, replayed, wire, frame,
                    pending, hellos, replies, hello>>
    BY <1>11 DEF planeVars, controlVars
  <2>2. ControlTyped' /\ WireTyped'
    BY <1>0, <2>1 DEF ControlTyped, WireTyped
  <2>3. \A e \in Ends : \A k \in Keys : Spent(e, k) => Spent(e, k)'
    BY <2>1 DEF Spent
  <2>4. SessionsSound'
    BY <1>0, <1>a, <2>1, <2>3, SessionsKept
  <2> QED BY <1>0, <2>1, <2>2, <2>4 DEF PlaneInvariant
<1> QED
  BY <1>1, <1>2, <1>3, <1>4, <1>5, <1>6, <1>7, <1>8, <1>9, <1>10, <1>11, Zenon DEF PlaneNext

\* No end of a packet-plane session accepts a datagram twice (accept_datagram_at,
\* install_session), for every window width, lifetime and number of renewals.
THEOREM DatagramsDeliveredOnce == PlaneSpec => []DeliveredOnce
<1>1. PlaneInvariant => DeliveredOnce
  BY DEF PlaneInvariant, DeliveredOnce
<1> QED BY <1>1, InitEstablishes, StepKeeps, PTL DEF PlaneSpec

(* ---------------------- which keys the responder uses ------------------- *)

\* use_for_tx: the responder sends with its previous keys exactly until it hears the
\* current ones.
Confirmation ==
    session[Responder] # Nobody /\ previous[Responder] # Nobody =>
        (previous[Responder].tx <=> Heard(Responder, session[Responder].key) = {})

LEMMA ConfirmationKept ==
    ASSUME Confirmation, got'[Responder] = got[Responder],
           session'[Responder] # Nobody =>
               session[Responder] # Nobody /\ session'[Responder].key = session[Responder].key,
           previous'[Responder] # Nobody =>
               previous[Responder] # Nobody /\ previous'[Responder].tx = previous[Responder].tx
    PROVE  Confirmation'
BY Zenon DEF Confirmation, Heard

\* install_session at the responder: the new keys are unheard, and what it keeps is for
\* sending.
LEMMA InstallConfirms ==
    ASSUME PlaneInvariant, NEW key \in Keys, NEW remote,
           Install(Responder, key, remote), got' = got,
           \A k \in Keys : Spent(Responder, k) => k.hello # key.hello
    PROVE  Confirmation'
<1>1. Responder \in Ends
  BY DEF Ends
<1>2. SessionsSound
  BY DEF PlaneInvariant
<1>3. session'[Responder] = NewSession(key, remote) /\ previous'[Responder] = Retired(Responder, remote)
  BY <1>1, <1>2 DEF Install, SessionsSound
<1>4. Heard(Responder, key) = {}
  BY <1>1, <1>2 DEF Heard, SessionsSound
<1>5. ASSUME Retired(Responder, remote) # Nobody PROVE Retired(Responder, remote).tx = TRUE
  <2>1. CASE previous[Responder] # Nobody /\ previous[Responder].tx
             /\ Retired(Responder, remote) = previous[Responder]
    <3>1. previous[Responder] \in Sessions
      BY <1>1, <1>2, <2>1 DEF SessionsSound, Sound
    <3> QED BY <2>1, <3>1 DEF Sessions
  <2>2. CASE session[Responder] # Nobody
             /\ Retired(Responder, remote) = [session[Responder] EXCEPT !.tx = (Responder = Responder)]
    <3>1. session[Responder] \in Sessions
      BY <1>1, <1>2, <2>2 DEF SessionsSound, Sound
    <3> QED BY <2>2, <3>1 DEF Sessions
  <2> QED BY <1>5, <2>1, <2>2, Zenon DEF Retired
<1>6. NewSession(key, remote).key = key
  BY DEF NewSession
<1> QED BY <1>3, <1>4, <1>5, <1>6 DEF Confirmation, Heard

\* open_session_datagram: the first datagram under the current keys ends sending with the
\* previous ones.
LEMMA ReceiveConfirms ==
    ASSUME PlaneInvariant, Confirmation, NEW m \in wire, NEW refused \in BOOLEAN,
           Receive(Responder, m, refused)
    PROVE  Confirmation'
<1> DEFINE R == Responder
           n == m.sequence
<1>1. R \in Ends /\ SessionsSound /\ n \in Nat
  BY DEF Ends, PlaneInvariant, WireTyped
<1>2. /\ session = [e \in Ends |-> session[e]] /\ previous = [e \in Ends |-> previous[e]]
      /\ got \in [Ends -> SUBSET (Keys \X Nat)]
      /\ session[R] # Nobody /\ session[R] \in Sessions
      /\ previous[R] # Nobody => previous[R] \in Sessions
  BY <1>1 DEF SessionsSound, Sound, Receive
<1>3. got' = [got EXCEPT ![R] = @ \cup {<<m.key, n>>}]
  BY DEF Receive
<1>4. got'[R] = got[R] \cup {<<m.key, n>>}
  BY <1>1, <1>2, <1>3
<1>5. CASE m.key = session[R].key
  <2>1. /\ session' = [session EXCEPT ![R].window = Accept(@, n)]
        /\ previous' = IF previous[R] = Nobody THEN previous ELSE [previous EXCEPT ![R].tx = FALSE]
    BY <1>5 DEF Receive
  <2>2. session'[R].key = m.key
    BY <1>1, <1>2, <1>5, <2>1 DEF Sessions
  <2>3. previous'[R] # Nobody => previous'[R].tx = FALSE
    BY <1>1, <1>2, <2>1 DEF Sessions
  <2>4. n \in {x \in Nat : <<m.key, x>> \in got'[R]}
    BY <1>1, <1>4
  <2> QED BY <2>2, <2>3, <2>4 DEF Confirmation, Heard
<1>6. CASE m.key # session[R].key
  <2>1. session' = session /\ previous' = [previous EXCEPT ![R].window = Accept(@, n)]
    BY <1>6 DEF Receive
  <2>2. previous[R] # Nobody
    BY <1>6 DEF Receive, Opens, Overlaps
  <2>3. previous'[R].tx = previous[R].tx
    BY <1>1, <1>2, <2>1, <2>2 DEF Sessions
  <2>4. {x \in Nat : <<session[R].key, x>> \in got'[R]} = Heard(R, session[R].key)
    BY <1>4, <1>6 DEF Heard
  <2> QED BY <1>2, <2>1, <2>2, <2>3, <2>4 DEF Confirmation, Heard
<1> QED BY <1>5, <1>6

LEMMA ConfirmationStep ==
    PlaneInvariant /\ Confirmation /\ [PlaneNext]_planeVars => Confirmation'
<1> SUFFICES ASSUME PlaneInvariant, Confirmation, [PlaneNext]_planeVars PROVE Confirmation'
  OBVIOUS
<1>0. /\ Initiator \in Ends /\ Responder \in Ends /\ Initiator # Responder
      /\ ControlTyped /\ SessionsSound
      /\ session = [e \in Ends |-> session[e]] /\ previous = [e \in Ends |-> previous[e]]
      /\ got \in [Ends -> SUBSET (Keys \X Nat)]
  BY PlaneAssumption DEF Ends, PlaneInvariant, SessionsSound
<1>a. ASSUME session'[Responder] \in {Nobody, session[Responder]},
             previous'[Responder] \in {Nobody, previous[Responder]},
             got'[Responder] = got[Responder]
      PROVE  Confirmation'
  BY <1>a, ConfirmationKept
<1>1. ASSUME NEW h \in hellos, NEW admitted \in BOOLEAN, AcceptHello(h, admitted)
      PROVE  Confirmation'
  <2>1. got' = got
    BY <1>1 DEF AcceptHello
  <2>2. CASE admitted /\ h.endpoint = known[Responder]
    <3>1. Install(Responder, [hello |-> h.id, accept |-> h.id], h.endpoint)
      BY <1>1, <2>2 DEF AcceptHello
    <3>2. [hello |-> h.id, accept |-> h.id] \in Keys
      BY <1>0 DEF ControlTyped, Keys
    <3>3. \A k \in Keys : Spent(Responder, k) => k.hello # [hello |-> h.id, accept |-> h.id].hello
      BY DEF Spent
    <3> QED BY <2>1, <3>1, <3>2, <3>3, InstallConfirms
  <2>3. CASE ~(admitted /\ h.endpoint = known[Responder])
    <3>1. session' = session /\ previous' = previous
      BY <1>1, <2>3 DEF AcceptHello
    <3> QED BY <1>a, <2>1, <3>1
  <2> QED BY <2>2, <2>3
<1>2. ASSUME NEW r \in replies, HearReply(r) PROVE Confirmation'
  <2>1. /\ got' = got
        /\ session'[Responder] = session[Responder] /\ previous'[Responder] = previous[Responder]
    BY <1>0, <1>2, Zenon DEF HearReply, Install
  <2> QED BY <1>a, <2>1
<1>3. ASSUME UNCHANGED <<session, previous, got>> PROVE Confirmation'
  BY <1>3, <1>a
<1>4. ASSUME Elapse PROVE Confirmation'
  <2>1. /\ session'[Responder] = Older(session[Responder])
        /\ previous'[Responder] = Older(previous[Responder]) /\ got' = got
    BY <1>0, <1>4 DEF Elapse
  <2>2. ASSUME NEW s, s # Nobody => s \in Sessions, Older(s) # Nobody
        PROVE  s # Nobody /\ Older(s).key = s.key /\ Older(s).tx = s.tx
    BY <2>2 DEF Older, Sessions
  <2>3. /\ session[Responder] # Nobody => session[Responder] \in Sessions
        /\ previous[Responder] # Nobody => previous[Responder] \in Sessions
    BY <1>0 DEF SessionsSound, Sound
  <2> QED BY <2>1, <2>2, <2>3, ConfirmationKept
<1>5. ASSUME NEW d \in Ends, NEW stale \in BOOLEAN, Expire(d, stale) PROVE Confirmation'
  <2>1. /\ session'[Responder] \in {Nobody, session[Responder]}
        /\ previous'[Responder] \in {Nobody, previous[Responder]} /\ got' = got
    BY <1>0, <1>5, Zenon DEF Expire
  <2> QED BY <1>a, <2>1
<1>6. ASSUME NEW d \in Ends, NEW moved \in BOOLEAN, Forget(d, moved) PROVE Confirmation'
  <2>1. /\ session'[Responder] \in {Nobody, session[Responder]}
        /\ previous'[Responder] \in {Nobody, previous[Responder]} /\ got' = got
    BY <1>0, <1>6, Zenon DEF Forget, Forgotten
  <2> QED BY <1>a, <2>1
<1>7. ASSUME NEW d \in Ends, NEW m \in wire, NEW refused \in BOOLEAN,
             Receive(d, m, refused)
      PROVE  Confirmation'
  <2>1. CASE d = Responder
    BY <1>7, <2>1, ReceiveConfirms
  <2>2. CASE d # Responder
    <3>1. /\ session'[Responder] = session[Responder] /\ previous'[Responder] = previous[Responder]
          /\ got'[Responder] = got[Responder]
      BY <1>0, <1>7, <2>2, Zenon DEF Receive
    <3> QED BY <1>a, <3>1
  <2> QED BY <2>1, <2>2
<1>8. CASE UNCHANGED planeVars
  BY <1>3, <1>8 DEF planeVars
<1>9. ASSUME NEW id \in open, RequestFails(id) PROVE Confirmation'
  BY <1>3, <1>9 DEF RequestFails
<1>10. ASSUME NEW d \in Ends, LearnEndpoint(d) PROVE Confirmation'
  BY <1>3, <1>10 DEF LearnEndpoint
<1>11. ASSUME NEW d \in Ends, NEW unanswered \in BOOLEAN, ProbeTick(d, unanswered)
       PROVE  Confirmation'
  BY <1>3, <1>11 DEF ProbeTick
<1>12. ASSUME NEW d \in Ends, NEW failed \in BOOLEAN, SendPacket(d, failed) PROVE Confirmation'
  BY <1>3, <1>12 DEF SendPacket
<1> QED
  BY <1>1, <1>2, <1>4, <1>5, <1>6, <1>7, <1>8, <1>9, <1>10, <1>11, <1>12, Zenon DEF PlaneNext

\* The responder never sends with keys it has not heard while it holds keys it has
\* (install_session, send_frame_to_peer_from, open_session_datagram), for every lifetime
\* and whatever Accepts, Hellos and datagrams are lost, late or repeated.
THEOREM UnheardKeysWait == PlaneSpec => []SealsWithHeardKeys
<1>1. PlaneInit => Confirmation
  BY DEF PlaneInit, Confirmation, Ends
<1>2. PlaneInvariant /\ Confirmation => SealsWithHeardKeys
  <2> SUFFICES ASSUME PlaneInvariant, Confirmation, session[Responder] # Nobody,
                      NEW k \in Opens(Responder), k \in HeardKeys(Responder)
               PROVE  Sealing(Responder).key \in HeardKeys(Responder)
    BY DEF SealsWithHeardKeys
  <2>1. /\ Responder \in Ends /\ got[Responder] \in SUBSET (Keys \X Nat)
        /\ session[Responder] \in Sessions
        /\ previous[Responder] # Nobody => previous[Responder] \in Sessions
    BY DEF Ends, PlaneInvariant, SessionsSound, Sound
  <2>2. \A x \in Keys : x \in HeardKeys(Responder) <=> Heard(Responder, x) # {}
    <3> TAKE x \in Keys
    <3>1. ASSUME NEW g \in got[Responder], g[1] = x PROVE g[2] \in Heard(Responder, x)
      <4>1. g \in Keys \X Nat
        BY <2>1
      <4>2. g[2] \in Nat /\ g = <<g[1], g[2]>>
        BY <4>1
      <4> QED BY <3>1, <4>2 DEF Heard
    <3>2. ASSUME NEW n \in Heard(Responder, x) PROVE \E g \in got[Responder] : x = g[1]
      <4>1. <<x, n>> \in got[Responder] /\ <<x, n>>[1] = x
        BY DEF Heard
      <4> QED BY <4>1
    <3> QED BY <3>1, <3>2, Zenon DEF HeardKeys
  <2>3. CASE Overlaps(Responder) /\ previous[Responder].tx
    <3>1. Sealing(Responder) = previous[Responder] /\ previous[Responder] # Nobody
      BY <2>3 DEF Sealing, Overlaps
    <3>2. session[Responder].key \notin HeardKeys(Responder)
      BY <2>1, <2>2, <2>3, <3>1 DEF Confirmation, Sessions
    <3> QED BY <2>3, <3>1, <3>2 DEF Opens
  <2>4. CASE Overlaps(Responder) /\ ~previous[Responder].tx
    <3>1. Sealing(Responder) = session[Responder] /\ previous[Responder] # Nobody
      BY <2>4 DEF Sealing, Overlaps
    <3> QED BY <2>1, <2>2, <2>4, <3>1 DEF Confirmation, Sessions
  <2>5. CASE ~Overlaps(Responder)
    BY <2>5 DEF Sealing, Opens
  <2> QED BY <2>3, <2>4, <2>5
<1> QED BY <1>1, <1>2, InitEstablishes, StepKeeps, ConfirmationStep, PTL DEF PlaneSpec
=============================================================================
