---------------------------- MODULE ReplayWindow ----------------------------
(***************************************************************************)
(* The sliding replay window of the packet plane (PacketPlaneReplayWindow; *)
(* the forwarder's ReplayWindow is the same code).  The bitmap "seen" is   *)
(* the set of its bit positions: bit o stands for the sequence highest - o.*)
(***************************************************************************)
EXTENDS Integers

CONSTANT WindowBits   \* PACKET_PLANE_REPLAY_WINDOW_BITS

ASSUME WindowAssumption == WindowBits \in Nat \ {0}

Unset == -1           \* highest = None

NewWindow == [highest |-> Unset, seen |-> {}]

\* accept returns Ok: the sequence is new, or it is in the window and not seen.
Accepts(w, s) ==
    \/ w.highest = Unset
    \/ s > w.highest
    \/ w.highest - s < WindowBits /\ w.highest - s \notin w.seen

\* seen << n, or nothing when the distance reaches the width of the bitmap.
Shifted(seen, n) ==
    IF n >= WindowBits THEN {}
    ELSE {o + n : o \in seen} \cap (0..(WindowBits - 1))

\* The window once accept returned Ok.
Accept(w, s) ==
    IF w.highest = Unset THEN [highest |-> s, seen |-> {0}]
    ELSE IF s > w.highest
         THEN [highest |-> s, seen |-> Shifted(w.seen, s - w.highest) \cup {0}]
         ELSE [w EXCEPT !.seen = @ \cup {w.highest - s}]

\* What the window stands for: the bits are those of the last WindowBits sequences
\* that were heard, counted from the highest.
Tracks(w, heard) ==
    /\ w.highest = Unset => heard = {}
    /\ w.highest # Unset => w.highest \in heard
    /\ \A s \in heard : s <= w.highest /\ (w.highest - s < WindowBits => w.highest - s \in w.seen)
    /\ \A o \in w.seen : w.highest - o \in heard
=============================================================================
