---------------------------- MODULE DedupWindow ----------------------------
(***************************************************************************)
(* The sliding window that recognises duplicate packet numbers             *)
(* (core/src/connection/space.rs, struct Dedup).  The bit field `window`   *)
(* is the set of positions of its set bits: bit b stands for the packet    *)
(* number highest - 1 - b.                                                 *)
(***************************************************************************)
EXTENDS Integers

CONSTANT WindowBits  \* width of the bit field: 128 in the code (Window = u128)

ASSUME WindowBitsAssumption == WindowBits \in Nat \ {0}

\* Number of packets tracked: the highest one and one per bit.
WINDOW_SIZE == 1 + WindowBits

\* Dedup::new: an empty window positioned at the start.
NewWindow == [window |-> {}, next |-> 0]

\* Highest packet number recorded (only meaningful once next > 0).
Highest(d) == d.next - 1

\* u128 shift: bits pushed past the width fall off; a shift by the width or
\* more (checked_shl gives None) leaves nothing.
ShiftLeft(bits, n) == {b \in 0 .. WindowBits - 1 : b - n \in bits}

\* Packet numbers left of the window are taken to be recorded.
LeftOfWindow(d, pn) == Highest(d) - pn >= WINDOW_SIZE

\* What the window knows of packet number pn: it is not right of the window,
\* and it is the highest one, has its bit set, or is left of the window.
Recorded(d, pn) ==
    /\ pn < d.next
    /\ \/ LeftOfWindow(d, pn)
       \/ pn = Highest(d)
       \/ Highest(d) - pn - 1 \in d.window

\* A plausible slip: the number that was highest loses its bit when the window
\* moves.
InsertForgetsHighest(d, pn) ==
    IF pn >= d.next
    THEN [window |-> ShiftLeft(ShiftLeft(d.window, 1), pn - d.next),
          next   |-> pn + 1]
    ELSE IF LeftOfWindow(d, pn) \/ pn = Highest(d)
         THEN d
         ELSE [d EXCEPT !.window = @ \cup {Highest(d) - pn - 1}]

\* The state Dedup::insert leaves behind.
InsertPacket(d, pn) ==
    IF pn >= d.next
    THEN [window |-> ShiftLeft(ShiftLeft(d.window, 1) \cup {0}, pn - d.next),
          next   |-> pn + 1]
    ELSE IF LeftOfWindow(d, pn) \/ pn = Highest(d)
         THEN d
         ELSE [d EXCEPT !.window = @ \cup {Highest(d) - pn - 1}]

\* Dedup::smallest_missing_in_interval and missing_in_interval, over the
\* packet numbers from lower up to, but not including, upper.
MissingInInterval(d, lower, upper) ==
    \E pn \in lower .. upper - 1 : ~Recorded(d, pn)
=============================================================================
