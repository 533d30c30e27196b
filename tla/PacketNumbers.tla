--------------------------- MODULE PacketNumbers ---------------------------
(***************************************************************************)
(* The truncated packet number of a header (proto/src/packet.rs, enum      *)
(* PacketNumber): a packet carries only the low bytes of its number, as    *)
(* many as the distance to the largest number known to be acknowledged     *)
(* asks for, and the receiver finds the rest from what it has received.    *)
(***************************************************************************)
EXTENDS Integers, Sequences

CONSTANT Windows  \* how many numbers 1, 2, ... bytes tell apart: <<2^8, 2^16, 2^24, 2^32>>

\* The windows are even: half a window is a number.
ASSUME WindowsAssumption ==
    /\ Windows \in Seq(Nat \ {0})
    /\ \A i \in 1 .. Len(Windows) : Windows[i] % 2 = 0

\* PacketNumber, len bytes long.
PacketNumber(len, truncated) == [len |-> len, truncated |-> truncated]

\* The lengths whose window is more than twice the distance from the largest
\* acknowledged number.  With none of them PacketNumber::new panics.
Lengths(n, largest_acked) ==
    {len \in 1 .. Len(Windows) : (n - largest_acked) * 2 < Windows[len]}

\* The shortest of some lengths.
Shortest(lens) == CHOOSE len \in lens : \A l \in lens : len <= l

\* PacketNumber::new.
NewNumber(n, largest_acked) ==
    LET len == Shortest(Lengths(n, largest_acked))
    IN  PacketNumber(len, n % Windows[len])

\* Half the numbers a truncated number tells apart.
HalfWindow(number) == Windows[number.len] \div 2

\* A plausible slip: a candidate half a window behind is left there.
ExpandKeepsOld(number, expected) ==
    LET win  == Windows[number.len]
        hwin == HalfWindow(number)
        candidate == (expected \div win) * win + number.truncated
    IN  IF candidate > expected + hwin /\ candidate > win
        THEN candidate - win
        ELSE candidate

\* PacketNumber::expand: of the numbers with these low bytes, the one in the
\* window around the expected number.
Expand(number, expected) ==
    LET win  == Windows[number.len]
        hwin == HalfWindow(number)
        candidate == (expected \div win) * win + number.truncated
    IN  IF expected >= hwin /\ candidate <= expected - hwin
        THEN candidate + win
        ELSE IF candidate > expected + hwin /\ candidate > win
        THEN candidate - win
        ELSE candidate
=============================================================================
