------------------------ MODULE PacketNumbersProofs ------------------------
(***************************************************************************)
(* A truncated packet number is expanded to the number that was sent, for  *)
(* every encoding, whenever the number is less than half a window away     *)
(* from the expected one.                                                  *)
(***************************************************************************)
EXTENDS PacketNumbers, WellFoundedInduction, TLAPS

\* The multiples of a window, one apart or further.
LEMMA Multiples ==
    ASSUME NEW win \in Nat \ {0}, NEW j \in Int, NEW k \in Int
    PROVE  /\ j * win \in Int
           /\ (j + 1) * win = j * win + win
           /\ k >= j => k * win >= j * win
OBVIOUS

\* Two numbers of which one is less than a window and a half from the window of
\* the other are in the same window or in neighbouring ones.
LEMMA Neighbours ==
    ASSUME NEW win \in Nat \ {0}, NEW q \in Int, NEW k \in Int,
           k * win < q * win + 2 * win, q * win < k * win + 2 * win
    PROVE  k \in {q - 1, q, q + 1}
<1>1. k < q + 2
  <2>1. SUFFICES ASSUME k >= q + 2 PROVE FALSE
    OBVIOUS
  <2>2. k * win >= (q + 1 + 1) * win
    BY <2>1, Multiples
  <2>3. (q + 1 + 1) * win = q * win + win + win
    BY Multiples
  <2>4. q * win \in Int /\ k * win \in Int
    BY Multiples
  <2> QED
    BY <2>2, <2>3, <2>4
<1>2. q < k + 2
  <2>1. SUFFICES ASSUME q >= k + 2 PROVE FALSE
    OBVIOUS
  <2>2. q * win >= (k + 1 + 1) * win
    BY <2>1, Multiples
  <2>3. (k + 1 + 1) * win = k * win + win + win
    BY Multiples
  <2>4. q * win \in Int /\ k * win \in Int
    BY Multiples
  <2> QED
    BY <2>2, <2>3, <2>4
<1> QED
  BY <1>1, <1>2

\* A number is its window's start and what is left of it.
LEMMA Division ==
    ASSUME NEW win \in Nat \ {0}, NEW n \in Nat
    PROVE  /\ n \div win \in Int /\ n % win \in 0 .. win - 1
           /\ n = (n \div win) * win + (n % win)
OBVIOUS

\* Expanding the low bytes of n gives n, when the expected number is less than half
\* a window above n and at most half a window below it.
THEOREM ExpandRecovers ==
    ASSUME NEW len \in 1 .. Len(Windows), NEW n \in Nat, NEW expected \in Nat,
           expected < n + (Windows[len] \div 2),
           n <= expected + (Windows[len] \div 2)
    PROVE  Expand(PacketNumber(len, n % Windows[len]), expected) = n
<1> DEFINE win  == Windows[len]
           hwin == win \div 2
           q == expected \div win
           k == n \div win
           t == n % win
           candidate == q * win + t
<1>1. win \in Nat \ {0} /\ win = 2 * hwin /\ hwin \in Nat
  <2>1. win \in Nat \ {0} /\ win % 2 = 0
    BY WindowsAssumption
  <2> HIDE DEF win
  <2> QED
    BY <2>1
<1>2. /\ k \in Int /\ t \in 0 .. win - 1 /\ n = k * win + t
      /\ k * win \in Int
  BY <1>1, Division, Multiples
<1>3. PICK r \in 0 .. win - 1 : q \in Int /\ expected = q * win + r /\ q * win \in Int
  BY <1>1, Division, Multiples
<1>4. expected < n + hwin /\ n <= expected + hwin
  OBVIOUS
<1> SUFFICES Expand(PacketNumber(len, t), expected) = n
  OBVIOUS
<1> HIDE DEF q, k, t, hwin
<1>5. k \in {q - 1, q, q + 1}
  <2>1. k * win < q * win + 2 * win /\ q * win < k * win + 2 * win
    BY <1>1, <1>2, <1>3, <1>4
  <2> QED
    BY <2>1, <1>1, <1>2, <1>3, Neighbours
<1>6. Expand(PacketNumber(len, t), expected) =
        IF expected >= hwin /\ candidate <= expected - hwin
        THEN candidate + win
        ELSE IF candidate > expected + hwin /\ candidate > win
        THEN candidate - win
        ELSE candidate
  BY DEF Expand, PacketNumber, HalfWindow, q, hwin
<1>7. CASE k = q
  BY <1>1, <1>2, <1>3, <1>4, <1>6, <1>7
<1>8. CASE k = q + 1
  <2>1. k * win = q * win + win
    BY <1>1, <1>3, <1>8, Multiples
  <2> QED
    BY <1>1, <1>2, <1>3, <1>4, <1>6, <2>1
<1>9. CASE k = q - 1
  <2>1. q * win = k * win + win
    BY <1>1, <1>2, <1>3, <1>9, Multiples
  <2> QED
    BY <1>1, <1>2, <1>3, <1>4, <1>6, <2>1
<1> QED
  BY <1>5, <1>7, <1>8, <1>9

\* Of some lengths there is a shortest one.
LEMMA ShortestExists ==
    ASSUME NEW lens \in SUBSET Nat, lens # {}
    PROVE  Shortest(lens) \in lens
<1> DEFINE R == OpToRel(<, Nat)
<1>1. PICK len \in lens : \A l \in lens : ~ (<<l, len>> \in R)
  <2> HIDE DEF R
  <2>1. IsWellFoundedOn(R, Nat)
    BY NatLessThanWellFounded DEF R
  <2> QED
    BY <2>1, WFMin
<1>2. R = {ss \in Nat \X Nat : ss[1] < ss[2]}
  BY Zenon DEF OpToRel
<1> HIDE DEF R
<1>3. ASSUME NEW l \in lens
      PROVE  len <= l
  <2>1. ~ (<<l, len>> \in R)
    BY <1>1
  <2>2. <<l, len>> \in Nat \X Nat
    OBVIOUS
  <2>3. ~ (l < len)
    BY <1>2, <2>1, <2>2
  <2> QED
    BY <2>3
<1> QED
  BY <1>3 DEF Shortest

\* The number PacketNumber::new composes is expanded to the number it was made of, by a
\* receiver that has the largest acknowledged packet (or a later one) and expects a
\* number less than half a window ahead: the length is enough.
THEOREM SentIsDecoded ==
    ASSUME NEW n \in Nat, NEW largest_acked \in Nat, NEW expected \in Nat,
           Lengths(n, largest_acked) # {},
           largest_acked <= expected,
           expected < n + HalfWindow(NewNumber(n, largest_acked))
    PROVE  Expand(NewNumber(n, largest_acked), expected) = n
<1> DEFINE len == Shortest(Lengths(n, largest_acked))
<1>1. len \in 1 .. Len(Windows) /\ (n - largest_acked) * 2 < Windows[len]
  <2>1. Lengths(n, largest_acked) \in SUBSET Nat
    BY DEF Lengths
  <2>2. len \in Lengths(n, largest_acked)
    BY <2>1, ShortestExists
  <2> QED
    BY <2>2 DEF Lengths
<1>2. NewNumber(n, largest_acked) = PacketNumber(len, n % Windows[len])
  BY DEF NewNumber
<1>3. expected < n + (Windows[len] \div 2)
  BY <1>2 DEF HalfWindow, PacketNumber
<1> HIDE DEF len
<1>4. n <= expected + (Windows[len] \div 2)
  BY <1>1, WindowsAssumption
<1> QED
  BY <1>1, <1>2, <1>3, <1>4, ExpandRecovers
=============================================================================
