---------------------------- MODULE DedupProofs ----------------------------
(***************************************************************************)
(* The duplicate filter is exact for every window width and every set of   *)
(* packet numbers.                                                         *)
(***************************************************************************)
EXTENDS Dedup, TLAPS

(***************************************************************************)
(* The strengthening: the highest number is always an admitted one, and    *)
(* bit b is set exactly when highest - 1 - b was admitted.  The first      *)
(* insertion also sets the bit of the number before 0, which stands for no *)
(* packet.                                                                 *)
(***************************************************************************)
BitMeans(b) == b \in dedup.window <=> \/ dedup.next - 2 - b \in admitted
                                      \/ dedup.next > 0 /\ dedup.next - 2 - b = -1

WindowInv ==
    /\ TypeOK
    /\ \A pn \in admitted : pn < dedup.next
    /\ dedup.next > 0 => dedup.next - 1 \in admitted
    /\ \A b \in 0 .. WindowBits - 1 : BitMeans(b)

\* The strengthened invariant implies that Dedup::insert answers exactly.
LEMMA WindowInvExact == WindowInv => FilterIsExact
BY WindowBitsAssumption, PacketNumbersAssumption
   DEF WindowInv, FilterIsExact, TypeOK, Recorded, LeftOfWindow, Highest,
       WINDOW_SIZE, BitMeans

\* Dedup::new establishes the invariant.
LEMMA WindowInvInit == Init => WindowInv
BY WindowBitsAssumption DEF Init, WindowInv, TypeOK, NewWindow, BitMeans

\* Dedup::insert of a fresh packet number keeps the invariant, both when it
\* moves the window and when it sets a bit inside it.
LEMMA WindowInvAdmit ==
  ASSUME WindowInv, NEW pn \in PacketNumbers, Admit(pn)
  PROVE  WindowInv'
<1> USE WindowBitsAssumption, PacketNumbersAssumption
<1>1. pn \in Nat /\ admitted' = admitted \cup {pn} /\ dedup' = InsertPacket(dedup, pn)
  BY DEF Admit
<1>2. CASE pn >= dedup.next
  <2>1. dedup' = [window |-> ShiftLeft(ShiftLeft(dedup.window, 1) \cup {0}, pn - dedup.next),
                  next   |-> pn + 1]
    BY <1>1, <1>2 DEF InsertPacket
  <2>2. \A b \in 0 .. WindowBits - 1 :
           b \in dedup'.window <=>
             \/ b - (pn - dedup.next) = 0
             \/ b - (pn - dedup.next) - 1 \in dedup.window /\ b - (pn - dedup.next) > 0
    BY <1>1, <1>2, <2>1 DEF ShiftLeft, WindowInv, TypeOK
  <2>3. ASSUME NEW b \in 0 .. WindowBits - 1 PROVE BitMeans(b)'
    <3> DEFINE diff == pn - dedup.next
    <3>0. diff \in Nat /\ dedup'.next = pn + 1 /\ dedup.next \in Nat
      BY <1>1, <1>2, <2>1 DEF WindowInv, TypeOK
    <3>1. CASE b < diff
      <4>1. b \notin dedup'.window
        BY <2>2, <3>0, <3>1
      <4>2. pn - 1 - b >= dedup.next /\ pn - 1 - b # pn
        BY <1>1, <3>0, <3>1
      <4>3. pn - 1 - b \notin admitted'
        BY <1>1, <3>0, <4>2 DEF WindowInv, TypeOK
      <4> QED
        BY <1>1, <3>0, <4>1, <4>2, <4>3 DEF BitMeans
    <3>2. CASE b = diff
      <4>1. b \in dedup'.window
        BY <2>2, <3>0, <3>2
      <4>2. pn - 1 - b = dedup.next - 1
        BY <1>1, <3>0, <3>2
      <4> QED
        BY <1>1, <3>0, <4>1, <4>2 DEF BitMeans, WindowInv
    <3>3. CASE b > diff
      <4> DEFINE c == b - diff - 1
      <4>1. c \in 0 .. WindowBits - 1 /\ dedup.next - 2 - c = pn - 1 - b
        BY <1>1, <3>0, <3>3
      <4>2. b \in dedup'.window <=> c \in dedup.window
        BY <2>2, <3>0, <3>3
      <4>3. BitMeans(c)
        BY <4>1 DEF WindowInv
      <4>4. pn - 1 - b # pn
        BY <1>1
      <4> QED
        BY <1>1, <3>0, <3>3, <4>1, <4>2, <4>3, <4>4 DEF BitMeans
    <3> QED
      BY <3>0, <3>1, <3>2, <3>3
  <2> QED
    BY <1>1, <1>2, <2>1, <2>3 DEF WindowInv, TypeOK, ShiftLeft
<1>3. CASE pn < dedup.next
  <2>1. /\ ~LeftOfWindow(dedup, pn)
        /\ pn # Highest(dedup)
        /\ Highest(dedup) - pn - 1 \in 0 .. WindowBits - 1
    BY <1>1, <1>3 DEF Admit, Recorded, LeftOfWindow, Highest, WINDOW_SIZE, WindowInv, TypeOK
  <2>2. dedup' = [dedup EXCEPT !.window = @ \cup {Highest(dedup) - pn - 1}]
    BY <1>1, <1>3, <2>1 DEF InsertPacket, WindowInv, TypeOK
  <2>3. dedup'.next = dedup.next /\ dedup'.window = dedup.window \cup {dedup.next - 2 - pn}
    BY <1>1, <2>2 DEF WindowInv, TypeOK, Highest
  <2>4. \A b \in 0 .. WindowBits - 1 : BitMeans(b)'
    BY <1>1, <1>3, <2>1, <2>3 DEF WindowInv, TypeOK, BitMeans
  <2> QED
    BY <1>1, <1>3, <2>1, <2>2, <2>3, <2>4 DEF WindowInv, TypeOK
<1> QED
  BY <1>1, <1>2, <1>3 DEF WindowInv, TypeOK

\* Dedup::insert of a recorded packet number changes nothing.
LEMMA WindowInvDiscard ==
  ASSUME WindowInv, NEW pn \in PacketNumbers, Discard(pn)
  PROVE  WindowInv'
<1> USE WindowBitsAssumption, PacketNumbersAssumption
<1>1. dedup' = dedup
  BY DEF Discard, Recorded, InsertPacket, Highest, LeftOfWindow, WindowInv, TypeOK
<1> QED
  BY <1>1 DEF Discard, WindowInv, TypeOK, BitMeans

\* The window's bits always mean what BitMeans says.
THEOREM WindowInvariant == Spec => []WindowInv
<1>1. WindowInv /\ [Next]_vars => WindowInv'
  <2> SUFFICES ASSUME WindowInv, [Next]_vars PROVE WindowInv'
    OBVIOUS
  <2>1. ASSUME NEW pn \in PacketNumbers, Admit(pn) PROVE WindowInv'
    BY <2>1, WindowInvAdmit
  <2>2. ASSUME NEW pn \in PacketNumbers, Discard(pn) PROVE WindowInv'
    BY <2>2, WindowInvDiscard
  <2>3. CASE UNCHANGED vars
    BY <2>3 DEF WindowInv, TypeOK, BitMeans, vars
  <2> QED
    BY <2>1, <2>2, <2>3 DEF Next
<1> QED
  BY <1>1, WindowInvInit, PTL DEF Spec

\* For every window width and every set of packet numbers, handle_data drops a
\* packet as a duplicate exactly when its number was let through before or is
\* left of the window.
THEOREM FilterExact == Spec => []FilterIsExact
BY WindowInvariant, WindowInvExact, PTL
=============================================================================
