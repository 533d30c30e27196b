------------------------------- MODULE Dedup -------------------------------
(***************************************************************************)
(* One packet-number space's duplicate filter at work: handle_data calls   *)
(* Dedup::insert with the number of every packet that reaches it, in any   *)
(* order and any number of times, and drops the packet when insert says    *)
(* it may be a duplicate.                                                  *)
(***************************************************************************)
EXTENDS DedupWindow

CONSTANT PacketNumbers  \* the packet numbers that can arrive

ASSUME PacketNumbersAssumption == PacketNumbers \subseteq Nat

VARIABLES
    dedup,     \* PacketSpace.dedup
    admitted   \* history: the packet numbers let through

vars == <<dedup, admitted>>

Init ==
    /\ dedup = NewWindow
    /\ admitted = {}

\* insert returned false: the packet goes on to on_packet_authenticated.
Admit(pn) ==
    /\ ~Recorded(dedup, pn)
    /\ dedup' = InsertPacket(dedup, pn)
    /\ admitted' = admitted \cup {pn}

\* insert returned true: handle_data returns.
Discard(pn) ==
    /\ Recorded(dedup, pn)
    /\ dedup' = InsertPacket(dedup, pn)
    /\ UNCHANGED admitted

Next == \E pn \in PacketNumbers : Admit(pn) \/ Discard(pn)

Spec == Init /\ [][Next]_vars

-----------------------------------------------------------------------------

\* The window is a set of bit positions and next is past everything admitted.
TypeOK ==
    /\ dedup \in [window : SUBSET (0 .. WindowBits - 1), next : Nat]
    /\ admitted \subseteq Nat

\* Dedup::insert lets a packet number through exactly when it has not been let
\* through before and is not left of the window: whatever the order of arrival
\* and the jumps between numbers, no duplicate is processed twice and no fresh
\* packet within reach of the window is dropped.
FilterIsExact ==
    \A pn \in PacketNumbers :
        Recorded(dedup, pn) <=> pn \in admitted \/ LeftOfWindow(dedup, pn)
=============================================================================
