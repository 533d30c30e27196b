--------------------------- MODULE FrameDelivery ---------------------------
(***************************************************************************)
(* What loss recovery promises for the frames of an application: a frame   *)
(* waits until it is put in a transmission; it is confirmed only with a    *)
(* transmission it was in, and never sent again after that; and it goes    *)
(* back to wait only when its transmission or a later one is known to have *)
(* arrived, never on time alone.                                           *)
(***************************************************************************)
EXTENDS Integers

CONSTANT Frames    \* the frames an application can ask for

VARIABLES
    asked,      \* the frames it asked for
    waiting,    \* frames to be sent, or to be sent again
    out,        \* pairs of a transmission and a frame in it, not settled
    next,       \* the number of the next transmission
    newest,     \* the highest one known to have arrived, or -1
    confirmed   \* frames known to have arrived

vars == <<asked, waiting, out, next, newest, confirmed>>

Init ==
    /\ asked = {} /\ waiting = {} /\ out = {} /\ confirmed = {}
    /\ next = 0 /\ newest = -1

Ask(f) ==
    /\ f \notin asked
    /\ asked' = asked \cup {f} /\ waiting' = waiting \cup {f}
    /\ UNCHANGED <<out, next, newest, confirmed>>

\* A transmission of some of the frames that wait, or of none.
Transmit(F) ==
    /\ waiting' = waiting \ F
    /\ out' = out \cup {<<next, f>> : f \in F}
    /\ next' = next + 1
    /\ UNCHANGED <<asked, newest, confirmed>>

FramesIn(T) == {f \in Frames : \E n \in T : <<n, f>> \in out}

\* The transmissions A have arrived, L are given up; n is the highest known now.
Settle(A, L, n) ==
    /\ \A t \in A \cup L : t <= n
    /\ newest' = n
    /\ confirmed' = confirmed \cup FramesIn(A)
    /\ waiting' = waiting \cup FramesIn(L)
    /\ out' = {o \in out : o[1] \notin A \cup L}
    /\ UNCHANGED <<asked, next>>

Unsettled == {o[1] : o \in out}

Next ==
    \/ \E f \in Frames : Ask(f)
    \/ \E F \in SUBSET waiting : Transmit(F)
    \/ \E A \in SUBSET Unsettled : \E L \in SUBSET (Unsettled \ A), n \in newest .. next - 1 :
          Settle(A, L, n)

Spec == Init /\ [][Next]_vars
=============================================================================
