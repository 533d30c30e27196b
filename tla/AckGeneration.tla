--------------------------- MODULE AckGeneration ---------------------------
(***************************************************************************)
(* The receiving half of a connection's packet number spaces: which        *)
(* packets it owes an acknowledgement (space.rs, PendingAcks), when it     *)
(* decides to send one (packet_received, the MaxAckDelay timer, the frames *)
(* of process_payload) and when it forgets them again (subtract_below).    *)
(* The peer's packets arrive in any order, repeatedly or never.  Sending   *)
(* is reduced to what concerns ACK frames: `other` are the spaces with     *)
(* other frames to send, `blocked` the congestion window being full.       *)
(***************************************************************************)
EXTENDS DedupWindow, Sequences, FiniteSets, FiniteSetsExt

CONSTANTS
    Setups,          \* the connections looked at, see setup
    MAX_ACK_BLOCKS   \* most ranges kept (64 in the code)

SpaceIds == {"Initial", "Handshake", "Data"}

ASSUME AckGenerationAssumption ==
    /\ Setups \subseteq [spaces : SUBSET SpaceIds, server : BOOLEAN, packets : Nat, acks : Nat]
    /\ MAX_ACK_BLOCKS \in Nat \ {0}

VARIABLES
    setup,       \* which connection this is: the spaces in which the peer sends; whether
                 \* it is the server's, which its first packet creates; bounds on the
                 \* packets of the peer and on the ACK frames sent, per space
    started,     \* the connection exists (at once for a client)
    handshake,   \* State::Handshake
    dedup,       \* per space: PacketSpace.dedup
    pending,     \* per space: PacketSpace.pending_acks
    max_ack_delay, \* Timer::MaxAckDelay is armed
    sent,        \* per space: largest_acked of every packet sent, by order
    sent_packets,  \* per space: which of those are still tracked
    received,    \* history, per space: the packets processed
    preempted    \* history: the MaxAckDelay timer was stopped by an ACK of another
                 \* space, and no ACK of the Data space has been sent since

vars == <<setup, started, handshake, dedup, pending, max_ack_delay, sent,
          sent_packets, received, preempted>>

None == -1

ActiveSpaces == setup.spaces
PacketNumbers == 0 .. setup.packets - 1
MaxSent == setup.acks

\* PendingAcks::new, reduced to the fields that decide about ACKs; ranges is
\* the set of numbers the ArrayRangeSet stands for.
NewPendingAcks ==
    [ranges |-> {}, immediate |-> FALSE, since |-> 0,
     largest_ack_eliciting |-> None, largest_acked |-> None]

-----------------------------------------------------------------------------
(* PendingAcks *)

\* ArrayRangeSet::len: the number of maximal runs.
Blocks(R) == Cardinality({pn \in R : pn - 1 \notin R})

\* A plausible slip: the cap on the number of ranges is never applied.
InsertUncapped(R, pn) == R \cup {pn}

\* PendingAcks::insert_one: pop_min drops the lowest run once there are too many.
InsertOne(R, pn) ==
    LET all == R \cup {pn}
        lowest == {q \in all : Min(all) .. q \subseteq all}
    IN  IF Blocks(all) > MAX_ACK_BLOCKS THEN all \ lowest ELSE all

\* A plausible slip: only the arrival below the largest one counts.
OutOfOrderNoGap(p, pn, d) == pn < p.largest_ack_eliciting

\* PendingAcks::is_out_of_order with reordering_threshold = 1.
IsOutOfOrder(p, pn, d) ==
    \/ pn < p.largest_ack_eliciting
    \/ MissingInInterval(d, p.largest_acked + 1, pn)

\* An immediate ACK is required after this packet: the threshold of one
\* ack-eliciting packet is exceeded, or the packet is out of order.
RequiresAck(p, pn, d) == p.since + 1 > 1 \/ IsOutOfOrder(p, pn, d)

\* PendingAcks::packet_received (every packet is passed as ack-eliciting).
PacketReceived(p, pn, d) ==
    [p EXCEPT !.ranges = InsertOne(@, pn),
              !.since = @ + 1,
              !.largest_ack_eliciting = IF pn > @ THEN pn ELSE @,
              !.immediate = @ \/ RequiresAck(p, pn, d)]

\* What packet_received returns: the delayed ACK timer is to be armed.
ArmsTimer(p, pn, d) == ~p.immediate /\ ~RequiresAck(p, pn, d)

\* A plausible slip: the counter survives the ACK.
AcksSentKeepsCount(p) ==
    [p EXCEPT !.immediate = FALSE, !.largest_acked = p.largest_ack_eliciting]

\* PendingAcks::acks_sent.
AcksSent(p) ==
    [p EXCEPT !.immediate = FALSE, !.since = 0,
              !.largest_acked = p.largest_ack_eliciting]

\* PendingAcks::can_send.
CanSend(p) == p.immediate /\ p.ranges # {}

\* on_ack_received for the tracked packets A: subtract_below(largest_acked + 1)
\* drops every number up to and including largest_acked + 1.
OnAckReceived(s, p, A) ==
    [p EXCEPT !.ranges = {pn \in @ : \A a \in A : pn > sent[s][a] + 1}]

-----------------------------------------------------------------------------

Init ==
    /\ setup \in Setups
    /\ started = ~setup.server
    /\ handshake = TRUE
    /\ dedup = [s \in ActiveSpaces |-> NewWindow]
    /\ pending = [s \in ActiveSpaces |-> NewPendingAcks]
    /\ max_ack_delay = FALSE
    /\ sent = [s \in ActiveSpaces |-> <<>>]
    /\ sent_packets = [s \in ActiveSpaces |-> {}]
    /\ received = [s \in ActiveSpaces |-> {}]
    /\ preempted = FALSE

\* The acknowledgement state after on_packet_authenticated, which asks for an
\* immediate ACK outside the Data space.
Authenticated(s, pn, d) ==
    LET p == PacketReceived(pending[s], pn, d)
    IN  IF s = "Data" THEN p ELSE [p EXCEPT !.immediate = TRUE]

\* handle_first_packet: the server processes the Initial that creates the
\* connection without a call of Dedup::insert.
FirstPacket(pn) ==
    /\ ~started /\ "Initial" \in ActiveSpaces
    /\ started' = TRUE
    /\ pending' = [pending EXCEPT !["Initial"] =
                      Authenticated("Initial", pn, dedup["Initial"])]
    /\ received' = [received EXCEPT !["Initial"] = @ \cup {pn}]
    /\ UNCHANGED <<setup, handshake, dedup, max_ack_delay, sent, sent_packets,
                   preempted>>

\* handle_data drops the packet: it may be a duplicate, or it is a short packet
\* during the handshake, which the window has recorded by then.
DropPacket(s, pn) ==
    /\ started
    /\ Recorded(dedup[s], pn) \/ (handshake /\ s = "Data")
    /\ dedup' = [dedup EXCEPT ![s] = InsertPacket(@, pn)]
    /\ UNCHANGED <<setup, started, handshake, pending, max_ack_delay, sent,
                   sent_packets, received, preempted>>

\* A plausible slip: the timer is armed only when it is not needed.
ReceiveNoTimer(s, pn, imm, A) ==
    /\ started /\ ~Recorded(dedup[s], pn) /\ ~(handshake /\ s = "Data")
    /\ dedup' = [dedup EXCEPT ![s] = InsertPacket(@, pn)]
    /\ pending' = [pending EXCEPT ![s] =
                      [OnAckReceived(s, Authenticated(s, pn, dedup'[s]), A)
                          EXCEPT !.immediate = @ \/ imm]]
    /\ sent_packets' = [sent_packets EXCEPT ![s] = @ \ A]
    /\ received' = [received EXCEPT ![s] = @ \cup {pn}]
    /\ UNCHANGED <<setup, started, handshake, max_ack_delay, sent, preempted>>

\* handle_data for a packet that is processed: on_packet_authenticated, then
\* its frames, among them IMMEDIATE_ACK (imm) and an ACK of our packets A.
Receive(s, pn, imm, A) ==
    /\ started /\ ~Recorded(dedup[s], pn) /\ ~(handshake /\ s = "Data")
    /\ dedup' = [dedup EXCEPT ![s] = InsertPacket(@, pn)]
    /\ pending' = [pending EXCEPT ![s] =
                      [OnAckReceived(s, Authenticated(s, pn, dedup'[s]), A)
                          EXCEPT !.immediate = @ \/ imm]]
    /\ max_ack_delay' = (max_ack_delay
                            \/ (s = "Data" /\ ArmsTimer(pending[s], pn, dedup'[s])))
    /\ sent_packets' = [sent_packets EXCEPT ![s] = @ \ A]
    /\ received' = [received EXCEPT ![s] = @ \cup {pn}]
    /\ UNCHANGED <<setup, started, handshake, sent, preempted>>

\* The handshake completes (process_early_payload); only then do the peer's
\* Data packets get through.
HandshakeDone ==
    /\ started /\ handshake
    /\ handshake' = FALSE
    /\ UNCHANGED <<setup, started, dedup, pending, max_ack_delay, sent, sent_packets,
                   received, preempted>>

\* Timer::MaxAckDelay fires: on_ack_delay_timeout.
AckDelayTimeout ==
    /\ max_ack_delay
    /\ max_ack_delay' = FALSE
    /\ pending' = [s \in ActiveSpaces |->
                      IF s = "Data"
                      THEN [pending[s] EXCEPT !.immediate = pending[s].since > 0]
                      ELSE pending[s]]
    /\ UNCHANGED <<setup, started, handshake, dedup, sent, sent_packets, received,
                   preempted>>

\* Spaces in which poll_transmit composes a packet with an ACK frame: any packet
\* carries one while there are ranges.
Acking(other, blocked) ==
    {s \in ActiveSpaces :
        /\ CanSend(pending[s]) \/ s \in other
        /\ ~(s \in other /\ blocked)
        /\ pending[s].ranges # {}}

\* poll_transmit, once over the spaces.  The ACK timer is stopped whatever the
\* space that sent an ACK.
PollTransmit(other, blocked) ==
    LET acking == Acking(other, blocked)
    IN  /\ started
        /\ \A s \in acking : Len(sent[s]) < MaxSent
        /\ pending' = [s \in ActiveSpaces |->
                          IF s \in acking THEN AcksSent(pending[s]) ELSE pending[s]]
        /\ max_ack_delay' = (max_ack_delay /\ acking = {})
        /\ preempted' = ("Data" \notin acking
                            /\ (preempted \/ (max_ack_delay /\ acking # {})))
        /\ sent' = [s \in ActiveSpaces |->
                       IF s \in acking THEN Append(sent[s], Max(pending[s].ranges))
                                       ELSE sent[s]]
        /\ sent_packets' = [s \in ActiveSpaces |->
                               IF s \in acking
                               THEN sent_packets[s] \cup {Len(sent[s]) + 1}
                               ELSE sent_packets[s]]
        /\ UNCHANGED <<setup, started, handshake, dedup, received>>

\* detect_lost_packets gives up one of our packets; its ACK frame is not
\* retransmitted, the ranges are still there.
OurPacketLost(s, a) ==
    /\ a \in sent_packets[s]
    /\ sent_packets' = [sent_packets EXCEPT ![s] = @ \ {a}]
    /\ UNCHANGED <<setup, started, handshake, dedup, pending, max_ack_delay, sent,
                   received, preempted>>

Next ==
    \/ \E pn \in PacketNumbers : FirstPacket(pn)
    \/ \E s \in ActiveSpaces, pn \in PacketNumbers :
          \/ DropPacket(s, pn)
          \/ \E imm \in BOOLEAN, A \in SUBSET sent_packets[s] : Receive(s, pn, imm, A)
    \/ HandshakeDone
    \/ AckDelayTimeout
    \/ \E other \in SUBSET ActiveSpaces, blocked \in BOOLEAN : PollTransmit(other, blocked)
    \/ \E s \in ActiveSpaces : \E a \in sent_packets[s] : OurPacketLost(s, a)

Spec == Init /\ [][Next]_vars

\* run_connection polls for transmission in every turn of its loop and its
\* timers come before received datagrams.  That there is other data to send
\* is not assumed; a full congestion window, though, empties again, so that
\* some poll is not blocked.
FairSpec ==
    /\ Spec
    /\ WF_vars(AckDelayTimeout)
    /\ WF_vars(PollTransmit({}, FALSE))

-----------------------------------------------------------------------------

\* An ACK frame acknowledges only packets that were processed
\* (PendingAcks::ranges after insert_one, pop_min and subtract_below), and it
\* never has more than MAX_ACK_BLOCKS ranges, so that it fits its packet.
AcksOnlyReceived ==
    \A s \in ActiveSpaces :
        /\ pending[s].ranges \subseteq received[s]
        /\ Blocks(pending[s].ranges) <= MAX_ACK_BLOCKS

\* "When `immediate_ack_required` is false, the normal behavior is to send ACK
\* frames only when there is other data to send, or when the delayed ACK timeout
\* expires": while an ack-eliciting packet waits for its ACK, an immediate ACK
\* is required or the MaxAckDelay timer is armed.  The code does not keep to it:
\* the ACK of an early space stops the timer (poll_transmit).
AckScheduled ==
    \A s \in ActiveSpaces :
        pending[s].since > 0 => pending[s].immediate \/ (s = "Data" /\ max_ack_delay)

\* The ACK of the one packet received has no trigger left: an ACK of another
\* space has stopped the timer.
TimerTaken(s) == s = "Data" /\ preempted /\ pending[s].since = 1

\* What the code does keep to: that is the only way in which an owed ACK has
\* neither the flag nor the timer.  A second packet asks for an immediate ACK,
\* also after it (packet_received, acks_sent, on_ack_delay_timeout).
AckTriggered ==
    \A s \in ActiveSpaces :
        pending[s].since > 0 =>
            \/ pending[s].immediate
            \/ s = "Data" /\ pending[s].since = 1 /\ max_ack_delay
            \/ TimerTaken(s)

\* is_out_of_order against the history of arrivals: a packet that arrives below
\* a larger one, or above a hole that no ACK frame has reported yet, asks for an
\* immediate ACK in the step that processes it.  A hole is a number within
\* reach of the duplicate window that has not reached handle_data.
GapReportedAtOnce ==
    [][\A s \in ActiveSpaces : \A pn \in received'[s] \ received[s] :
          LET p == pending[s]
              Hole(m) == /\ m \notin received[s]
                         /\ ~Recorded(dedup[s], m)
                         /\ ~LeftOfWindow(dedup'[s], m)
          IN  (\/ \E q \in received[s] : q > pn
               \/ \E m \in p.largest_acked + 1 .. pn - 1 : Hole(m))
              => pending'[s].immediate]_vars

\* Packets of the space s wait for an acknowledgement.
Owed(s) == s \in ActiveSpaces /\ pending[s].since > 0 /\ pending[s].ranges # {}

\* An ACK that is owed is sent: packet_received, the MaxAckDelay timer and
\* poll_transmit between them get the counter of unacknowledged packets back to
\* zero, unless every range has been dropped in the meantime, or the ACK of
\* another space takes the timer away (or the bound on packets sent is used up).
OwedAckSent ==
    \A s \in SpaceIds :
        Owed(s) ~> \/ ~Owed(s)
                   \/ TimerTaken(s)
                   \/ \E t \in ActiveSpaces : Len(sent[t]) = MaxSent
=============================================================================
