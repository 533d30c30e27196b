------------------------------ MODULE AckPath ------------------------------
(***************************************************************************)
(* Packet numbers on their way from a sender to a receiver and back as     *)
(* acknowledgements, in one packet-number space: the sender truncates the  *)
(* numbers, the network loses, repeats and reorders the packets, the       *)
(* receiver expands the numbers, filters duplicates (Dedup), keeps the     *)
(* ranges it has received and reports them in ACK frames, which the        *)
(* network may also lose and reorder, and the sender takes the packets     *)
(* they name off its list (core/src/connection/mod.rs and space.rs).       *)
(***************************************************************************)
EXTENDS Dedup, PacketNumbers, BTreeRangeSet, AckFrame

CONSTANTS
    FirstNumbers,     \* numbers of the first packet that is followed
    MaxSent,          \* bound: packets the sender sends from there on
    MaxAcks,          \* bound: ACK frames in the network at once
    MAX_ACK_BLOCKS    \* ranges a receiver keeps: 64 in the code

VARIABLES
    next_packet_number,    \* the sender's PacketSpace.next_packet_number
    largest_acked_packet,  \* the sender's PacketSpace.largest_acked_packet; -1 for None
    sent_packets,          \* the numbers of the sender's PacketSpace.sent_packets
    closed,                \* why on_ack_received gave up: "no" while it has not
    wire,                  \* packets that can arrive, any number of times
    rx_packet,             \* the receiver's PacketSpace.rx_packet
    ranges,                \* the receiver's PendingAcks.ranges
    acks,                  \* ACK frames in the network
    reports                \* largest_acked of the receiver's packets the sender has got

senderVars == <<next_packet_number, largest_acked_packet, sent_packets, closed>>
receiverVars == <<rx_packet, ranges>>
pathVars == <<vars, senderVars, receiverVars, wire, acks, reports>>

\* The beginning, or a moment when every packet so far has been received in
\* order, reported and the reports acknowledged.
PathInit ==
    /\ next_packet_number \in FirstNumbers
    /\ dedup = [window |-> 0 .. Min({WindowBits, next_packet_number - 1}) - 1,
                next   |-> next_packet_number]
    /\ admitted = 0 .. next_packet_number - 1
    /\ largest_acked_packet = next_packet_number - 1
    /\ sent_packets = {}
    /\ closed = "no"
    /\ wire = {}
    /\ rx_packet = Max({next_packet_number - 1, 0})
    /\ ranges = <<>>
    /\ acks = {}
    /\ reports = {}

\* poll_transmit numbers a packet: the next number, truncated for a receiver
\* that has at least the largest acknowledged one.
SendPacket ==
    /\ closed = "no"
    /\ Cardinality(wire) < MaxSent
    /\ LET number == NewNumber(next_packet_number, Max({largest_acked_packet, 0}))
       IN  wire' = wire \cup {[pn |-> next_packet_number, number |-> number]}
    /\ sent_packets' = sent_packets \cup {next_packet_number}
    /\ next_packet_number' = next_packet_number + 1
    /\ UNCHANGED <<vars, receiverVars, largest_acked_packet, closed, acks, reports>>

\* The packet comes so late that its number reads as one of a later window.
TooLate(p) == p.pn + HalfWindow(p.number) <= rx_packet + 1

\* PendingAcks::insert_one.
InsertPending(rs, pn) ==
    LET inserted == InsertOne(rs, pn)
    IN  IF Len(inserted) > MAX_ACK_BLOCKS THEN PopMin(inserted) ELSE inserted

\* handle_data: the number is expanded and recorded; a fresh one is noted for
\* the next ACK and may move rx_packet (on_packet_authenticated).  Of the
\* network it is assumed that no packet comes half a window late.
ReceivePacket(p) ==
    LET number == Expand(p.number, rx_packet + 1)
    IN  /\ ~TooLate(p)
        /\ \/ /\ Discard(number)
              /\ UNCHANGED receiverVars
           \/ /\ Admit(number)
              /\ ranges' = InsertPending(ranges, number)
              /\ rx_packet' = Max({rx_packet, number})
        /\ UNCHANGED <<senderVars, wire, acks, reports>>

\* poll_transmit adds an ACK frame with all the ranges to a packet.
SendAck ==
    /\ ranges # <<>>
    /\ Cardinality(acks) < MaxAcks
    /\ acks' = acks \cup {Encode(ranges)}
    /\ UNCHANGED <<vars, senderVars, receiverVars, wire, reports>>

\* The network drops an ACK frame.
LoseAck(ack) ==
    /\ acks' = acks \ {ack}
    /\ UNCHANGED <<vars, senderVars, receiverVars, wire, reports>>

\* What on_ack_received, after the parser, makes of a frame.
Verdict(ack) ==
    IF ~WellFormed(ack) THEN "malformed"
    ELSE IF ack.largest >= next_packet_number THEN "unsent"
    ELSE IF ack.largest < largest_acked_packet THEN "regressed"
    ELSE "no"

\* A plausible slip: the packets from the lowest reported to the largest are
\* all taken.
TakenToLargest(ack) ==
    LET all == AckRanges(ack)
    IN  sent_packets \cap (all[Len(all)].start .. ack.largest)

\* The packets still tracked that the ranges of a frame name.
Taken(ack) == sent_packets \cap Elts(AckRanges(ack))

\* on_ack_received.
ReceiveAck(ack) ==
    /\ closed = "no"
    /\ acks' = acks \ {ack}
    /\ closed' = Verdict(ack)
    /\ IF closed' # "no"
       THEN UNCHANGED <<largest_acked_packet, sent_packets, reports>>
       ELSE /\ sent_packets' = sent_packets \ Taken(ack)
            /\ largest_acked_packet' = IF Taken(ack) = {} THEN largest_acked_packet
                                       ELSE Max({largest_acked_packet, ack.largest})
            /\ reports' = reports \cup {ack.largest}
    /\ UNCHANGED <<vars, receiverVars, next_packet_number, wire>>

\* The sender's acknowledgement of a packet that carried a report reaches the
\* receiver, which forgets what it reported (subtract_below).
ReportAcked(largest) ==
    /\ closed = "no"
    /\ reports' = reports \ {largest}
    /\ ranges' = ArrayRemove(ranges, Span(0, largest + 2))
    /\ UNCHANGED <<vars, senderVars, rx_packet, wire, acks>>

PathNext ==
    \/ SendPacket
    \/ \E p \in wire : ReceivePacket(p)
    \/ SendAck
    \/ \E ack \in acks : LoseAck(ack)
    \/ \E ack \in acks : ReceiveAck(ack)
    \/ \E largest \in reports : ReportAcked(largest)

PathSpec == PathInit /\ [][PathNext]_pathVars

-----------------------------------------------------------------------------

\* A packet that is not half a window late is read with the number it was sent
\* with, whatever was lost, repeated and reordered before it: the sender
\* truncates against the largest acknowledged number, which the receiver has
\* certainly received (PacketNumber::new, PacketNumber::expand).
DecodedIsSent ==
    \A p \in wire : ~TooLate(p) => Expand(p.number, rx_packet + 1) = p.pn

\* The sender never takes a packet as delivered that the receiver has not let
\* through, and never finds an ACK frame malformed or naming a packet it has
\* not sent: through truncation, the ranges and their limit, the frame and its
\* parser.  An older ACK after a newer one does make on_ack_received fail.
AckedWasReceived ==
    /\ (0 .. next_packet_number - 1) \ sent_packets \subseteq admitted
    /\ closed \in {"no", "regressed"}

\* The numbers on their way and their neighbours, and the ranges between two
\* of them.
Near == {pn \in PacketNumbers :
            pn >= next_packet_number - Cardinality(wire) - 1 /\ pn <= next_packet_number + 1}
Spans == {x \in [start : Near, end : Near] : ~IsEmptySpan(x)}

\* The numbers in the ranges of rs, in ascending order, apart and not empty.
Apart(rs) ==
    /\ \A i \in DOMAIN rs : rs[i].start < rs[i].end
    /\ \A i \in 1 .. Len(rs) - 1 : rs[i].end < rs[i + 1].start

\* Both range sets are exact sets of numbers: from what the receiver holds at
\* any time, insert adds and remove takes away precisely the numbers of a
\* range, replace gives precisely the numbers that were there already, and the
\* ranges stay in order, apart and merged (ArrayRangeSet, RangeSet).  It is
\* evaluated when no ACK frame is on its way: LoseAck leads there from every
\* state with the same ranges.
RangeSetsExact ==
    acks = {} =>
    LET numbers == Elts(ranges)
        tree == [s \in {r.start : r \in ToSet(ranges)} |->
                    (CHOOSE r \in ToSet(ranges) : r.start = s).end]
        IsArray(rs, S) == Apart(rs) /\ Elts(rs) = S
        IsMap(map, S) ==
            /\ MapElts(map) = S
            /\ \A s \in DOMAIN map : s \in S /\ s - 1 \notin S /\ map[s] \notin S
    IN  /\ Apart(ranges)
        /\ \A x \in Spans :
              LET replaced == MapReplace(tree, x)
              IN  /\ IsArray(ArrayInsert(ranges, x), numbers \cup Members(x))
                  /\ IsArray(ArrayRemove(ranges, x), numbers \ Members(x))
                  /\ IsMap(MapInsert(tree, x), numbers \cup Members(x))
                  /\ IsMap(MapRemove(tree, x), numbers \ Members(x))
                  /\ IsMap(replaced.map, numbers \cup Members(x))
                  /\ Elts(replaced.overlaps) = numbers \cap Members(x)
        /\ \A x \in Near :
              /\ ArrayContains(ranges, x) <=> x \in numbers
              /\ MapContains(tree, x) <=> x \in numbers
              /\ IsMap(MapInsertOne(tree, x), numbers \cup {x})

\* The frame is read as it was written: the parser accepts what Ack::encode
\* made of the ranges and AckIter gives the same ranges, from the highest down.
AckFrameExact ==
    ranges # <<>> =>
        /\ WellFormed(Encode(ranges))
        /\ AckRanges(Encode(ranges)) = Reverse(ranges)
=============================================================================
