----------------------------- MODULE SendStream -----------------------------
(***************************************************************************)
(* The sending half of one stream (stream/send.rs and the sending part of  *)
(* stream/state.rs): the application writes, finishes or resets it, STREAM *)
(* frames are cut from the send buffer to fill packets, and each packet is *)
(* then acknowledged or declared lost.  Bytes are named by their offsets;  *)
(* a RangeSet is the set of offsets in it.  One call of                    *)
(* write_stream_frames is StartPacket, a WriteFrame for each turn of its   *)
(* loop, and EndPacket; nothing else happens in between.                   *)
(***************************************************************************)
EXTENDS Integers, Sequences, FiniteSetsExt, SequencesExt

CONSTANTS
    WriteLens,       \* lengths of the application's writes
    MaxOffset,       \* bound: bytes written in all
    Rooms,           \* bytes a packet may have left for STREAM frames
    SIZE_BOUND,      \* Stream::SIZE_BOUND: room to start a frame with
    HeaderLen,       \* bytes of a frame's type and stream id
    OffsetLen,       \* bytes of its offset, when that is not 0
    LengthLen,       \* bytes of its length, when that is encoded
    LengthReserve,   \* bytes poll_transmit sets aside for the length
    MaxPackets,      \* bound: packets sent
    WritesAfterEnd,  \* the application may write to a stream that is done
    OverflowChecks   \* the build panics on overflow and debug assertions

ASSUME SendStreamAssumption ==
    /\ WriteLens \subseteq Nat /\ Rooms \subseteq Nat
    /\ {MaxOffset, SIZE_BOUND, HeaderLen, OffsetLen, LengthLen, LengthReserve,
        MaxPackets} \subseteq Nat
    /\ OffsetLen + LengthReserve < SIZE_BOUND  \* a frame has room for a byte
    /\ HeaderLen + OffsetLen + LengthLen <= SIZE_BOUND
    /\ WritesAfterEnd \in BOOLEAN /\ OverflowChecks \in BOOLEAN

VARIABLES
    send,        \* the entry of StreamsState.send, with its SendBuffer
    reset_stream,\* RESET_STREAM frames in the space's pending Retransmits
    packet,      \* the packet being written, or NoPacket
    inflight,    \* packets sent and neither acknowledged nor lost
    sent,        \* number of packets sent
    acked,       \* history: bytes of acknowledged frames of this entry
    fin_acked,   \* history: a frame with its FIN was acknowledged
    finals       \* history: final sizes announced by FIN and RESET_STREAM

vars == <<send, reset_stream, packet, inflight, sent, acked, fin_acked, finals>>

NoPacket == [open |-> FALSE]

\* Send::default, in the table or not.  base is offset - unacked_len.  queue: the
\* stream's entries in the PendingStreamsQueue.  ended: history, the stream was
\* removed from the table as finished.
NewSend(present) ==
    [present |-> present, state |-> "Ready", finish_acked |-> FALSE,
     fin_pending |-> FALSE, stopped |-> FALSE,
     segments |-> <<>>, base |-> 0, offset |-> 0, unsent |-> 0,
     acks |-> {}, retransmits |-> {},
     queue |-> 0, ended |-> FALSE, panicked |-> FALSE]

Bytes(f) == f.start .. f.end - 1

HasUnsentData(s) == s.unsent # s.offset \/ s.retransmits # {}

IsPending(s) == HasUnsentData(s) \/ s.fin_pending

Live(s) == s.present /\ s.state # "ResetSent"

\* What a write, a FIN or a lost frame does to the queue.
PushUnless(was_pending, s) == IF was_pending THEN s ELSE [s EXCEPT !.queue = @ + 1]

-----------------------------------------------------------------------------
(* SendBuffer *)

\* The first offset of segment i.
SegStart(s, i) == s.base + FoldSeq(LAMBDA x, y : x + y, 0, SubSeq(s.segments, 1, i - 1))

\* A plausible slip: the end of the segment is taken for its last byte.
CoveredPastEnd(s, i) ==
    SegStart(s, i) \in s.acks /\ SegStart(s, i) + s.segments[i] \in s.acks

\* SendBuffer::ack: both ends of segment i are acknowledged.
Covered(s, i) ==
    /\ SegStart(s, i) \in s.acks
    /\ SegStart(s, i) + s.segments[i] - 1 \in s.acks

\* The number of segments SendBuffer::ack frees.
Freed(s) == Min({Len(s.segments) + 1} \cup {i \in DOMAIN s.segments : ~Covered(s, i)}) - 1

\* seg_end - 1 underflows for an empty segment at offset 0.
EmptyAtZero(s) ==
    s.segments # <<>> /\ Head(s.segments) = 0 /\ s.base = 0 /\ 0 \in s.acks

\* SendBuffer::ack.
BufferAck(s, f) ==
    LET a       == [s EXCEPT !.acks = @ \cup Bytes(f)]
        n       == Freed(a)
        newBase == SegStart(a, n + 1)
    IN  IF OverflowChecks /\ EmptyAtZero(a)
        THEN [a EXCEPT !.panicked = TRUE]
        ELSE [a EXCEPT !.segments = SubSeq(@, n + 1, Len(@)),
                       !.base = newBase,
                       !.acks = @ \ (a.base .. newBase - 1)]

\* RangeSet::pop_min: the first maximal run of offsets.
PopMin(S) ==
    LET first == Min(S)
    IN  [start |-> first,
         end   |-> Min({x \in first + 1 .. Max(S) + 1 : x \notin S})]

\* SendBuffer::poll_transmit: the range taken from what is to be retransmitted, or
\* else from what was never sent, and whether its length is encoded.
PollRange(s, max_len) ==
    LET r  == IF s.retransmits # {} THEN PopMin(s.retransmits)
              ELSE [start |-> s.unsent, end |-> s.offset]
        m  == IF r.start = 0 THEN max_len ELSE max_len - OffsetLen
        encode_length == r.end - r.start < m
        room == IF encode_length THEN m - LengthReserve ELSE m
    IN  [start |-> r.start, end |-> Min({r.end, r.start + room}),
         encode_length |-> encode_length]

\* A plausible slip: the part of a lost range that does not fit is forgotten.
PolledDropsRest(s, r) ==
    IF s.retransmits # {}
    THEN [s EXCEPT !.retransmits = @ \ Bytes(PopMin(s.retransmits))]
    ELSE [s EXCEPT !.unsent = r.end]

\* The send buffer once poll_transmit has given the range r.
Polled(s, r) ==
    IF s.retransmits # {} THEN [s EXCEPT !.retransmits = @ \ Bytes(r)]
                          ELSE [s EXCEPT !.unsent = r.end]

\* SendBuffer::get: the part of the range in the segment it starts in; nothing of
\* a range below the buffer (start wraps around).
DataLen(s, r) ==
    LET ends == {SegStart(s, i + 1) : i \in DOMAIN s.segments}
    IN  IF r.start = r.end \/ r.start < s.base \/ \A e \in ends : e <= r.start THEN 0
        ELSE Min({r.end - r.start, Min({e \in ends : e > r.start}) - r.start})

-----------------------------------------------------------------------------
(* The application *)

\* The peer's bidirectional stream has no entry until the first write.
Init ==
    /\ \E present \in BOOLEAN : send = NewSend(present)
    /\ reset_stream = 0 /\ packet = NoPacket /\ inflight = {} /\ sent = 0
    /\ acked = {} /\ fin_acked = FALSE /\ finals = {}

Idle == ~packet.open /\ ~send.panicked

\* SendStream::write; it makes the entry when there is none.
Write(len) ==
    LET s == IF send.present THEN send
             ELSE [NewSend(TRUE) EXCEPT !.queue = send.queue, !.ended = send.ended]
    IN  /\ Idle
        /\ s.state = "Ready" /\ ~s.stopped
        /\ s.offset + len <= MaxOffset
        /\ send.ended => WritesAfterEnd
        /\ send' = PushUnless(IsPending(s),
                              [s EXCEPT !.segments = Append(@, len),
                                        !.offset = @ + len])
        /\ acked' = IF send.present THEN acked ELSE {}
        /\ fin_acked' = (fin_acked /\ send.present)
        /\ UNCHANGED <<reset_stream, packet, inflight, sent, finals>>

\* SendStream::finish.
Finish ==
    /\ Idle /\ send.present /\ ~send.stopped /\ send.state = "Ready"
    /\ send' = PushUnless(IsPending(send),
                          [send EXCEPT !.state = "DataSent", !.fin_pending = TRUE])
    /\ UNCHANGED <<reset_stream, packet, inflight, sent, acked, fin_acked, finals>>

\* SendStream::reset.
Reset ==
    /\ Idle /\ Live(send)
    /\ send' = [send EXCEPT !.state = "ResetSent"]
    /\ reset_stream' = reset_stream + 1
    /\ UNCHANGED <<packet, inflight, sent, acked, fin_acked, finals>>

\* StreamsState::received_stop_sending.
StopSending ==
    /\ Idle /\ send.present /\ ~send.stopped
    /\ send' = [send EXCEPT !.stopped = TRUE]
    /\ UNCHANGED <<reset_stream, packet, inflight, sent, acked, fin_acked, finals>>

-----------------------------------------------------------------------------
(* Writing a packet *)

\* space_can_send: RESET_STREAM frames, or can_send_stream_data.
CanSend == reset_stream > 0 \/ (send.queue > 0 /\ Live(send))

\* write_control_frames, and the start of write_stream_frames.
StartPacket(room) ==
    /\ Idle /\ CanSend /\ sent < MaxPackets
    /\ packet' = [open |-> TRUE, room |-> room, frames |-> <<>>,
                  resets |-> IF send.present THEN reset_stream ELSE 0]
    /\ finals' = IF send.present /\ reset_stream > 0
                 THEN finals \cup {send.offset} ELSE finals
    /\ reset_stream' = 0
    /\ UNCHANGED <<send, inflight, sent, acked, fin_acked>>

\* A plausible slip: the FIN goes with whatever range is sent next.
FinWithAny(s, r) == s.fin_pending

\* The frame carries the FIN.
FinWith(s, r) == s.fin_pending /\ r.end = s.offset

\* A turn of write_stream_frames: an entry of the queue that has nothing to send.
SkipEntry ==
    /\ packet.open /\ ~send.panicked /\ packet.room >= SIZE_BOUND /\ send.queue > 0
    /\ ~Live(send) \/ ~IsPending(send)
    /\ send' = [send EXCEPT !.queue = @ - 1]
    /\ UNCHANGED <<reset_stream, packet, inflight, sent, acked, fin_acked, finals>>

\* A turn of write_stream_frames that writes a frame, or panics: get underflows
\* below the buffer, or put_slice has no room for the data.
WriteFrame ==
    LET r    == PollRange(send, packet.room)
        fin  == FinWith(send, r)
        s    == [Polled(send, r) EXCEPT !.fin_pending = @ /\ ~fin]
        data == DataLen(s, r)
        size == HeaderLen + (IF r.start = 0 THEN 0 ELSE OffsetLen)
                   + (IF r.encode_length THEN LengthLen ELSE 0) + data
        f    == [start |-> r.start, end |-> r.end, fin |-> fin, len |-> data]
    IN  /\ packet.open /\ ~send.panicked /\ packet.room >= SIZE_BOUND /\ send.queue > 0
        /\ Live(send) /\ IsPending(send)
        /\ IF \/ OverflowChecks /\ r.start < r.end /\ r.start < s.base
              \/ size > packet.room
           THEN /\ send' = [s EXCEPT !.panicked = TRUE]
                /\ UNCHANGED packet
           ELSE /\ send' = [s EXCEPT !.queue = IF IsPending(s) THEN @ ELSE @ - 1]
                /\ packet' = [packet EXCEPT !.room = @ - size, !.frames = Append(@, f)]
        /\ finals' = IF fin THEN finals \cup {r.end} ELSE finals
        /\ UNCHANGED <<reset_stream, inflight, sent, acked, fin_acked>>

\* The loop is over and the packet goes out.
EndPacket ==
    /\ packet.open /\ ~send.panicked
    /\ packet.room < SIZE_BOUND \/ send.queue = 0
    /\ inflight' = inflight \cup {[number |-> sent, frames |-> packet.frames,
                                   resets |-> packet.resets]}
    /\ sent' = sent + 1
    /\ packet' = NoPacket
    /\ UNCHANGED <<send, reset_stream, acked, fin_acked, finals>>

-----------------------------------------------------------------------------
(* The fate of a packet *)

\* Send::ack: the stream was finished and all of it is acknowledged.
Complete(s) == s.state = "DataSent" /\ s.finish_acked /\ s.base = s.offset

\* A plausible slip: whether the FIN was acknowledged is not remembered.
ReceivedAckOfForgets(s, f) ==
    LET b == BufferAck(s, f)
        a == [b EXCEPT !.finish_acked = s.state = "DataSent" /\ f.fin]
    IN  IF ~Live(s) \/ s.panicked THEN s
        ELSE IF Complete(a) THEN [a EXCEPT !.present = FALSE, !.ended = TRUE]
        ELSE a

\* StreamsState::received_ack_of.
ReceivedAckOf(s, f) ==
    LET b == BufferAck(s, f)
        a == [b EXCEPT !.finish_acked = @ \/ (s.state = "DataSent" /\ f.fin)]
    IN  IF ~Live(s) \/ s.panicked THEN s
        ELSE IF Complete(a) THEN [a EXCEPT !.present = FALSE, !.ended = TRUE]
        ELSE a

\* on_ack_received for the frames of a packet.
Acked(p) ==
    /\ Idle /\ p \in inflight
    /\ inflight' = inflight \ {p}
    /\ send' = FoldLeft(ReceivedAckOf, send, p.frames)
    /\ acked' = acked \cup UNION {Bytes(f) : f \in ToSet(p.frames)}
    /\ fin_acked' = (fin_acked \/ \E f \in ToSet(p.frames) : f.fin)
    /\ UNCHANGED <<reset_stream, packet, sent, finals>>

\* A plausible slip: the stream is not queued for its lost data.
RetransmitUnqueued(s, f) ==
    IF ~Live(s) THEN s ELSE [s EXCEPT !.retransmits = @ \cup Bytes(f)]

\* StreamsState::retransmit.
Retransmit(s, f) ==
    IF ~Live(s) \/ s.panicked THEN s
    ELSE PushUnless(IsPending(s),
                    [s EXCEPT !.retransmits = @ \cup Bytes(f),
                              !.panicked = OverflowChecks /\ f.end > s.unsent])

\* detect_lost_packets for the frames of a packet.
Lost(p) ==
    /\ Idle /\ p \in inflight
    /\ inflight' = inflight \ {p}
    /\ send' = FoldLeft(Retransmit, send, p.frames)
    /\ reset_stream' = reset_stream + p.resets
    /\ UNCHANGED <<packet, sent, acked, fin_acked, finals>>

Next ==
    \/ \E len \in WriteLens : Write(len)
    \/ Finish
    \/ Reset
    \/ StopSending
    \/ \E room \in Rooms : StartPacket(room)
    \/ SkipEntry
    \/ WriteFrame
    \/ EndPacket
    \/ \E p \in inflight : Acked(p)
    \/ \E p \in inflight : Lost(p)

Spec == Init /\ [][Next]_vars

-----------------------------------------------------------------------------

FramesOut ==
    (IF packet.open THEN {<<sent, i>> : i \in DOMAIN packet.frames} ELSE {})
       \cup UNION {{<<p.number, i>> : i \in DOMAIN p.frames} : p \in inflight}

FrameAt(k) ==
    IF packet.open /\ k[1] = sent THEN packet.frames[k[2]]
    ELSE (CHOOSE p \in inflight : p.number = k[1]).frames[k[2]]

\* A byte the application wrote and the peer has not acknowledged is in one place
\* only: not sent yet, queued for retransmission, or in one packet under way
\* (poll_transmit, retransmit and the splitting of ranges lose and double nothing).
WrittenAccounted ==
    (Live(send) /\ ~send.panicked) => \A b \in send.base .. send.offset - 1 :
        1 = (IF b \in send.acks THEN 1 ELSE 0)
            + (IF b >= send.unsent THEN 1 ELSE 0)
            + (IF b \in send.retransmits THEN 1 ELSE 0)
            + Cardinality({k \in FramesOut : b \in Bytes(FrameAt(k))})

\* A stream with data or a FIN to send is in the queue of pending streams, so that
\* the next poll finds it (the was_pending tests).
QueuedWhilePending == (Idle /\ Live(send) /\ IsPending(send)) => send.queue > 0

\* FIN and RESET_STREAM announce one final size, however often they are sent, and
\* no frame reaches beyond it.
FinalSizesAgree ==
    /\ Cardinality(finals) <= 1
    /\ \A k \in FramesOut, final \in finals : FrameAt(k).end <= final

\* "If both seg_start and (seg_end - 1) are acked, the whole segment is
\* covered": the buffer lets go of a byte only once it was acknowledged.  The code
\* does not keep to it: SendBuffer::ack does not look at the bytes in between.
FreedIsAcked == 0 .. send.base - 1 \subseteq acked

\* "Drain segments from the front that are fully covered by acks": once all that
\* was written is acknowledged, the buffer has let go of it (segments that are
\* not empty: SendBuffer::ack never finds an empty one covered).
AllAckedDrained ==
    (Live(send) /\ ~send.panicked /\ 0 .. send.offset - 1 \subseteq acked)
        => send.base = send.offset

\* In whatever order the packets of a finished stream are acknowledged, the
\* acknowledgement of the last one reports it Finished and removes its entry
\* (Send::ack, received_ack_of), also when the FIN was acknowledged before the
\* data, and with pieces that were sent several times.
FinishReported ==
    (send.present /\ send.state = "DataSent" /\ ~send.panicked)
        => ~(fin_acked /\ 0 .. send.offset - 1 \subseteq acked)
=============================================================================
