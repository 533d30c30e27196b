----------------------------- MODULE Connection -----------------------------
(***************************************************************************)
(* A connection as its application and the peer see it: the state machine  *)
(* Handshake - Established - Closed - Drained, the queue of events, the    *)
(* tables of sending and receiving streams, and what every call of the     *)
(* application and every frame of the peer does to them.  A connection is  *)
(* a record, and an operation is an operator from connections to           *)
(* connections.                                                            *)
(*                                                                         *)
(* Streams are counted in units, and a frame carries one.  One write is    *)
(* one unit when a frame holds it and leaves eight bytes of the packet     *)
(* free, two when it reaches into these eight bytes, and three when it is  *)
(* as long as the room in the packet, or longer: these are the cases of    *)
(* SendBuffer::poll_transmit.  Offsets in bytes, retransmission and        *)
(* acknowledgement ranges are in SendStream and RecvStream; packet         *)
(* numbers, loss and congestion in AckPath, LossRecovery and Congestion.   *)
(***************************************************************************)
EXTENDS Integers, Sequences, SequencesExt, FiniteSetsExt, Functions, TLC

NoCode == "none"
NoSize == -1

\* StreamId: the two low bits hold the initiator and the direction.
StreamId(side, dir, index) ==
    4 * index + (IF dir = "Uni" THEN 2 ELSE 0) + (IF side = "server" THEN 1 ELSE 0)

Initiator(id) == IF id % 2 = 1 THEN "server" ELSE "client"
Dir(id) == IF (id \div 2) % 2 = 1 THEN "Uni" ELSE "Bi"
Index(id) == id \div 4

Connected == [type |-> "Connected"]
ConnectionLost == [type |-> "ConnectionLost"]
Readable(id) == [type |-> "Readable", id |-> id]
Finished(id) == [type |-> "Finished", id |-> id]
Stopped(id, code) == [type |-> "Stopped", id |-> id, code |-> code]

Crypto == [type |-> "Crypto"]
Ack == [type |-> "Ack"]
\* whole: the frame has all the data that its length announces.
StreamFrame(id, offset, len, fin, whole) ==
    [type |-> "Stream", id |-> id, offset |-> offset, len |-> len, fin |-> fin, whole |-> whole]
ResetStream(id, code, final_offset) ==
    [type |-> "ResetStream", id |-> id, code |-> code, final_offset |-> final_offset]
StopSending(id, code) == [type |-> "StopSending", id |-> id, code |-> code]

\* segments: the lengths of the writes that were not sent yet.
NewSend == [state |-> "Ready", stop_reason |-> NoCode, offset |-> 0, segments |-> <<>>,
            fin_pending |-> FALSE]

NewRecv == [units |-> {}, bytes_read |-> 0, end |-> 0, size |-> NoSize, reset |-> NoCode,
            stopped |-> FALSE]

\* Connection::new; app is what the program's handler keeps between two events.
\* The client kicks the handshake off.
NewConnection(side, app) ==
    [side |-> side, state |-> "Handshake", hi |-> FALSE, hello |-> side = "client",
     pending_close |-> FALSE, close_timer |-> FALSE, events |-> <<>>,
     next |-> [dir \in {"Bi", "Uni"} |-> 0], send |-> << >>, recv |-> << >>,
     reset_stream |-> {}, stop_sending |-> {}, app |-> app, panicked |-> "no"]

IsClosed(c) == c.state \in {"Closed", "Drained"}

Emit(c, event) == [c EXCEPT !.events = Append(@, event)]

PutSend(c, id, s) == [c EXCEPT !.send = (id :> s) @@ @]
PutRecv(c, id, r) == [c EXCEPT !.recv = (id :> r) @@ @]
DropSend(c, id) == [c EXCEPT !.send = Restrict(@, DOMAIN @ \ {id})]
DropRecv(c, id) == [c EXCEPT !.recv = Restrict(@, DOMAIN @ \ {id})]

\* The connection's task ends where an unwrap, an assertion or an index of the handler fails.
Panic(c) == [c EXCEPT !.panicked = "handler"]
Unwrap(ok, c) == IF ok THEN c ELSE Panic(c)

-----------------------------------------------------------------------------
(* What the application calls *)

CanOpen(c) == ~IsClosed(c)

OpenId(c, dir) == StreamId(c.side, dir, c.next[dir])

Open(c, dir) ==
    LET id == OpenId(c, dir)
        opened == PutSend([c EXCEPT !.next[dir] = @ + 1], id, NewSend)
    IN  IF dir = "Bi" THEN PutRecv(opened, id, NewRecv) ELSE opened

SendOf(c, id) == IF id \in DOMAIN c.send THEN c.send[id] ELSE NewSend

CanWrite(c, id) ==
    /\ ~IsClosed(c)
    /\ SendOf(c, id).state = "Ready"
    /\ SendOf(c, id).stop_reason = NoCode

Total(segments) == FoldSeq(+, 0, segments)

\* SendStream::write, once for each of the segments.  On an open connection the entry is
\* made when there is none, whether or not the write is accepted.
Write(c, id, segments) ==
    LET s == SendOf(c, id)
    IN  IF IsClosed(c) THEN c
        ELSE PutSend(c, id, IF CanWrite(c, id)
                            THEN [s EXCEPT !.offset = @ + Total(segments), !.segments = @ \o segments]
                            ELSE s)

CanFinish(c, id) ==
    /\ id \in DOMAIN c.send
    /\ c.send[id].stop_reason = NoCode
    /\ c.send[id].state = "Ready"

Finish(c, id) ==
    IF CanFinish(c, id)
    THEN [c EXCEPT !.send[id].state = "DataSent", !.send[id].fin_pending = TRUE]
    ELSE c

Reset(c, id, code) ==
    IF id \in DOMAIN c.send /\ c.send[id].state # "ResetSent"
    THEN [c EXCEPT !.send[id].state = "ResetSent", !.reset_stream = @ \cup {<<id, code>>}]
    ELSE c

CanStop(c, id) == id \in DOMAIN c.recv /\ ~c.recv[id].stopped

\* The entry stays until the final size is known.
Stop(c, id, code) ==
    LET r == c.recv[id]
        asked == IF r.reset = NoCode THEN [c EXCEPT !.stop_sending = @ \cup {<<id, code>>}] ELSE c
    IN  IF ~CanStop(c, id) THEN c
        ELSE IF r.size # NoSize THEN DropRecv(asked, id)
        ELSE [asked EXCEPT !.recv[id].stopped = TRUE, !.recv[id].units = {}]

CanRead(c, id) == CanStop(c, id)

\* What the next calls of Chunks::next give: the units that follow what was read.
Ready(c, id) ==
    LET r == c.recv[id]
    IN  {u \in r.units : u >= r.bytes_read /\ r.bytes_read .. u \subseteq r.units}

\* What they give after n units: more of them, Reset, None or Blocked.
After(c, id, n) ==
    LET r == c.recv[id]
    IN  IF n < Cardinality(Ready(c, id)) THEN "Unit"
        ELSE IF r.reset # NoCode THEN "Reset"
        ELSE IF r.size = r.end /\ r.bytes_read + n = r.end THEN "None"
        ELSE "Blocked"

\* The reader takes n units, and asks once more when asked.  The entry is put back
\* by the drop of Chunks unless the reader was told of the end or of the reset.
Take(c, id, n, asked) ==
    IF asked /\ After(c, id, n) \in {"Reset", "None"}
    THEN DropRecv(c, id)
    ELSE [c EXCEPT !.recv[id].bytes_read = @ + n]

CloseCommon(c) == [c EXCEPT !.close_timer = FALSE]
SetCloseTimer(c) == [c EXCEPT !.close_timer = TRUE]

\* Mutant of Close: the timers are stopped after the close timer is set.
CloseStopsLast(c) ==
    IF IsClosed(c) THEN c
    ELSE [CloseCommon(SetCloseTimer(c)) EXCEPT !.pending_close = TRUE, !.state = "Closed"]

Close(c) ==
    IF IsClosed(c) THEN c
    ELSE [SetCloseTimer(CloseCommon(c)) EXCEPT !.pending_close = TRUE, !.state = "Closed"]

-----------------------------------------------------------------------------
(* What the peer's packets do *)

\* StreamsState::received.  A frame for a stream of the peer that is not in the
\* table makes an entry only when it starts the stream and does not end it.
Unknown(c, f) ==
    /\ f.id \notin DOMAIN c.recv
    /\ Initiator(f.id) = c.side \/ f.offset > 0 \/ f.fin

Ingest(r, f) ==
    [r EXCEPT !.size = IF f.fin /\ ~r.stopped THEN f.offset + f.len ELSE @,
              !.end = Max({@, f.offset + f.len}),
              !.units = IF r.stopped THEN @ ELSE @ \cup f.offset .. (f.offset + f.len - 1)]

RecvOf(c, id) == IF id \in DOMAIN c.recv THEN c.recv[id] ELSE NewRecv


Received(c, f) ==
    LET r == RecvOf(c, f.id)
        kept == PutRecv(c, f.id, Ingest(r, f))
    IN  IF Unknown(c, f) \/ r.reset # NoCode THEN c
        ELSE IF r.stopped THEN IF f.fin THEN DropRecv(kept, f.id) ELSE kept
        ELSE IF f.offset + f.len > r.end \/ (f.fin /\ r.size = NoSize) THEN Emit(kept, Readable(f.id))
        ELSE kept

\* A RESET_STREAM makes the entry when there is none.
ReceivedReset(c, f) ==
    LET r == RecvOf(c, f.id)
    IN  IF r.reset # NoCode THEN c
        ELSE IF r.stopped THEN DropRecv(c, f.id)
        ELSE Emit(PutRecv(c, f.id, [r EXCEPT !.reset = f.code, !.size = f.final_offset,
                                             !.units = {}]),
                  Readable(f.id))

\* The application is told unless it was told before.
ReceivedStopSending(c, f) ==
    IF f.id \notin DOMAIN c.send THEN Emit(c, Stopped(f.id, f.code))
    ELSE IF c.send[f.id].stop_reason # NoCode THEN c
    ELSE Emit([c EXCEPT !.send[f.id].stop_reason = f.code], Stopped(f.id, f.code))

\* Mutant of ReceivedCrypto: every CRYPTO frame reports a connection.
CryptoAlwaysConnects(c) ==
    Emit([c EXCEPT !.hi = TRUE, !.hello = @ \/ ~c.hi, !.state = "Established"], Connected)

ReceivedCrypto(c) ==
    LET heard == [c EXCEPT !.hi = TRUE, !.hello = @ \/ ~c.hi]
    IN  IF c.state = "Handshake" THEN Emit([heard EXCEPT !.state = "Established"], Connected)
        ELSE heard

\* A frame that cannot be parsed, and the checks of validate_receive_id,
\* received_stop_sending, ingest and reset.
Violates(c, f) ==
    \/ f.type = "Stream" /\ ~f.whole
    \/ /\ f.type \in {"Stream", "ResetStream"}
       /\ Initiator(f.id) = c.side
       /\ Dir(f.id) = "Uni" \/ Index(f.id) >= c.next["Bi"]
    \/ /\ f.type = "StopSending"
       /\ IF Initiator(f.id) = c.side THEN Index(f.id) >= c.next[Dir(f.id)] ELSE Dir(f.id) = "Uni"
    \/ /\ f.type = "Stream"
       /\ ~Unknown(c, f)
       /\ RecvOf(c, f.id).reset = NoCode
       /\ RecvOf(c, f.id).size # NoSize
       /\ \/ f.offset + f.len > RecvOf(c, f.id).size
          \/ f.fin /\ f.offset + f.len # RecvOf(c, f.id).size
    \/ /\ f.type = "ResetStream"
       /\ IF RecvOf(c, f.id).size # NoSize THEN RecvOf(c, f.id).size # f.final_offset
          ELSE RecvOf(c, f.id).end > f.final_offset

ProcessFrame(c, f) ==
    CASE f.type = "Crypto" -> ReceivedCrypto(c)
      [] f.type = "Stream" -> Received(c, f)
      [] f.type = "ResetStream" -> ReceivedReset(c, f)
      [] f.type = "StopSending" -> ReceivedStopSending(c, f)
      [] OTHER -> c

\* An error is reported and closes the connection; nothing will be sent.
Fail(c) ==
    IF IsClosed(c) THEN Emit(c, ConnectionLost)
    ELSE SetCloseTimer(CloseCommon([Emit(c, ConnectionLost) EXCEPT !.state = "Closed"]))

\* process_early_payload and process_payload: the frames before the first illegal
\* one take effect.  A packet without frames is illegal.
RECURSIVE ProcessFrames(_, _)
ProcessFrames(c, frames) ==
    IF frames = <<>> THEN c
    ELSE IF Violates(c, Head(frames)) THEN Fail(c)
    ELSE ProcessFrames(ProcessFrame(c, Head(frames)), Tail(frames))

HandleData(c, packet) ==
    IF packet.space = "Data" /\ c.state = "Handshake" THEN c
    ELSE IF packet.frames = <<>> THEN Fail(c)
    ELSE ProcessFrames(c, packet.frames)

\* All of a finished stream has been sent.  received_ack_of ignores a stream that was reset.
HasFinished(c, id) ==
    /\ id \in DOMAIN c.send
    /\ c.send[id].state = "DataSent"
    /\ ~c.send[id].fin_pending
    /\ c.send[id].segments = <<>>

\* Every frame of the stream has been acknowledged: its entry goes and the application is told.
AckedAll(c, id) == Emit(DropSend(c, id), Finished(id))

-----------------------------------------------------------------------------
(* What the connection sends *)

\* poll_transmit leaves no room for the frame's type and stream id: the data of a write
\* that fills the packet does not fit behind them, and put_slice panics.
Overflows(c) ==
    \E id \in DOMAIN c.send :
        /\ c.send[id].state # "ResetSent"
        /\ c.send[id].segments # <<>>
        /\ Head(c.send[id].segments) > 2

\* write_stream_frames for one stream; there is nothing to send for one without an entry.
\* Of several writes (all of them short ones, that fit in a packet together) the frame
\* announces all and has the data of the first (SendBuffer::get).
StreamFrames(c, id) ==
    LET s == SendOf(c, id)
        left == Total(s.segments)
        unsent == s.offset - left
        fin(i) == s.fin_pending /\ i = left
    IN  IF s.state = "ResetSent" THEN <<>>
        ELSE IF left = 0
        THEN IF s.fin_pending THEN <<StreamFrame(id, s.offset, 0, TRUE, TRUE)>> ELSE <<>>
        ELSE IF Len(s.segments) > 1 THEN <<StreamFrame(id, unsent, left, s.fin_pending, FALSE)>>
        ELSE [i \in 1 .. left |-> StreamFrame(id, unsent + i - 1, 1, fin(i), TRUE)]

ControlFrames(c) ==
    LET resets == {r \in c.reset_stream : r[1] \in DOMAIN c.send}
    IN  SetToSeq({ResetStream(r[1], r[2], c.send[r[1]].offset) : r \in resets})
        \o SetToSeq({StopSending(s[1], s[2]) : s \in c.stop_sending})

Packet(space, frames) == [space |-> space, frames |-> frames]


\* populate_packet in the data space, until nothing is left to send: the first
\* packet takes the control frames along.  Streams of lower numbers come first
\* (the programs give them the higher priority).
DataPackets(c) ==
    LET control == ControlFrames(c)
        streams == FlattenSeq([i \in 1 .. Max({0} \cup {id + 1 : id \in DOMAIN c.send}) |->
                                  StreamFrames(c, i - 1)])
    IN  IF control = <<>> /\ streams = <<>> THEN <<>>
        ELSE IF streams = <<>> THEN <<Packet("Data", control)>>
        ELSE [i \in DOMAIN streams |->
                 Packet("Data", IF i = 1 THEN control \o <<streams[i]>> ELSE <<streams[i]>>)]

\* poll_transmit and send_one until nothing is left to send.  A connection that was
\* closed sends a last packet in the initial space, with an ACK when there is
\* something to acknowledge (acks) and nothing else.
Packets(c, acks) ==
    IF IsClosed(c)
    THEN IF c.pending_close THEN <<Packet("Initial", IF acks THEN <<Ack>> ELSE <<>>)>> ELSE <<>>
    ELSE (IF c.hello THEN <<Packet("Initial", <<Crypto>>)>> ELSE <<>>) \o DataPackets(c)

Sent(c) ==
    IF IsClosed(c) THEN [c EXCEPT !.pending_close = FALSE]
    ELSE LET emptied(s) == IF s.state = "ResetSent" THEN s
                           ELSE [s EXCEPT !.segments = <<>>, !.fin_pending = FALSE]
         IN  [c EXCEPT !.hi = @ \/ c.hello, !.hello = FALSE,
                       !.reset_stream = {}, !.stop_sending = {},
                       !.send = [id \in DOMAIN @ |-> emptied(@[id])]]

\* The task ends in poll_transmit, before anything of this turn is sent.
Encoded(c) ==
    IF c.panicked = "no" /\ ~IsClosed(c) /\ Overflows(c) THEN [c EXCEPT !.panicked = "encoder"]
    ELSE c

Drain(c) == [c EXCEPT !.state = "Drained", !.close_timer = FALSE]
=============================================================================
