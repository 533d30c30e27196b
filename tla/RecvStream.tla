----------------------------- MODULE RecvStream -----------------------------
(***************************************************************************)
(* The receiving half of one stream (stream/recv.rs and the receiving part *)
(* of stream/state.rs): STREAM and RESET_STREAM frames arrive in any order *)
(* and any number of times, the Assembler puts their bytes in order, and   *)
(* the application reads when a Readable event wakes it.  The byte at      *)
(* offset i of the peer's stream is i, so that misplaced data shows.  The  *)
(* peer has written StreamLen bytes; it finishes the stream, resets it, or *)
(* leaves it open.                                                         *)
(***************************************************************************)
EXTENDS Integers, Sequences, FiniteSetsExt, SequencesExt

CONSTANTS
    StreamLen,       \* bytes the peer writes
    Frames,          \* the STREAM frames' [offset, len] the peer may send
    PeerInitiated,   \* the peer opened the stream (or we did, bidirectionally)
    OverflowChecks,  \* the build panics on arithmetic overflow (dev profile)
    MaxLengths,      \* the max_length arguments the application reads with
    MaxEvents        \* bound: Readable events queued

ASSUME RecvStreamAssumption ==
    /\ StreamLen \in Nat
    /\ Frames \subseteq [offset : 0 .. StreamLen, len : 0 .. StreamLen]
    /\ \A f \in Frames : f.offset + f.len <= StreamLen
    /\ PeerInitiated \in BOOLEAN /\ OverflowChecks \in BOOLEAN
    /\ MaxLengths \subseteq Nat \ {0}
    /\ MaxEvents \in Nat

VARIABLES
    present,     \* StreamsState.recv has an entry for the stream
    recv,        \* that entry (Recv and its Assembler)
    reading,     \* the application's handler holds a Chunks
    events,      \* Readable events queued
    stop_sending,\* a STOP_SENDING frame was queued
    failed,      \* "error" after a transport error, "panic", or "no"
    delivered,   \* history: what the application read since the entry was made
    finished,    \* history: the application was told that the stream ended
    hist         \* history since then: the bytes of the frames ingested; whether a
                 \* frame began inside a buffer (straddled) or brought new bytes below
                 \* the highest offset (filled); whether the last read was blocked

vars == <<present, recv, reading, events, stop_sending, failed, delivered,
          finished, hist>>

None == -1

\* Recv::default.
NewRecv == [size |-> None, reset |-> FALSE, stopped |-> FALSE, end |-> 0,
            data |-> <<>>, bytes_read |-> 0]

\* size is known from a FIN or from a reset (Recv::final_offset).
FinalOffsetUnknown(r) == r.size = None

-----------------------------------------------------------------------------
(* Assembler *)

BufEnd(b) == b.offset + Len(b.bytes)

\* Assembler::insert, once the part that has been read already is cut off.  The
\* new bytes replace the buffers they cover, up to one that reaches beyond them.
\* overflow: that buffer starts before the new bytes, so that buf.offset - offset
\* wraps around and truncates nothing.
Place(data, offset, bytes) ==
    LET new_end   == offset + Len(bytes)
        insert_at == Min({Len(data) + 1} \cup
                         {i \in DOMAIN data : BufEnd(data[i]) > offset})
        stop      == Min({Len(data) + 1} \cup
                         {i \in insert_at .. Len(data) :
                             \/ data[i].offset >= new_end
                             \/ BufEnd(data[i]) > new_end})
        cut       == stop <= Len(data) /\ data[stop].offset < new_end
        keep      == IF cut THEN data[stop].offset - offset ELSE Len(bytes)
        kept      == IF keep < 0 THEN bytes ELSE SubSeq(bytes, 1, keep)
    IN  [data |-> SubSeq(data, 1, insert_at - 1)
                     \o (IF kept = <<>> THEN <<>>
                         ELSE <<[offset |-> offset, bytes |-> kept]>>)
                     \o SubSeq(data, stop, Len(data)),
         overflow |-> keep < 0]

\* A plausible slip: the part already read is not cut off the bytes.
InsertUntrimmed(r, offset, bytes) ==
    LET from == Max({offset, r.bytes_read})
    IN  IF offset + Len(bytes) <= from
        THEN [data |-> r.data, overflow |-> FALSE]
        ELSE Place(r.data, from, bytes)

\* Assembler::insert.
Insert(r, offset, bytes) ==
    LET from == Max({offset, r.bytes_read})
    IN  IF offset + Len(bytes) <= from
        THEN [data |-> r.data, overflow |-> FALSE]
        ELSE Place(r.data, from, SubSeq(bytes, from - offset + 1, Len(bytes)))

\* Assembler::read has a chunk to give: the front buffer comes next.
HasChunk(r) == r.data # <<>> /\ Head(r.data).offset = r.bytes_read

\* A plausible slip: the front buffer goes although only a part of it was read.
ReadChunkPopsAll(r, max_length) ==
    [r EXCEPT !.bytes_read = @ + Min({max_length, Len(Head(r.data).bytes)}),
              !.data = Tail(@)]

\* Assembler::read: what is left, of the front buffer if max_length is shorter.
ReadChunk(r, max_length) ==
    LET front == Head(r.data)
        n     == Min({max_length, Len(front.bytes)})
        rest  == [offset |-> front.offset + n,
                  bytes |-> SubSeq(front.bytes, n + 1, Len(front.bytes))]
    IN  [r EXCEPT !.bytes_read = @ + n,
                  !.data = IF rest.bytes = <<>> THEN Tail(@) ELSE <<rest>> \o Tail(@)]

-----------------------------------------------------------------------------

NewHistory ==
    [accepted |-> {}, straddled |-> FALSE, filled |-> FALSE, blocked |-> TRUE]

\* open() makes the entry of a stream of ours; the peer's is made by a frame.
Init ==
    /\ present = ~PeerInitiated
    /\ recv = NewRecv
    /\ reading = FALSE /\ events = 0 /\ stop_sending = FALSE /\ failed = "no"
    /\ delivered = <<>> /\ finished = FALSE /\ hist = NewHistory

Idle == ~reading /\ failed = "no"

\* The entry the frame is applied to, made anew when there was none.
Entry == IF present THEN recv ELSE NewRecv

\* The histories start again with a new entry.
FreshHistory ==
    IF present THEN UNCHANGED <<delivered, finished>>
               ELSE delivered' = <<>> /\ finished' = FALSE

\* A frame for a stream without an entry: nothing is kept of it unless it is the
\* beginning of a stream of the peer's.
UnknownStream(f, fin) ==
    ~present /\ (~PeerInitiated \/ f.offset > 0 \/ fin)

\* The bytes of a frame.
BytesOf(f) == [i \in 1 .. f.len |-> f.offset + i - 1]

\* Recv::ingest refuses the frame: it contradicts the final size.
FinalSizeError(r, end, fin) ==
    r.size # None /\ (end > r.size \/ (fin /\ end # r.size))

\* The history with the frame f added.
HistoryWith(r, f) ==
    LET h      == IF present THEN hist ELSE NewHistory
        bytes  == Range(BytesOf(f))
        inside == \E i \in DOMAIN r.data :
                     r.data[i].offset < f.offset /\ f.offset < BufEnd(r.data[i])
        below  == f.offset + f.len <= r.end /\ ~(bytes \subseteq h.accepted)
    IN  [accepted |-> h.accepted \cup bytes, straddled |-> h.straddled \/ inside,
         filled |-> h.filled \/ below, blocked |-> h.blocked]

\* StreamsState::received returns early.
DropFrame(f, fin) ==
    /\ Idle
    /\ UnknownStream(f, fin) \/ (present /\ recv.reset)
    /\ UNCHANGED vars

\* A plausible slip: every frame is taken for the last one.
SizeFromAnyFrame(r, end, fin) == IF ~r.stopped THEN end ELSE r.size

\* Recv::ingest: a FIN fixes the size, unless the stream was stopped.
SizeAfter(r, end, fin) == IF fin /\ ~r.stopped THEN end ELSE r.size

\* A plausible slip: only new data wakes the application, not the end of it.
WakesOnData(r, end, fin) == ~r.stopped /\ end > r.end

\* StreamsState::received queues a Readable event.
Wakes(r, end, fin) ==
    ~r.stopped /\ (end > r.end \/ (fin /\ FinalOffsetUnknown(r)))

\* StreamsState::received with Recv::ingest and Assembler::insert.
Received(f, fin) ==
    LET r      == Entry
        end    == f.offset + f.len
        ins    == Insert(r, f.offset, BytesOf(f))
        panics == OverflowChecks /\ ~r.stopped /\ ins.overflow
    IN  /\ Idle /\ ~UnknownStream(f, fin) /\ ~r.reset
        /\ events < MaxEvents
        /\ FreshHistory
        /\ hist' = HistoryWith(r, f)
        /\ IF FinalSizeError(r, end, fin)
           THEN /\ failed' = "error"
                /\ recv' = r /\ present' = TRUE
                /\ UNCHANGED events
           ELSE /\ recv' = [r EXCEPT !.size = SizeAfter(r, end, fin),
                                     !.end = Max({@, end}),
                                     !.data = IF r.stopped THEN @ ELSE ins.data]
                /\ failed' = IF panics THEN "panic" ELSE "no"
                /\ present' = ~(r.stopped /\ fin)
                /\ events' = IF Wakes(r, end, fin) /\ ~panics THEN events + 1 ELSE events
        /\ UNCHANGED <<reading, stop_sending>>

\* StreamsState::received_reset with Recv::reset.  It makes an entry when there
\* is none, whoever opened the stream.
ReceivedReset(final_offset) ==
    LET r == Entry
    IN  /\ Idle /\ events < MaxEvents
        /\ FreshHistory
        /\ hist' = IF present THEN hist ELSE NewHistory
        /\ IF \/ r.size # None /\ r.size # final_offset
              \/ r.size = None /\ r.end > final_offset
           THEN /\ failed' = "error"
                /\ recv' = r /\ present' = TRUE
                /\ UNCHANGED events
           ELSE /\ recv' = [r EXCEPT !.reset = TRUE, !.size = final_offset, !.data = <<>>]
                /\ present' = (r.reset \/ ~r.stopped)
                /\ events' = IF r.reset \/ r.stopped THEN events ELSE events + 1
                /\ UNCHANGED failed
        /\ UNCHANGED <<reading, stop_sending>>

\* The application's handler takes a Readable event and opens the stream for
\* reading (Chunks::new); a stream without an entry, or stopped, is closed to it.
TakeEvent ==
    /\ Idle /\ events > 0
    /\ events' = events - 1
    /\ reading' = (present /\ ~recv.stopped)
    /\ UNCHANGED <<present, recv, stop_sending, failed, delivered, finished,
                   hist>>

\* Chunks::next gives a chunk.
NextChunk(max_length) ==
    /\ reading /\ HasChunk(recv)
    /\ recv' = ReadChunk(recv, max_length)
    /\ delivered' = delivered \o
          SubSeq(Head(recv.data).bytes, 1, recv'.bytes_read - recv.bytes_read)
    /\ UNCHANGED <<present, reading, events, stop_sending, failed, finished,
                   hist>>

\* A plausible slip: the end is known, whether or not all was read.
AtEndEarly(r) == ~r.reset /\ r.size = r.end

\* Chunks::next has reached the end of the stream.
AtEnd(r) == ~r.reset /\ r.size = r.end /\ r.bytes_read = r.end

\* Chunks::next gives no chunk: the stream was reset or has ended, and its entry
\* goes, or the read is blocked, and Chunks::drop puts the entry back.
EndRead ==
    /\ reading /\ ~HasChunk(recv)
    /\ reading' = FALSE
    /\ present' = (~recv.reset /\ ~AtEnd(recv))
    /\ finished' = (finished \/ AtEnd(recv))
    /\ hist' = [hist EXCEPT !.blocked = TRUE]
    /\ UNCHANGED <<recv, events, stop_sending, failed, delivered>>

\* The application drops its Chunks with data left in it.
DropChunks ==
    /\ reading
    /\ reading' = FALSE
    /\ hist' = [hist EXCEPT !.blocked = FALSE]
    /\ UNCHANGED <<present, recv, events, stop_sending, failed, delivered, finished>>

\* RecvStream::stop.  The entry stays while the final size is unknown.
Stop ==
    /\ Idle /\ present /\ ~recv.stopped
    /\ recv' = [recv EXCEPT !.stopped = TRUE, !.data = <<>>]
    /\ stop_sending' = (stop_sending \/ ~recv.reset)
    /\ present' = FinalOffsetUnknown(recv)
    /\ UNCHANGED <<reading, events, failed, delivered, finished, hist>>

\* RecvStream::received_reset has found the stream reset.
AppSeesReset ==
    /\ Idle /\ present /\ ~recv.stopped /\ recv.reset
    /\ present' = FALSE
    /\ UNCHANGED <<recv, reading, events, stop_sending, failed, delivered,
                   finished, hist>>

Next ==
    \/ \E f \in Frames, fin \in BOOLEAN :
          /\ fin => f.offset + f.len = StreamLen
          /\ f.len > 0 \/ fin
          /\ DropFrame(f, fin) \/ Received(f, fin)
    \/ ReceivedReset(StreamLen)
    \/ TakeEvent
    \/ \E max_length \in MaxLengths : NextChunk(max_length)
    \/ EndRead
    \/ DropChunks
    \/ Stop
    \/ AppSeesReset

Spec == Init /\ [][Next]_vars

-----------------------------------------------------------------------------

\* Whatever the frames' boundaries, order and repetitions, the application reads
\* a prefix of the stream (Assembler::insert, read).
DeliveredIsPrefix ==
    present => delivered = [i \in 1 .. recv.bytes_read |-> i - 1]

\* Chunks::next reports the end of the stream only when all of it was read.
FinishedComplete == finished => delivered = [i \in 1 .. StreamLen |-> i - 1]

\* A peer that keeps to its stream's length never causes a FINAL_SIZE_ERROR,
\* whatever the order of its data, FIN and RESET_STREAM (Recv::ingest, reset).
NoFinalSizeError == failed # "error"

\* The offsets buffered.
Buffered(r) == UNION {r.data[i].offset .. BufEnd(r.data[i]) - 1 : i \in DOMAIN r.data}

\* A byte that was received and not read is still buffered, unless the stream
\* was stopped or reset: its packet is acknowledged, it will not come again.  What
\* Assembler::insert needs for it is that no frame begins inside a buffer (it
\* removes a buffer that ends within the new frame, its beginning included).
UnreadKept ==
    (present /\ ~recv.stopped /\ ~recv.reset /\ failed = "no" /\ ~hist.straddled) =>
        {b \in hist.accepted : b >= recv.bytes_read} \subseteq Buffered(recv)

\* The application has read until it was blocked, and has something to read now:
\* data, the end of the stream or a reset.
Unblocked ==
    /\ present /\ ~recv.stopped /\ Idle
    /\ hist.blocked /\ ~hist.straddled
    /\ HasChunk(recv) \/ AtEnd(recv) \/ recv.reset

\* An application whose last read was blocked is woken: what it could read now has
\* a Readable event queued.  This is so as long as no frame begins inside a buffer
\* or brings bytes below the highest offset, which StreamsState::received takes
\* for old.
NoLostWakeup == (Unblocked /\ ~hist.filled) => events > 0
=============================================================================
