----------------------------- MODULE Congestion -----------------------------
(***************************************************************************)
(* NewReno congestion control and the bytes in flight it governs           *)
(* (core/src/connection/path.rs), driven by one packet number space of a   *)
(* connection: the poll_transmit loop fills the sending queue, send_one    *)
(* puts it on the wire, and then one select branch of run_connection runs. *)
(* The loops of on_ack_received and detect_lost_packets take one step per  *)
(* packet.  The ACK frame's contents and the loss delay are choices: what  *)
(* they may be is the subject of LossRecovery.                             *)
(***************************************************************************)
EXTENDS Integers, Sequences, FiniteSetsExt, SequencesExt

CONSTANTS
    INITIAL_MTU,     \* bytes of a full packet
    InitialPackets,  \* initial window in full packets: 10 in the code
    MaxBurst,        \* polls before the packets are sent: 128 in the code
    MaxPackets,      \* bound: packets sent
    WriteSizes,      \* bound: packets' worth of data one write may bring
    MaxData,         \* bound: full packets the application writes
    MaxTime          \* bound: clock

ASSUME CongestionAssumption ==
    /\ INITIAL_MTU \in Nat \ {0}
    /\ InitialPackets \in Nat /\ InitialPackets >= 2
    /\ MaxBurst \in Nat \ {0}
    /\ WriteSizes \subseteq Nat
    /\ MaxPackets \in Nat /\ MaxData \in Nat /\ MaxTime \in Nat

VARIABLES
    phase,        \* where run_connection is: "poll", "send", "select", "ack",
                  \* "detect" or "lose"
    now,          \* clock
    data,         \* packets' worth of stream data waiting
    queue,        \* path.sending_queue: packet sizes, 0 for an ACK-only packet
    spins,        \* polls of the running burst
    sent_packets, \* packets sent and neither acknowledged nor lost
    next_packet_number,
    largest_acked_packet,
    todo,         \* packets the running loop has still to treat
    in_flight,    \* path.in_flight.bytes
    congestion,   \* path.congestion
    app_limited,
    written,      \* history: packets' worth of data written
    window_before \* history: the window when the running handler started

sendVars == <<queue, spins, app_limited, next_packet_number>>
vars == <<phase, now, data, queue, spins, sent_packets, next_packet_number,
          largest_acked_packet, todo, in_flight, congestion, app_limited,
          written, window_before>>

Infinity == -1  \* u64::MAX, the initial ssthresh
None == -1

Larger(m, n) == IF m >= n THEN m ELSE n

MinimumWindow == 2 * INITIAL_MTU

Packet == [number : Nat, time_sent : Nat, size : 0 .. INITIAL_MTU]

-----------------------------------------------------------------------------
(* NewReno *)

\* NewReno::new.
NewReno(time) ==
    [window |-> InitialPackets * INITIAL_MTU, ssthresh |-> Infinity,
     recovery_start_time |-> time, bytes_acked |-> 0]

\* A plausible slip: the bytes that earned the growth are not used up.
OnAckKeepsCredit(c, sent, bytes, limited) ==
    IF limited \/ sent <= c.recovery_start_time
    THEN c
    ELSE IF c.ssthresh = Infinity \/ c.window < c.ssthresh
         THEN [c EXCEPT !.window = @ + bytes]
         ELSE IF c.bytes_acked + bytes >= c.window
              THEN [c EXCEPT !.bytes_acked = @ + bytes, !.window = @ + INITIAL_MTU]
              ELSE [c EXCEPT !.bytes_acked = @ + bytes]

\* NewReno::on_ack: slow start, or one packet more per window acknowledged.
OnAck(c, sent, bytes, limited) ==
    IF limited \/ sent <= c.recovery_start_time
    THEN c
    ELSE IF c.ssthresh = Infinity \/ c.window < c.ssthresh
         THEN [c EXCEPT !.window = @ + bytes]
         ELSE IF c.bytes_acked + bytes >= c.window
              THEN [c EXCEPT !.bytes_acked = @ + bytes - c.window,
                             !.window = @ + INITIAL_MTU]
              ELSE [c EXCEPT !.bytes_acked = @ + bytes]

\* The window after a multiplicative decrease.
Halved(w) == Larger(w \div 2, MinimumWindow)

\* A plausible slip: every lost packet halves the window.
OnEveryLoss(c, time, sent) ==
    [window |-> Halved(c.window), ssthresh |-> Halved(c.window),
     recovery_start_time |-> time, bytes_acked |-> 0]

\* A plausible slip: the floor is left out.
OnLossNoFloor(c, time, sent) ==
    IF sent <= c.recovery_start_time
    THEN c
    ELSE [window |-> c.window \div 2, ssthresh |-> c.window \div 2,
          recovery_start_time |-> time, bytes_acked |-> 0]

\* NewReno::on_congestion_event.
OnCongestionEvent(c, time, sent) ==
    IF sent <= c.recovery_start_time
    THEN c
    ELSE [window |-> Halved(c.window), ssthresh |-> Halved(c.window),
          recovery_start_time |-> time, bytes_acked |-> 0]

-----------------------------------------------------------------------------

Init ==
    /\ phase = "poll" /\ now = 0 /\ data = 0
    /\ queue = <<>> /\ spins = 0
    /\ sent_packets = {} /\ next_packet_number = 0 /\ largest_acked_packet = None
    /\ todo = {}
    /\ in_flight = 0
    /\ congestion = NewReno(0)
    /\ app_limited = FALSE
    /\ written = 0
    /\ window_before = InitialPackets * INITIAL_MTU

\* congestion_blocked in poll_transmit: the queue does not count.
Blocked == in_flight >= congestion.window

\* poll_transmit has nothing to send, or nothing the window lets through: the
\* poll loop ends.
PollNothing(ack) ==
    /\ phase = "poll"
    /\ \/ data = 0 /\ ~ack /\ UNCHANGED app_limited
       \/ data > 0 /\ Blocked /\ app_limited' = FALSE
    /\ phase' = "send" /\ spins' = 0
    /\ UNCHANGED <<now, data, queue, sent_packets, next_packet_number,
                   largest_acked_packet, todo, in_flight, congestion, written,
                   window_before>>

\* A plausible slip: the burst has no limit.
PollUnlimited(ack, size) ==
    LET more == data > 1
    IN  /\ phase = "poll"
        /\ data > 0 => ~Blocked
        /\ data > 0 \/ ack
        /\ next_packet_number + Len(queue) < MaxPackets
        /\ queue' = Append(queue, IF data > 0 THEN size ELSE 0)
        /\ data' = IF data > 0 THEN data - 1 ELSE 0
        /\ app_limited' = (~more /\ ~Blocked)
        /\ phase' = IF more THEN "poll" ELSE "send"
        /\ UNCHANGED <<now, spins, sent_packets, next_packet_number,
                       largest_acked_packet, todo, in_flight, congestion,
                       written, window_before>>

\* poll_transmit schedules a packet of the given size, or an ACK-only packet
\* when there is no data; it is called again while there is more to send.
PollPacket(ack, size) ==
    LET more == data > 1
    IN  /\ phase = "poll"
        /\ data > 0 => ~Blocked
        /\ data > 0 \/ ack
        /\ next_packet_number + Len(queue) < MaxPackets
        /\ queue' = Append(queue, IF data > 0 THEN size ELSE 0)
        /\ data' = IF data > 0 THEN data - 1 ELSE 0
        /\ app_limited' = (~more /\ ~Blocked)
        /\ IF more /\ spins + 1 < MaxBurst
           THEN phase' = "poll" /\ spins' = spins + 1
           ELSE phase' = "send" /\ spins' = 0
        /\ UNCHANGED <<now, sent_packets, next_packet_number,
                       largest_acked_packet, todo, in_flight, congestion,
                       written, window_before>>

\* send_one: the packet at the head of the queue is sent and counted.
SendOne ==
    LET size == Head(queue)
    IN  /\ phase = "send" /\ queue # <<>>
        /\ queue' = Tail(queue)
        /\ next_packet_number' = next_packet_number + 1
        /\ sent_packets' = sent_packets \cup
              {[number |-> next_packet_number, time_sent |-> now, size |-> size]}
        /\ in_flight' = in_flight + size
        /\ UNCHANGED <<phase, now, data, spins, largest_acked_packet, todo,
                       congestion, app_limited, written, window_before>>

\* The queue is empty: run_connection waits in its select.
AllSent ==
    /\ phase = "send" /\ queue = <<>>
    /\ phase' = "select"
    /\ UNCHANGED <<now, data, sendVars, sent_packets, largest_acked_packet,
                   todo, in_flight, congestion, written, window_before>>

\* An event: the application writes n packets' worth of data.
AppWrite(n) ==
    /\ phase = "select" /\ written + n <= MaxData
    /\ phase' = "poll"
    /\ data' = data + n /\ written' = written + n
    /\ UNCHANGED <<now, sendVars, sent_packets, largest_acked_packet, todo,
                   in_flight, congestion, window_before>>

\* Nothing happens for a while.
Sleep ==
    /\ phase = "select" /\ now < MaxTime
    /\ phase' = "poll" /\ now' = now + 1
    /\ UNCHANGED <<data, sendVars, sent_packets, largest_acked_packet, todo,
                   in_flight, congestion, written, window_before>>

\* handle_data with an ACK frame of the given largest number, not below that of an
\* earlier one, that newly acknowledges the packets A (on_ack_received; only
\* detect_lost_packets, after the loop, reads largest_acked_packet).
ReceiveAck(A, largest) ==
    /\ phase = "select" /\ A # {}
    /\ largest < next_packet_number /\ largest >= largest_acked_packet
    /\ \A p \in A : p.number <= largest
    /\ phase' = "ack" /\ todo' = A
    /\ largest_acked_packet' = largest
    /\ window_before' = congestion.window
    /\ UNCHANGED <<now, data, sendVars, sent_packets, in_flight, congestion, written>>

\* The LossDetection timer fires (on_loss_detection_timeout).
LossTimeout ==
    /\ phase = "select" /\ sent_packets # {}
    /\ phase' = "detect"
    /\ window_before' = congestion.window
    /\ UNCHANGED <<now, data, sendVars, sent_packets, largest_acked_packet,
                   todo, in_flight, congestion, written>>

\* p comes first in an iteration of packets by number.
First(p, S) == \A q \in S : p.number <= q.number

\* One turn of on_ack_received's loop: take, remove_in_flight, on_ack.  The
\* loop goes from the highest range down and up within a range, an order that
\* depends on the frame.
AckPacket(p) ==
    /\ phase = "ack" /\ p \in todo
    /\ todo' = todo \ {p}
    /\ sent_packets' = sent_packets \ {p}
    /\ in_flight' = in_flight - p.size
    /\ congestion' = IF p.size > 0
                     THEN OnAck(congestion, p.time_sent, p.size, app_limited)
                     ELSE congestion
    /\ phase' = IF todo' = {} THEN "detect" ELSE "ack"
    /\ UNCHANGED <<now, data, sendVars, largest_acked_packet, written, window_before>>

\* detect_lost_packets collects the packets below the largest acknowledged one
\* that were sent at time t or before, some delay of at least one tick ago.
DetectLost(t) ==
    /\ phase = "detect" /\ t < now
    /\ todo' = {p \in sent_packets :
                    p.number <= largest_acked_packet /\ p.time_sent <= t}
    /\ phase' = IF todo' = {} THEN "poll" ELSE "lose"
    /\ UNCHANGED <<now, data, sendVars, sent_packets, largest_acked_packet,
                   in_flight, congestion, written, window_before>>

\* A plausible slip: the lost packet stays in sent_packets.
LoseKeepsTracked(p) ==
    /\ phase = "lose" /\ p \in todo /\ First(p, todo)
    /\ todo' = todo \ {p}
    /\ in_flight' = in_flight - p.size
    /\ data' = IF p.size > 0 THEN data + 1 ELSE data
    /\ congestion' = IF p.size > 0
                     THEN OnCongestionEvent(congestion, now, p.time_sent)
                     ELSE congestion
    /\ phase' = IF todo' = {} THEN "poll" ELSE "lose"
    /\ UNCHANGED <<now, sendVars, sent_packets, largest_acked_packet, written,
                   window_before>>

\* One turn of its loop: remove_in_flight, on_congestion_event, and the packet's
\* frames wait to be sent again.
LosePacket(p) ==
    /\ phase = "lose" /\ p \in todo /\ First(p, todo)
    /\ todo' = todo \ {p}
    /\ sent_packets' = sent_packets \ {p}
    /\ in_flight' = in_flight - p.size
    /\ data' = IF p.size > 0 THEN data + 1 ELSE data
    /\ congestion' = IF p.size > 0
                     THEN OnCongestionEvent(congestion, now, p.time_sent)
                     ELSE congestion
    /\ phase' = IF todo' = {} THEN "poll" ELSE "lose"
    /\ UNCHANGED <<now, sendVars, largest_acked_packet, written, window_before>>

Next ==
    \/ \E ack \in BOOLEAN : PollNothing(ack)
    \/ \E ack \in BOOLEAN, size \in 1 .. INITIAL_MTU : PollPacket(ack, size)
    \/ SendOne
    \/ AllSent
    \/ \E n \in WriteSizes : AppWrite(n)
    \/ Sleep
    \/ \E A \in SUBSET sent_packets, largest \in 0 .. MaxPackets : ReceiveAck(A, largest)
    \/ LossTimeout
    \/ \E p \in todo : AckPacket(p) \/ LosePacket(p)
    \/ \E t \in -1 .. MaxTime : DetectLost(t)

Spec == Init /\ [][Next]_vars

-----------------------------------------------------------------------------

\* NewReno keeps a usable window whatever the sequence of ACKs and losses:
\* never below two packets, so a connection with nothing in flight is never
\* blocked; never back in slow start once it has left it; and the bytes credited
\* towards the next increase never reach a whole window.
WindowSound ==
    LET c == congestion
    IN  /\ c.window >= MinimumWindow
        /\ c.bytes_acked < c.window
        /\ c.ssthresh # Infinity => c.window >= c.ssthresh

\* "Only react once per round-trip": however many packets one run of
\* detect_lost_packets declares lost, the window is halved at most once since
\* the handler started (and stays as it is until the next one does).
HalvedAtMostOnce ==
    congestion.window >= Halved(window_before)

\* Outside slow start an increase of the window uses up the acknowledged bytes
\* that earned it: what on_ack carries over is less than a packet.
CreditSpent ==
    [][(congestion.ssthresh # Infinity /\ congestion'.window > congestion.window)
          => congestion'.bytes_acked < INITIAL_MTU]_vars

\* path.in_flight.bytes is the sum of the sizes of the tracked packets.
InFlightExact ==
    in_flight = FoldSet(LAMBDA p, n : p.size + n, 0, sent_packets)

\* What the burst loop of run_connection adds to the congestion window: the data
\* scheduled between two looks at in_flight is at most a burst of full packets.
BurstBounded ==
    LET scheduled == FoldSeq(LAMBDA size, n : size + n, 0, queue)
    IN  scheduled > 0 =>
            in_flight + scheduled < congestion.window + MaxBurst * INITIAL_MTU
=============================================================================
