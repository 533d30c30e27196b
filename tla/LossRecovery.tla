---------------------------- MODULE LossRecovery ----------------------------
(***************************************************************************)
(* What one connection remembers of the packets it sends, over its three   *)
(* packet-number spaces: composing packets (poll_transmit), sending them   *)
(* (send_one), processing ACK frames (on_ack_received), time-threshold     *)
(* loss detection (detect_lost_packets), the loss-detection timer and the  *)
(* discarding of the Initial space (core/src/connection/mod.rs, with       *)
(* PacketSpace of space.rs and NetworkPath of path.rs).                    *)
(*                                                                         *)
(* A retransmittable frame is an item: the CRYPTO frame of an early space, *)
(* or, in the Data space, a RESET_STREAM, a STOP_SENDING or a range of the *)
(* data of a stream that is not reset (not its FIN bit: that belongs to    *)
(* the stream).  A packet that carries something other than ACKs counts 1  *)
(* towards the bytes in flight: this part of the code only asks whether    *)
(* they are zero.  Left open, so that every case is covered: whether the   *)
(* congestion window blocks a poll, how many frames fit in a packet, and   *)
(* when a delayed ACK of the Data space falls due.                         *)
(***************************************************************************)
EXTENDS Integers, FiniteSets

CONSTANTS
    Side,               \* "client" or "server"
    DataItems,          \* the frames the application can ask for, once each
    Hello,              \* the CRYPTO frame of the Initial and Handshake spaces
    MIN_RTT,            \* the initial RTT estimate, in ticks (333ms)
    TIMER_GRANULARITY,  \* in ticks (1ms)
    AckDelays,          \* the ACK delays a peer may report, in ticks
    MaxTime,            \* bound: the clock stops there
    MaxPackets,         \* bound, per space: packets composed
    PeerSpaces,         \* bound: the spaces in which packets arrive
    MaxBurst            \* polls in one turn of run_connection (128)

Spaces == {"Initial", "Handshake", "Data"}

ASSUME SideAssumption == Side \in {"client", "server"}
ASSUME ItemsAssumption == Hello \notin DataItems
ASSUME BoundsAssumption ==
    /\ MIN_RTT \in Nat
    /\ TIMER_GRANULARITY \in Nat
    /\ AckDelays \subseteq Nat
    /\ MaxTime \in Nat
    /\ MaxPackets \in [Spaces -> Nat]
    /\ PeerSpaces \subseteq Spaces
    /\ MaxBurst \in Nat

Items == DataItems \cup {Hello}
None == -1     \* Option::None, of a packet number or of an Instant

VARIABLES
    now,                  \* the clock
    phase,                \* where run_connection is: "poll", "send" or "select"
    spins,                \* polls made in this turn
    state,                \* Connection.state
    pending_close,        \* Connection.pending_close
    hi,                   \* per space: PacketSpace.hi
    highest_space,        \* Connection.highest_space
    pending,              \* per space: the frames waiting to be (re)sent
    acks,                 \* per space: no "none", delayed "held" or "due" ACK
    next_packet_number,   \* per space
    largest_acked_packet, \* per space
    loss_time,            \* per space
    sent_packets,         \* per space: a set of packets
    in_flight,            \* per space: PacketSpace.in_flight
    path_in_flight,       \* NetworkPath.in_flight
    sending_queue,        \* NetworkPath.sending_queue, as a set
    rtt,                  \* NetworkPath.rtt
    timer,                \* TimerTable[LossDetection]
    written,              \* history: the frames the application asked for
    acked,                \* history, per space: packets taken by an ACK
    lost,                 \* history, per space: packets declared lost or discarded
    confirmed             \* history, per space: frames of acknowledged packets

sentVars == <<loss_time, sent_packets, in_flight, path_in_flight, acked, lost, confirmed>>
handshakeVars == <<state, pending_close, hi, highest_space>>
vars == <<now, phase, spins, handshakeVars, pending, acks, next_packet_number,
          largest_acked_packet, sentVars, timer, sending_queue, rtt, written>>

Packet == [space : Spaces, pn : Nat, time_sent : Nat, ack_eliciting : BOOLEAN,
           items : SUBSET Items]

\* State::is_closed
IsClosed(st) == st \in {"Closed", "Drained"}

MaxOf(a, b) == IF a >= b THEN a ELSE b
MinOf(a, b) == IF a <= b THEN a ELSE b
Least(S) == CHOOSE x \in S : \A y \in S : x <= y
Largest(S) == CHOOSE x \in S : \A y \in S : x >= y
ItemsOf(P) == UNION {p.items : p \in P}

\* A plausible slip: ACK-only packets count as in flight.
ElicitingAll(P) == P

\* SentPacket.size is zero, and nothing counts as in flight, unless ack_eliciting.
Eliciting(P) == {p \in P : p.ack_eliciting}

Numbers(P) == {p.pn : p \in P}
Total(f) == f["Initial"] + f["Handshake"] + f["Data"]
QueuedIn(s) == {p \in sending_queue : p.space = s}

-----------------------------------------------------------------------------
(* RttEstimator, without the variance, which nothing reads.                *)

NewRtt == [latest |-> MIN_RTT, smoothed |-> None, min |-> MIN_RTT]

\* RttEstimator::conservative
Conservative(r) == IF r.smoothed = None THEN r.latest ELSE MaxOf(r.smoothed, r.latest)

\* RttEstimator::update
UpdateRtt(r, ack_delay, sample) ==
    LET least    == MinOf(r.min, sample)
        adjusted == IF sample > least + ack_delay THEN sample - ack_delay ELSE sample
    IN  [latest   |-> sample,
         min      |-> least,
         smoothed |-> IF r.smoothed = None THEN adjusted
                      ELSE (r.smoothed * 7 + adjusted) \div 8]

-----------------------------------------------------------------------------
(* The loss-detection timer and time-threshold loss detection.             *)

PTO(r) == Conservative(r) * 3 + TIMER_GRANULARITY
LossDelay(r) == MaxOf((Conservative(r) * 9) \div 8, TIMER_GRANULARITY)

\* sent_packets.values().next(): the packet with the lowest number.
FirstSent(P) == CHOOSE p \in P : \A q \in P : p.pn <= q.pn

LossTimes == {loss_time'[s] : s \in {t \in Spaces : loss_time'[t] # None}}
SendTimes == {FirstSent(sent_packets'[s]).time_sent : s \in {t \in Spaces : sent_packets'[t] # {}}}

\* Plausible slips: no probe timeout; no test for a closed connection; the probe timeout first.
SetTimerNoProbe(r) ==
    timer' = IF IsClosed(state) THEN timer ELSE IF LossTimes # {} THEN Least(LossTimes) ELSE None
SetTimerWhenClosed(r) ==
    timer' = IF LossTimes # {} THEN Least(LossTimes)
             ELSE IF SendTimes # {} THEN Least(SendTimes) + PTO(r) ELSE None
SetTimerProbeFirst(r) ==
    timer' = IF IsClosed(state) THEN timer
             ELSE IF (\E s \in Spaces : in_flight'[s] > 0) /\ SendTimes # {}
                  THEN Least(SendTimes) + PTO(r)
             ELSE IF LossTimes # {} THEN Least(LossTimes) ELSE None

\* set_loss_detection_timer, on the state that the step leaves.
SetLossDetectionTimer(r) ==
    timer' = IF IsClosed(state) THEN timer
             ELSE IF LossTimes # {} THEN Least(LossTimes)
             ELSE IF (\E s \in Spaces : in_flight'[s] > 0) /\ SendTimes # {}
                  THEN Least(SendTimes) + PTO(r)
             ELSE None

\* A plausible slip: a packet is given up after some time, overtaken or not.
DeclaredLostByTime(P, largest, r) == {p \in P : p.time_sent <= now - LossDelay(r)}

\* detect_lost_packets: the tracked packets P it declares lost.
DeclaredLost(P, largest, r) ==
    {p \in P : p.pn <= largest /\ p.time_sent <= now - LossDelay(r)}

\* A plausible slip: no loss time for what remains once something was declared lost.
NextLossTimeDropped(P, largest, r) ==
    LET waiting == {p \in P : p.pn <= largest} \ DeclaredLost(P, largest, r)
    IN  IF waiting = {} \/ DeclaredLost(P, largest, r) # {} THEN None
        ELSE Least({p.time_sent + LossDelay(r) : p \in waiting})

\* detect_lost_packets: the loss time it leaves, from the packets not yet late enough.
NextLossTime(P, largest, r) ==
    LET waiting == {p \in P : p.pn <= largest} \ DeclaredLost(P, largest, r)
    IN  IF waiting = {} THEN None
        ELSE Least({p.time_sent + LossDelay(r) : p \in waiting})

-----------------------------------------------------------------------------
Init ==
    /\ now = 0 /\ phase = "poll" /\ spins = 0
    /\ state = "Handshake" /\ pending_close = FALSE
    /\ hi = [s \in Spaces |-> FALSE] /\ highest_space = "Initial"
    /\ pending = [s \in Spaces |-> IF Side = "client" /\ s = "Initial" THEN {Hello} ELSE {}]
    /\ acks = [s \in Spaces |-> "none"]
    /\ next_packet_number = [s \in Spaces |-> 0]
    /\ largest_acked_packet = [s \in Spaces |-> None]
    /\ loss_time = [s \in Spaces |-> None]
    /\ sent_packets = [s \in Spaces |-> {}]
    /\ in_flight = [s \in Spaces |-> 0] /\ path_in_flight = 0
    /\ sending_queue = {}
    /\ rtt = NewRtt /\ timer = None
    /\ written = {}
    /\ acked = [s \in Spaces |-> {}] /\ lost = [s \in Spaces |-> {}]
    /\ confirmed = [s \in Spaces |-> {}]

Running == state # "Drained"

NoPackets == [s \in Spaces |-> {}]

\* Plausible slips: take is not called for an acknowledged ACK-only packet, or for a lost one.
ReleasedKeepsAckOnly(s, taken, late, discards) ==
    IF discards /\ s = "Initial" THEN sent_packets[s] ELSE Eliciting(taken[s]) \cup late[s]
ReleasedKeepsLost(s, taken, late, discards) ==
    IF discards /\ s = "Initial" THEN sent_packets[s] ELSE taken[s]

\* The packets that stop being tracked: taken by an ACK (PacketSpace::take), declared
\* lost, or of the Initial space when discard_space empties it.
Released(s, taken, late, discards) ==
    IF discards /\ s = "Initial" THEN sent_packets[s] ELSE taken[s] \cup late[s]

\* The bookkeeping for the packets released: in-flight counters, loss times, history.
Untrack(taken, late, discards, losses) ==
    LET gone == [s \in Spaces |-> Released(s, taken, late, discards)]
    IN  /\ sent_packets' = [s \in Spaces |-> sent_packets[s] \ gone[s]]
        /\ in_flight' = [s \in Spaces |->
             IF discards /\ s = "Initial" THEN 0
             ELSE in_flight[s] - Cardinality(Eliciting(gone[s]))]
        /\ path_in_flight' =
             path_in_flight - Total([s \in Spaces |-> Cardinality(Eliciting(gone[s]))])
        /\ loss_time' = [s \in Spaces |-> IF discards /\ s = "Initial" THEN None ELSE losses[s]]
        /\ acked' = [s \in Spaces |-> acked[s] \cup Numbers(taken[s])]
        /\ lost' = [s \in Spaces |-> lost[s] \cup Numbers(gone[s] \ taken[s])]
        /\ confirmed' = [s \in Spaces |-> confirmed[s] \cup ItemsOf(taken[s])]

\* discard_space(Initial), when its caller's condition holds, up to its timer update.
DiscardSpace(discards) ==
    IF discards THEN Untrack(NoPackets, NoPackets, TRUE, loss_time)
    ELSE UNCHANGED sentVars

-----------------------------------------------------------------------------
(* Composing and sending packets.                                          *)

\* What space_can_send finds to send besides ACKs, and whether it finds anything.
CanSendOther(s) == pending[s] # {}
CanSend(s) == acks[s] = "due" \/ CanSendOther(s)

\* What populate_packet may move into a Data packet: as much as fits.
DataFrames == IF pending["Data"] = {} THEN {{}} ELSE SUBSET pending["Data"] \ {{}}

\* poll_transmit, with congestion_blocked and the frames that fit in the Data packet.
PollTransmit(congestion_blocked, data) ==
    LET close    == IsClosed(state)
        visited  == {s \in Spaces : CanSend(s) \/ (close /\ s = highest_space)}
        composed == {s \in visited : ~(CanSendOther(s) /\ congestion_blocked)}
        carried  == [s \in Spaces |-> IF close \/ s \notin composed THEN {}
                                      ELSE IF s = "Data" THEN data ELSE pending[s]]
        left     == [s \in Spaces |-> pending[s] \ carried[s]]
        greeted  == [s \in Spaces |-> hi[s] \/ Hello \in carried[s]]
        acksLeft == [s \in Spaces |-> IF s \in composed /\ ~close THEN "none" ELSE acks[s]]
        discards == Side = "client" /\ "Handshake" \in visited /\ greeted["Initial"]
        more     == composed # {} /\ \E s \in Spaces : acksLeft[s] = "due" \/ left[s] # {}
    IN  /\ phase = "poll" /\ Running
        /\ IF close /\ ~pending_close
           THEN /\ phase' = "send" /\ spins' = 0
                /\ UNCHANGED <<handshakeVars, pending, acks, next_packet_number, sentVars, timer,
                               sending_queue>>
           ELSE /\ \A s \in composed : next_packet_number[s] < MaxPackets[s]
                /\ sending_queue' = sending_queue \cup
                     {[space |-> s, pn |-> next_packet_number[s], time_sent |-> now,
                       ack_eliciting |-> CanSendOther(s), items |-> carried[s]] : s \in composed}
                /\ next_packet_number' = [s \in Spaces |->
                     next_packet_number[s] + (IF s \in composed THEN 1 ELSE 0)]
                /\ pending' = left
                /\ hi' = greeted
                /\ acks' = acksLeft
                /\ pending_close' = (pending_close /\ composed = {})
                /\ DiscardSpace(discards)
                /\ IF discards THEN SetLossDetectionTimer(rtt) ELSE UNCHANGED timer
                /\ IF more /\ spins + 1 < MaxBurst
                   THEN phase' = "poll" /\ spins' = spins + 1
                   ELSE phase' = "send" /\ spins' = 0
                /\ UNCHANGED <<state, highest_space>>
        /\ UNCHANGED <<now, largest_acked_packet, rtt, written>>

\* The sending loop of run_connection: send_one, and PacketSpace::sent, until the queue
\* is empty.  Polling and sending take no time here, so a packet keeps its time_sent.
SendScheduled ==
    /\ phase = "send" /\ Running
    /\ phase' = "select"
    /\ sending_queue' = {}
    /\ sent_packets' = [s \in Spaces |-> sent_packets[s] \cup QueuedIn(s)]
    /\ in_flight' = [s \in Spaces |-> in_flight[s] + Cardinality(Eliciting(QueuedIn(s)))]
    /\ path_in_flight' =
         path_in_flight + Total([s \in Spaces |-> Cardinality(Eliciting(QueuedIn(s)))])
    /\ UNCHANGED <<now, spins, handshakeVars, pending, acks, next_packet_number,
                   largest_acked_packet, loss_time, rtt, written, acked, lost, confirmed>>
    /\ IF Eliciting(sending_queue) = {} THEN UNCHANGED timer ELSE SetLossDetectionTimer(rtt)

-----------------------------------------------------------------------------
(* Receiving packets, in the select of run_connection: a due timer is      *)
(* served before a datagram.                                               *)

TimerDue == timer # None /\ now >= timer
Selecting == phase = "select" /\ Running

\* Every number the peer may acknowledge: packets sent so far.
EverSent(s) == Numbers(sent_packets[s]) \cup acked[s] \cup lost[s]

\* The errors of on_ack_received.
AckRejected(s, A) ==
    \/ Largest(A) >= next_packet_number[s]
    \/ largest_acked_packet[s] # None /\ Largest(A) < largest_acked_packet[s]

\* on_ack_received, of an accepted ACK frame for the numbers A (none at all when A is
\* empty); discards: whether on_packet_authenticated has discarded the Initial space;
\* hello: what the rest of the packet adds to the frames to send; stops: whether it ends
\* with close_common.
OnAckReceived(s, A, ack_delay, discards, hello, stops) ==
    LET taken   == {p \in sent_packets[s] : p.pn \in A}
        newest  == CHOOSE p \in taken : \A q \in taken : p.pn >= q.pn
        largest == MaxOf(largest_acked_packet[s], Largest(A))
        r       == UpdateRtt(rtt, ack_delay, now - newest.time_sent)
        rest    == sent_packets[s] \ taken
        late    == DeclaredLost(rest, largest, r)
    IN  IF taken = {}
        THEN /\ DiscardSpace(discards)
             /\ IF stops THEN timer' = None
                ELSE IF discards THEN SetLossDetectionTimer(rtt) ELSE UNCHANGED timer
             /\ pending' = [pending EXCEPT ![s] = @ \cup hello]
             /\ UNCHANGED <<largest_acked_packet, rtt>>
        ELSE /\ Untrack([NoPackets EXCEPT ![s] = taken], [NoPackets EXCEPT ![s] = late], discards,
                        [loss_time EXCEPT ![s] = NextLossTime(rest, largest, r)])
             /\ IF stops THEN timer' = None ELSE SetLossDetectionTimer(r)
             /\ pending' = [pending EXCEPT ![s] = @ \cup ItemsOf(late) \cup hello]
             /\ largest_acked_packet' = [largest_acked_packet EXCEPT ![s] = largest]
             /\ rtt' = r

\* handle_data, for a packet of space s that is no duplicate, with an ACK frame for the
\* numbers A unless A is empty, then a CRYPTO frame if crypto; outcome: whether a
\* CONNECTION_CLOSE ("killed") or a frame in error ("failed") comes last.  A short-header
\* packet is dropped during the handshake.  Any other makes an ACK owed, at once except in
\* the Data space.  A rejected ACK is in error too, and hides the frames behind it.
HandleData(s, A, ack_delay, crypto, outcome) ==
    LET discards == ~IsClosed(state) /\ Side = "server" /\ hi["Initial"] /\ s = "Handshake"
    IN  /\ Selecting /\ ~TimerDue
        /\ ~(state = "Handshake" /\ s = "Data")
        /\ crypto => s # "Data"
        /\ \E owed \in IF s = "Data" /\ acks[s] # "due" THEN {"held", "due"} ELSE {"due"} :
               acks' = IF IsClosed(state) THEN acks ELSE [acks EXCEPT ![s] = owed]
        /\ IF A # {} /\ AckRejected(s, A)
           THEN /\ state' = "Closed"
                /\ timer' = IF IsClosed(state) THEN timer ELSE None
                /\ DiscardSpace(discards)
                /\ UNCHANGED <<hi, highest_space, pending, largest_acked_packet, rtt>>
           ELSE /\ OnAckReceived(s, A, ack_delay, discards,
                                 IF crypto /\ ~hi[s] THEN {Hello} ELSE {},
                                 outcome = "killed" \/ (outcome = "failed" /\ ~IsClosed(state)))
                /\ hi' = [hi EXCEPT ![s] = @ \/ crypto]
                /\ highest_space' = IF crypto /\ s = "Handshake" THEN s ELSE highest_space
                /\ state' = CASE outcome = "killed" -> "Drained"
                              [] outcome = "failed" -> "Closed"
                              [] OTHER -> IF crypto /\ state = "Handshake" THEN "Established"
                                          ELSE state
        /\ phase' = "poll"
        /\ UNCHANGED <<now, spins, pending_close, next_packet_number, sending_queue, written>>

-----------------------------------------------------------------------------
(* Timeouts, and what the application does when it is handed an event.     *)

\* The space loss_time_and_space returns: the first with the least loss time.
LossTimeSpaces ==
    LET armed == {s \in Spaces : loss_time[s] # None}
        least == {s \in armed : \A t \in armed : loss_time[s] <= loss_time[t]}
    IN  IF "Initial" \in least THEN {"Initial"}
        ELSE IF "Handshake" \in least THEN {"Handshake"}
        ELSE least

\* on_loss_detection_timeout: detect_lost_packets in the space whose loss time came, or,
\* for a probe timeout, in every space with packets in flight.
LossDetectionTimeout ==
    LET probed == IF LossTimeSpaces # {} THEN LossTimeSpaces
                  ELSE {s \in Spaces : in_flight[s] > 0}
        late   == [s \in Spaces |-> IF s \notin probed THEN {}
                     ELSE DeclaredLost(sent_packets[s], largest_acked_packet[s], rtt)]
        losses == [s \in Spaces |-> IF s \notin probed THEN loss_time[s]
                     ELSE NextLossTime(sent_packets[s], largest_acked_packet[s], rtt)]
    IN  /\ Selecting /\ TimerDue
        /\ Untrack(NoPackets, late, FALSE, losses)
        /\ SetLossDetectionTimer(rtt)
        /\ pending' = [s \in Spaces |-> pending[s] \cup ItemsOf(late[s])]
        /\ phase' = "poll"
        /\ UNCHANGED <<now, spins, handshakeVars, acks, next_packet_number,
                       largest_acked_packet, sending_queue, rtt, written>>

\* handle_timeout, MaxAckDelay
AckDelayTimeout ==
    /\ Selecting /\ acks["Data"] = "held"
    /\ acks' = [acks EXCEPT !["Data"] = "due"]
    /\ phase' = "poll"
    /\ UNCHANGED <<now, spins, handshakeVars, pending, next_packet_number, largest_acked_packet,
                   sentVars, timer, sending_queue, rtt, written>>

\* handle_timeout, Close
CloseTimeout ==
    /\ Selecting /\ state = "Closed"
    /\ state' = "Drained"
    /\ UNCHANGED <<now, phase, spins, pending_close, hi, highest_space, pending, acks,
                   next_packet_number, largest_acked_packet, sentVars, timer, sending_queue,
                   rtt, written>>

\* SendStream::write and the like: the application hands a frame over.
AppWrite(i) ==
    /\ Selecting /\ state = "Established" /\ i \notin written
    /\ written' = written \cup {i}
    /\ pending' = [pending EXCEPT !["Data"] = @ \cup {i}]
    /\ phase' = "poll"
    /\ UNCHANGED <<now, spins, handshakeVars, acks, next_packet_number, largest_acked_packet,
                   sentVars, timer, sending_queue, rtt>>

\* Connection::close
AppClose ==
    /\ Selecting /\ ~IsClosed(state)
    /\ state' = "Closed" /\ pending_close' = TRUE /\ timer' = None
    /\ phase' = "poll"
    /\ UNCHANGED <<now, spins, hi, highest_space, pending, acks, next_packet_number,
                   largest_acked_packet, sentVars, sending_queue, rtt, written>>

\* Time passes: the 5ms sleep ends the select, unless a timer is due and the task is
\* merely late.
Sleep ==
    /\ Selecting /\ now < MaxTime
    /\ now' = now + 1
    /\ phase' = IF TimerDue THEN "select" ELSE "poll"
    /\ UNCHANGED <<spins, handshakeVars, pending, acks, next_packet_number,
                   largest_acked_packet, sentVars, timer, sending_queue, rtt, written>>

Poll == \E blocked \in BOOLEAN, data \in DataFrames : PollTransmit(blocked, data)
ReceiveWith(outcome) ==
    \E s \in PeerSpaces : \E A \in SUBSET EverSent(s), d \in AckDelays, crypto \in BOOLEAN :
        HandleData(s, A, d, crypto, outcome)
Receive == \E outcome \in {"ok", "killed", "failed"} : ReceiveWith(outcome)

Next ==
    \/ Poll
    \/ SendScheduled
    \/ Receive
    \/ LossDetectionTimeout
    \/ AckDelayTimeout
    \/ CloseTimeout
    \/ \E i \in DataItems : AppWrite(i)
    \/ AppClose
    \/ Sleep

Spec == Init /\ [][Next]_vars

\* The connection task is scheduled, time does not stop (a turn of the task that takes no
\* time cannot repeat for ever), and a due timer is served: the select is biased, and only
\* the application's events, finitely many here, come before it.
FairSpec ==
    /\ Spec
    /\ WF_vars(Poll) /\ WF_vars(SendScheduled)
    /\ WF_vars(LossDetectionTimeout) /\ SF_vars(Sleep)

-----------------------------------------------------------------------------
Rtt == [latest : Nat, smoothed : Nat \cup {None}, min : Nat]

\* The types, and that the in-flight counters never wrap below zero.
TypeOK ==
    /\ now \in Nat /\ phase \in {"poll", "send", "select"} /\ spins \in Nat
    /\ state \in {"Handshake", "Established", "Closed", "Drained"}
    /\ pending_close \in BOOLEAN
    /\ hi \in [Spaces -> BOOLEAN] /\ highest_space \in Spaces
    /\ pending \in [Spaces -> SUBSET Items]
    /\ acks \in [Spaces -> {"none", "held", "due"}]
    /\ next_packet_number \in [Spaces -> Nat]
    /\ largest_acked_packet \in [Spaces -> Nat \cup {None}]
    /\ loss_time \in [Spaces -> Nat \cup {None}]
    /\ sent_packets \in [Spaces -> SUBSET Packet]
    /\ in_flight \in [Spaces -> Nat] /\ path_in_flight \in Nat
    /\ sending_queue \in SUBSET Packet
    /\ rtt \in Rtt /\ timer \in Nat \cup {None}
    /\ written \in SUBSET DataItems
    /\ acked \in [Spaces -> SUBSET Nat] /\ lost \in [Spaces -> SUBSET Nat]
    /\ confirmed \in [Spaces -> SUBSET Items]

\* Every packet number get_tx_number handed out belongs to exactly one packet, and that
\* packet is in exactly one place: scheduled, tracked, acknowledged or given up.  A
\* packet that on_ack_received or detect_lost_packets handled twice, or that send_one,
\* take or discard_space dropped, would show here.
AccountedOnce(n, Q, S, A, L) ==
    /\ 0 .. n - 1 = Numbers(Q) \cup Numbers(S) \cup A \cup L
    /\ \A p, q \in Q \cup S : p.pn = q.pn => p = q
    /\ Q \cap S = {}
    /\ (Numbers(Q) \cup Numbers(S)) \cap (A \cup L) = {}
    /\ A \cap L = {}
PacketsAccountedOnce ==
    \A s \in Spaces : AccountedOnce(next_packet_number[s], QueuedIn(s), sent_packets[s],
                                    acked[s], lost[s])

\* A frame of the application is never forgotten and never in two places at once: it
\* waits, is in one packet that is scheduled or in flight, or was acknowledged, whatever
\* was lost, acknowledged late or sent again, and also once the connection is closed.
Conserved(W, P, F, C) ==
    /\ W = P \cup ItemsOf(F) \cup C
    /\ P \cap ItemsOf(F) = {} /\ P \cap C = {} /\ ItemsOf(F) \cap C = {}
    /\ \A p, q \in F : p.items \cap q.items # {} => p = q
FramesConserved ==
    Conserved(written, pending["Data"], QueuedIn("Data") \cup sent_packets["Data"],
              confirmed["Data"])

\* The frames of the Data space that are in packets, scheduled or sent.
FramesOut == UNION {{<<p.pn, i>> : i \in p.items} : p \in QueuedIn("Data") \cup sent_packets["Data"]}

\* The connection does what FrameDelivery promises, with the packets of the Data space as
\* transmissions: whatever ACKs, timeouts and errors come in which order, a confirmed frame
\* is never sent again, a frame is confirmed only with a packet that carried it
\* (on_ack_received), and one is sent again only when an ACK has shown its packet to be
\* overtaken (detect_lost_packets).
Delivery == INSTANCE FrameDelivery WITH
    Frames <- DataItems, asked <- written, waiting <- pending["Data"], out <- FramesOut,
    next <- next_packet_number["Data"], newest <- largest_acked_packet["Data"],
    confirmed <- confirmed["Data"]
ImplementsFrameDelivery == Delivery!Spec

\* The counters of PacketSpace and NetworkPath agree with the packets tracked: the code
\* updates them apart, in send_one, take, remove_in_flight and discard_space.
InFlightMatches ==
    /\ \A s \in Spaces : in_flight[s] = Cardinality({p \in sent_packets[s] : p.ack_eliciting})
    /\ path_in_flight = Total(in_flight)

\* An open connection with a packet in flight has the loss-detection timer armed, so that
\* it cannot wait for an acknowledgement for ever.
TimerArmedWhileInFlight ==
    (~IsClosed(state) /\ \E s \in Spaces : in_flight[s] > 0) => timer # None

\* A tracked packet that a later acknowledged one has overtaken has a loss time, and the
\* timer of an open connection goes off no later than that: detect_lost_packets runs only
\* from an ACK or from this timer.
Overtaken(s) == {p \in sent_packets[s] : p.pn < largest_acked_packet[s]}
OvertakenHasLossTime ==
    \A s \in Spaces : Overtaken(s) # {} =>
        /\ loss_time[s] # None
        /\ ~IsClosed(state) => timer # None /\ timer <= loss_time[s]

\* "No loss detection takes place on closed connections": once closed, whatever arrives,
\* the loss-detection timer stays off (close_common, and the first test of
\* set_loss_detection_timer).
ClosedHasNoLossTimer == IsClosed(state) => timer = None

\* An overtaken packet is eventually acknowledged or declared lost, and its frames sent
\* again, unless the connection closes (or a bound of the model stops the task).
BoundReached ==
    \/ timer > MaxTime
    \/ phase = "poll" /\ \E s \in Spaces : CanSend(s) /\ next_packet_number[s] = MaxPackets[s]
OvertakenResolved ==
    \A s \in Spaces : (Overtaken(s) # {}) ~> (Overtaken(s) = {} \/ IsClosed(state) \/ BoundReached)

-----------------------------------------------------------------------------
(* What a comment says that the code does not do.                          *)

\* "PTO: force retransmission in all spaces that have in-flight packets"
\* (on_loss_detection_timeout): a timeout without a loss time makes the frames in flight
\* pending again.
ProbeForcesRetransmission ==
    [][LossDetectionTimeout /\ LossTimeSpaces = {} =>
         \A s \in Spaces : ItemsOf(Eliciting(sent_packets[s])) \subseteq pending'[s]]_vars
=============================================================================
