-------------------------- MODULE CongestionProofs --------------------------
(***************************************************************************)
(* The congestion window is sound, is halved at most once per handler, and *)
(* its increases are paid for, for every packet size, initial window and   *)
(* burst, and however many packets are sent, acknowledged and lost.        *)
(***************************************************************************)
EXTENDS Congestion, TLAPS

\* The part of the type invariant that does not depend on a sum over packets.
Types ==
    /\ now \in Nat
    /\ queue \in Seq(0 .. INITIAL_MTU)
    /\ next_packet_number \in Nat
    /\ sent_packets \subseteq Packet
    /\ \A p \in sent_packets : p.time_sent <= now
    /\ todo \subseteq sent_packets
    /\ congestion \in [window : Nat, ssthresh : Nat \cup {Infinity},
                       recovery_start_time : 0 .. now, bytes_acked : Nat]
    /\ window_before \in Nat
    /\ window_before >= MinimumWindow

\* While a handler runs, the window is below what it was only if recovery
\* started now: a later loss of the same handler is then ignored.
ReducedNow ==
    (phase \in {"ack", "detect", "lose"} /\ congestion.recovery_start_time < now)
        => congestion.window >= window_before

WInv == Types /\ WindowSound /\ HalvedAtMostOnce /\ ReducedNow

Controller(time) == [window : Nat, ssthresh : Nat \cup {Infinity},
                     recovery_start_time : 0 .. time, bytes_acked : Nat]

\* The three facts WindowSound states, of any controller state.
Sound(c) ==
    /\ c.window >= MinimumWindow
    /\ c.bytes_acked < c.window
    /\ c.ssthresh # Infinity => c.window >= c.ssthresh

\* NewReno::on_ack keeps the window sound and never lowers it; an increase
\* outside slow start leaves less than a packet of credit.
LEMMA OnAckSound ==
    ASSUME NEW time \in Nat, NEW c \in Controller(time), Sound(c),
           NEW sent \in Nat, NEW bytes \in 0 .. INITIAL_MTU, NEW limited
    PROVE  LET d == OnAck(c, sent, bytes, limited)
           IN  /\ d \in Controller(time)
               /\ Sound(d)
               /\ d.window >= c.window
               /\ d.recovery_start_time = c.recovery_start_time
               /\ c.ssthresh # Infinity /\ d.window > c.window
                     => d.bytes_acked < INITIAL_MTU
  <1> USE CongestionAssumption DEF Controller, Sound, MinimumWindow, Infinity
  <1>1. CASE limited \/ sent <= c.recovery_start_time
    BY <1>1 DEF OnAck
  <1>2. CASE /\ ~(limited \/ sent <= c.recovery_start_time)
             /\ c.ssthresh = Infinity \/ c.window < c.ssthresh
    BY <1>2 DEF OnAck
  <1>3. CASE /\ ~(limited \/ sent <= c.recovery_start_time)
             /\ ~(c.ssthresh = Infinity \/ c.window < c.ssthresh)
             /\ c.bytes_acked + bytes >= c.window
    <2>1. OnAck(c, sent, bytes, limited) =
             [c EXCEPT !.bytes_acked = @ + bytes - c.window,
                       !.window = @ + INITIAL_MTU]
      BY <1>3 DEF OnAck
    <2>2. /\ c.bytes_acked + bytes - c.window \in Nat
          /\ c.bytes_acked + bytes - c.window < INITIAL_MTU
          /\ c.window + INITIAL_MTU \in Nat
      BY <1>3
    <2>3. OnAck(c, sent, bytes, limited) \in Controller(time)
      BY <2>1, <2>2
    <2>4. /\ OnAck(c, sent, bytes, limited).window = c.window + INITIAL_MTU
          /\ OnAck(c, sent, bytes, limited).bytes_acked = c.bytes_acked + bytes - c.window
          /\ OnAck(c, sent, bytes, limited).ssthresh = c.ssthresh
          /\ OnAck(c, sent, bytes, limited).recovery_start_time = c.recovery_start_time
      BY <2>1
    <2>5. Sound(OnAck(c, sent, bytes, limited))
      BY <1>3, <2>2, <2>4
    <2> QED BY <2>2, <2>3, <2>4, <2>5
  <1>4. CASE /\ ~(limited \/ sent <= c.recovery_start_time)
             /\ ~(c.ssthresh = Infinity \/ c.window < c.ssthresh)
             /\ ~(c.bytes_acked + bytes >= c.window)
    BY <1>4 DEF OnAck
  <1> QED BY <1>1, <1>2, <1>3, <1>4

\* NewReno::on_congestion_event keeps the window sound; it either ignores the
\* packet or halves the window and starts recovery now.
LEMMA OnCongestionEventSound ==
    ASSUME NEW time \in Nat, NEW c \in Controller(time), Sound(c), NEW sent \in Nat
    PROVE  LET d == OnCongestionEvent(c, time, sent)
           IN  /\ d \in Controller(time)
               /\ Sound(d)
               /\ d.window <= c.window
               /\ \/ d = c
                  \/ /\ sent > c.recovery_start_time
                     /\ d.window = Halved(c.window)
                     /\ d.recovery_start_time = time
  BY CongestionAssumption
  DEF OnCongestionEvent, Controller, Sound, Halved, Larger, MinimumWindow, Infinity

\* Halving is monotone and never raises a window that is large enough.
LEMMA HalvedMonotone ==
    ASSUME NEW v \in Nat, NEW w \in Nat
    PROVE  /\ w >= v => Halved(w) >= Halved(v)
           /\ w >= MinimumWindow => w >= Halved(w)
  BY CongestionAssumption DEF Halved, Larger, MinimumWindow

\* NewReno::new starts with a sound window.
LEMMA WInvInit == Init => WInv
  <1> SUFFICES ASSUME Init PROVE WInv
    OBVIOUS
  <1>1. InitialPackets * INITIAL_MTU \in Nat /\ InitialPackets * INITIAL_MTU >= 2 * INITIAL_MTU
    BY CongestionAssumption
  <1>2. congestion = [window |-> InitialPackets * INITIAL_MTU, ssthresh |-> Infinity,
                      recovery_start_time |-> 0, bytes_acked |-> 0]
    BY DEF Init, NewReno
  <1>3. Types
    BY <1>1, <1>2, CongestionAssumption DEF Init, Types, MinimumWindow
  <1>4. WindowSound
    BY <1>1, <1>2, CongestionAssumption DEF WindowSound, MinimumWindow, Infinity
  <1>5. HalvedAtMostOnce
    BY <1>1, <1>2, HalvedMonotone DEF Init, HalvedAtMostOnce, MinimumWindow
  <1>6. ReducedNow
    BY DEF Init, ReducedNow
  <1> QED BY <1>3, <1>4, <1>5, <1>6 DEF WInv

\* WInv with the controller's part in the words of the lemmas.
LEMMA WInvParts ==
    WInv => /\ congestion \in Controller(now) /\ Sound(congestion)
            /\ now \in Nat /\ congestion.window \in Nat
  BY DEF WInv, Types, WindowSound, Controller, Sound

\* Steps that leave the controller and the handler's start alone.
LEMMA QuietStep ==
    ASSUME WInv, Types', congestion' = congestion, window_before' = window_before,
           \/ phase' \in {"poll", "send", "select"}
           \/ now' = now /\ phase \in {"ack", "detect", "lose"}
    PROVE  WInv'
  BY DEF WInv, WindowSound, HalvedAtMostOnce, ReducedNow

\* Every step of the connection task keeps the invariant: only on_ack and
\* on_congestion_event touch the controller.
LEMMA WInvNext == WInv /\ [Next]_vars => WInv'
  <1> SUFFICES ASSUME WInv, [Next]_vars PROVE WInv'
    OBVIOUS
  <1> USE CongestionAssumption
  <1>0. /\ congestion \in Controller(now) /\ Sound(congestion) /\ now \in Nat
        /\ congestion.window \in Nat
    BY WInvParts
  <1>1. ASSUME NEW ack \in BOOLEAN, PollNothing(ack) PROVE WInv'
    <2>1. Types'
      BY <1>1 DEF PollNothing, WInv, Types
    <2> QED BY <1>1, <2>1, QuietStep DEF PollNothing
  <1>2. ASSUME NEW ack \in BOOLEAN, NEW size \in 1 .. INITIAL_MTU, PollPacket(ack, size)
        PROVE WInv'
    <2>1. queue' \in Seq(0 .. INITIAL_MTU)
      BY <1>2 DEF PollPacket, WInv, Types
    <2>2. Types'
      BY <1>2, <2>1 DEF PollPacket, WInv, Types
    <2>3. phase' \in {"poll", "send"}
      BY <1>2 DEF PollPacket
    <2> QED BY <1>2, <2>2, <2>3, QuietStep DEF PollPacket
  <1>3. CASE SendOne
    <2>1. queue' \in Seq(0 .. INITIAL_MTU) /\ Head(queue) \in 0 .. INITIAL_MTU
      BY <1>3 DEF SendOne, WInv, Types
    <2>2. Types'
      <3> DEFINE p == [number |-> next_packet_number, time_sent |-> now,
                       size |-> Head(queue)]
      <3>1. p \in Packet /\ p.time_sent <= now
        BY <2>1 DEF WInv, Types, Packet
      <3>2. sent_packets' = sent_packets \cup {p}
        BY <1>3 DEF SendOne
      <3> HIDE DEF p
      <3> QED BY <1>3, <2>1, <3>1, <3>2 DEF SendOne, WInv, Types
    <2> QED BY <1>3, <2>2, QuietStep DEF SendOne
  <1>4. CASE AllSent
    <2>1. Types'
      BY <1>4 DEF AllSent, sendVars, WInv, Types
    <2> QED BY <1>4, <2>1, QuietStep DEF AllSent
  <1>5. ASSUME NEW n \in WriteSizes, AppWrite(n) PROVE WInv'
    <2>1. Types'
      BY <1>5 DEF AppWrite, sendVars, WInv, Types
    <2> QED BY <1>5, <2>1, QuietStep DEF AppWrite
  <1>6. CASE Sleep
    <2>1. Types'
      BY <1>6 DEF Sleep, sendVars, WInv, Types, Packet
    <2> QED BY <1>6, <2>1, QuietStep DEF Sleep
  <1>7. ASSUME NEW A \in SUBSET sent_packets, NEW largest \in 0 .. MaxPackets,
               ReceiveAck(A, largest)
        PROVE  WInv'
    <2>1. Types'
      BY <1>0, <1>7 DEF ReceiveAck, sendVars, WInv, Types, Sound, Controller
    <2>2. WindowSound' /\ ReducedNow'
      BY <1>0, <1>7 DEF ReceiveAck, WInv, WindowSound, ReducedNow
    <2>3. HalvedAtMostOnce'
      BY <1>0, <1>7, HalvedMonotone DEF ReceiveAck, HalvedAtMostOnce, Sound
    <2> QED BY <2>1, <2>2, <2>3 DEF WInv
  <1>8. CASE LossTimeout
    <2>1. Types'
      BY <1>0, <1>8 DEF LossTimeout, sendVars, WInv, Types, Sound, Controller
    <2>2. WindowSound' /\ ReducedNow'
      BY <1>0, <1>8 DEF LossTimeout, WInv, WindowSound, ReducedNow
    <2>3. HalvedAtMostOnce'
      BY <1>0, <1>8, HalvedMonotone DEF LossTimeout, HalvedAtMostOnce, Sound
    <2> QED BY <2>1, <2>2, <2>3 DEF WInv
  <1>9. ASSUME NEW p \in todo, AckPacket(p) PROVE WInv'
    <2>1. p.time_sent \in Nat /\ p.size \in 0 .. INITIAL_MTU
      BY DEF WInv, Types, Packet
    <2>2. /\ congestion' \in Controller(now) /\ Sound(congestion')
          /\ congestion'.window >= congestion.window
          /\ congestion'.recovery_start_time = congestion.recovery_start_time
      BY <1>0, <1>9, <2>1, OnAckSound DEF AckPacket, Controller
    <2>3. Types'
      BY <1>9, <2>2 DEF AckPacket, sendVars, WInv, Types, Controller
    <2>4. WindowSound'
      BY <2>2 DEF WindowSound, Sound
    <2>5. HalvedAtMostOnce'
      <3>1. Halved(window_before) \in Nat /\ UNCHANGED window_before
        BY <1>9 DEF AckPacket, WInv, Types, Halved, Larger, MinimumWindow
      <3> QED BY <1>0, <2>2, <3>1 DEF WInv, HalvedAtMostOnce, Controller
    <2>6. ReducedNow'
      BY <1>0, <1>9, <2>2 DEF AckPacket, WInv, Types, ReducedNow, Controller
    <2> QED BY <2>3, <2>4, <2>5, <2>6 DEF WInv
  <1>10. ASSUME NEW p \in todo, LosePacket(p) PROVE WInv'
    <2>1. /\ p.time_sent \in Nat /\ p.time_sent <= now /\ p.size \in 0 .. INITIAL_MTU
          /\ phase = "lose" /\ UNCHANGED <<now, window_before>>
      BY <1>10 DEF WInv, Types, Packet, LosePacket, sendVars
    <2>2. /\ congestion' \in Controller(now) /\ Sound(congestion')
          /\ \/ congestion' = congestion
             \/ /\ p.time_sent > congestion.recovery_start_time
                /\ congestion'.window = Halved(congestion.window)
                /\ congestion'.recovery_start_time = now
      <3>1. CASE p.size > 0
        <4>1. congestion' = OnCongestionEvent(congestion, now, p.time_sent)
          BY <1>10, <3>1 DEF LosePacket
        <4>2. LET d == OnCongestionEvent(congestion, now, p.time_sent)
              IN  /\ d \in Controller(now)
                  /\ Sound(d)
                  /\ \/ d = congestion
                     \/ /\ p.time_sent > congestion.recovery_start_time
                        /\ d.window = Halved(congestion.window)
                        /\ d.recovery_start_time = now
          BY <1>0, <2>1, OnCongestionEventSound
        <4> QED BY <4>1, <4>2, Zenon
      <3>2. CASE ~(p.size > 0)
        BY <1>0, <1>10, <3>2 DEF LosePacket
      <3> QED BY <3>1, <3>2
    <2>3. Types'
      BY <1>10, <2>2 DEF LosePacket, sendVars, WInv, Types, Controller
    <2>4. WindowSound'
      BY <2>2 DEF WindowSound, Sound
    <2>5. CASE congestion' = congestion
      BY <2>1, <2>3, <2>4, <2>5 DEF WInv, HalvedAtMostOnce, ReducedNow
    <2>6. CASE /\ p.time_sent > congestion.recovery_start_time
               /\ congestion'.window = Halved(congestion.window)
               /\ congestion'.recovery_start_time = now
      <3>1. congestion.window >= window_before
        BY <1>0, <2>1, <2>6 DEF WInv, ReducedNow, Controller
      <3>2. HalvedAtMostOnce'
        BY <1>0, <2>1, <2>6, <3>1, HalvedMonotone DEF HalvedAtMostOnce, WInv, Types
      <3>3. ReducedNow'
        BY <1>0, <2>1, <2>6 DEF ReducedNow
      <3> QED BY <2>3, <2>4, <3>2, <3>3 DEF WInv
    <2> QED BY <2>2, <2>5, <2>6
  <1>11. ASSUME NEW t \in -1 .. MaxTime, DetectLost(t) PROVE WInv'
    <2>1. Types'
      BY <1>11 DEF DetectLost, sendVars, WInv, Types
    <2> QED BY <1>11, <2>1, QuietStep DEF DetectLost
  <1>12. CASE UNCHANGED vars
    <2>1. Types'
      BY <1>12 DEF vars, WInv, Types
    <2> QED BY <1>12, <2>1 DEF vars, WInv, WindowSound, HalvedAtMostOnce, ReducedNow
  <1> QED BY <1>1, <1>2, <1>3, <1>4, <1>5, <1>6, <1>7, <1>8, <1>9, <1>10, <1>11, <1>12
          DEF Next

\* NewReno keeps a usable window (WindowSound) and detect_lost_packets halves it
\* at most once per run (HalvedAtMostOnce), in every behaviour.
THEOREM WindowCorrect == Spec => [](WindowSound /\ HalvedAtMostOnce)
  <1>1. WInv => WindowSound /\ HalvedAtMostOnce
    BY DEF WInv
  <1> QED BY <1>1, WInvInit, WInvNext, PTL DEF Spec

\* Only on_ack raises the window, and outside slow start it spends the bytes
\* that earned the increase.
THEOREM IncreasePaid == Spec => CreditSpent
  <1> DEFINE Paid == (congestion.ssthresh # Infinity /\ congestion'.window > congestion.window)
                        => congestion'.bytes_acked < INITIAL_MTU
  <1>1. WInv /\ [Next]_vars => [Paid]_vars
    <2> SUFFICES ASSUME WInv, Next PROVE Paid
      BY DEF WInv
    <2>0. /\ congestion \in Controller(now) /\ Sound(congestion) /\ now \in Nat
          /\ congestion.window \in Nat
      BY WInvParts
    <2>1. ASSUME NEW p \in todo, AckPacket(p) PROVE Paid
      <3>1. p.time_sent \in Nat /\ p.size \in 0 .. INITIAL_MTU
        BY CongestionAssumption DEF WInv, Types, Packet
      <3> QED BY <2>0, <2>1, <3>1, OnAckSound DEF AckPacket, Controller
    <2>2. ASSUME NEW p \in todo, LosePacket(p) PROVE Paid
      <3>1. p.time_sent \in Nat
        BY DEF WInv, Types, Packet
      <3>2. congestion'.window <= congestion.window /\ congestion'.window \in Nat
        <4>1. CASE p.size > 0
          <5>1. congestion' = OnCongestionEvent(congestion, now, p.time_sent)
            BY <2>2, <4>1 DEF LosePacket
          <5>2. congestion' \in Controller(now) /\ congestion'.window <= congestion.window
            BY <2>0, <3>1, <5>1, OnCongestionEventSound
          <5> QED BY <5>2 DEF Controller
        <4>2. CASE ~(p.size > 0)
          BY <2>0, <2>2, <4>2 DEF LosePacket
        <4> QED BY <4>1, <4>2
      <3> QED BY <2>0, <3>2
    <2>3. CASE UNCHANGED congestion
      BY <2>0, <2>3
    <2> QED
      BY <2>1, <2>2, <2>3
      DEF Next, PollNothing, PollPacket, SendOne, AllSent, AppWrite, Sleep,
          ReceiveAck, LossTimeout, DetectLost
  <1> QED BY <1>1, WInvInit, WInvNext, PTL DEF Spec, CreditSpent
=============================================================================
