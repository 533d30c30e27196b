------------------------ MODULE FrameDeliveryProofs ------------------------
(***************************************************************************)
(* LossRecovery implements FrameDelivery, for every side, set of frames    *)
(* and bound: each step of a connection transmits frames, settles packets, *)
(* takes a frame from the application, or leaves the Data space alone.     *)
(***************************************************************************)
EXTENDS LossRecoveryProofs

\* The packets of the Data space that are scheduled or tracked.
Travelling == QueuedIn("Data") \cup sent_packets["Data"]

\* What FramesOut holds.
LEMMA FramesOutPairs ==
    /\ \A o \in FramesOut : \E p \in Travelling : \E i \in p.items : o = <<p.pn, i>>
    /\ \A p \in Travelling : \A i \in p.items : <<p.pn, i>> \in FramesOut
  BY DEF FramesOut, Travelling

\* Two packets of the Data space have two numbers, and they carry frames of the application.
LEMMA TravellingDistinct ==
    ASSUME IInv
    PROVE  /\ \A p, q \in Travelling : p.pn = q.pn => p = q
           /\ \A p \in Travelling : p.items \subseteq DataItems /\ p.pn \in Nat
<1>1. \A p, q \in Travelling : p.pn = q.pn => p = q
  BY DEF IInv, PacketsAccountedOnce, AccountedOnce, Travelling, Spaces
<1>2. ItemsOf(Travelling) \subseteq DataItems
  BY DEF IInv, FramesConserved, Conserved, TypeOK, Travelling
<1>3. \A p \in Travelling : p.items \subseteq ItemsOf(Travelling)
  BY DEF ItemsOf
<1>4. Travelling \subseteq Packet
  BY DEF IInv, TypeOK, Travelling, QueuedIn, Spaces
<1>. QED
  BY <1>1, <1>2, <1>3, <1>4 DEF Packet

\* A step that takes the packets T and G out of the tracking, acknowledged and given up,
\* settles them: on_ack_received and on_loss_detection_timeout.
LEMMA SettleStep ==
    ASSUME IInv, NEW T \in SUBSET sent_packets["Data"], NEW G \in SUBSET sent_packets["Data"],
           T \cap G = {}, NEW n \in Int,
           largest_acked_packet["Data"] <= n, n < next_packet_number["Data"],
           \A p \in T \cup G : p.pn <= n,
           largest_acked_packet'["Data"] = n,
           sent_packets'["Data"] = sent_packets["Data"] \ (T \cup G),
           confirmed'["Data"] = confirmed["Data"] \cup ItemsOf(T),
           pending'["Data"] = pending["Data"] \cup ItemsOf(G),
           UNCHANGED <<written, next_packet_number, sending_queue>>
    PROVE  Delivery!Next
<1>. DEFINE Carriers(P) == {p.pn : p \in {q \in P : q.items # {}}}
<1>1. T \subseteq Travelling /\ G \subseteq Travelling
  BY DEF Travelling
<1>2. ASSUME NEW P \in SUBSET Travelling
      PROVE  /\ Carriers(P) \subseteq Delivery!Unsettled
             /\ Delivery!FramesIn(Carriers(P)) = ItemsOf(P)
  <2>1. Carriers(P) \subseteq Delivery!Unsettled
    <3>1. ASSUME NEW p \in P, NEW i \in p.items PROVE p.pn \in Delivery!Unsettled
      <4>1. <<p.pn, i>> \in FramesOut
        BY FramesOutPairs
      <4>. QED
        BY <4>1 DEF Delivery!Unsettled
    <3>. QED
      BY <3>1
  <2>2. Delivery!FramesIn(Carriers(P)) \subseteq ItemsOf(P)
    <3>1. ASSUME NEW p \in P, NEW i, <<p.pn, i>> \in FramesOut PROVE i \in ItemsOf(P)
      <4>1. PICK q \in Travelling : \E j \in q.items : <<p.pn, i>> = <<q.pn, j>>
        BY <3>1, FramesOutPairs
      <4>2. q = p /\ i \in q.items
        BY <4>1, TravellingDistinct
      <4>. QED
        BY <4>2 DEF ItemsOf
    <3>. QED
      BY <3>1 DEF Delivery!FramesIn
  <2>3. ItemsOf(P) \subseteq Delivery!FramesIn(Carriers(P))
    <3>1. ASSUME NEW p \in P, NEW i \in p.items
          PROVE  i \in DataItems /\ p.pn \in Carriers(P) /\ <<p.pn, i>> \in FramesOut
      BY FramesOutPairs, TravellingDistinct
    <3>. QED
      BY <3>1 DEF Delivery!FramesIn, ItemsOf
  <2>. QED
    BY <2>1, <2>2, <2>3
<1>3. Carriers(T) \cap Carriers(G) = {}
  BY <1>1, TravellingDistinct
<1>4. FramesOut' = {o \in FramesOut : o[1] \notin Carriers(T) \cup Carriers(G)}
  <2>1. Travelling' = Travelling \ (T \cup G)
    <3>1. QueuedIn("Data")' = QueuedIn("Data")
      BY DEF QueuedIn
    <3>2. QueuedIn("Data") \cap sent_packets["Data"] = {}
      BY DEF IInv, PacketsAccountedOnce, AccountedOnce, Spaces
    <3>. QED
      BY <3>1, <3>2 DEF Travelling
  <2>2. FramesOut' = UNION {{<<p.pn, i>> : i \in p.items} : p \in Travelling'}
    BY DEF FramesOut, Travelling
  <2>3. ASSUME NEW o \in FramesOut' PROVE o \in FramesOut /\ o[1] \notin Carriers(T) \cup Carriers(G)
    <3>1. PICK p \in Travelling \ (T \cup G) : \E i \in p.items : o = <<p.pn, i>>
      BY <2>1, <2>2
    <3>2. o \in FramesOut /\ o[1] = p.pn
      BY <3>1, FramesOutPairs
    <3>3. \A q \in T \cup G : q.pn # p.pn
      BY <1>1, <3>1, TravellingDistinct
    <3>. QED
      BY <3>2, <3>3
  <2>4. ASSUME NEW o \in FramesOut, o[1] \notin Carriers(T) \cup Carriers(G) PROVE o \in FramesOut'
    <3>1. PICK p \in Travelling : \E i \in p.items : o = <<p.pn, i>>
      BY FramesOutPairs
    <3>2. o[1] = p.pn /\ p.items # {}
      BY <3>1
    <3>3. p \notin T \cup G
      BY <2>4, <3>2
    <3>. QED
      BY <2>1, <2>2, <3>1, <3>3
  <2>. QED
    BY <2>3, <2>4
<1>5. \A t \in Carriers(T) \cup Carriers(G) : t <= n
  OBVIOUS
<1>6. n \in largest_acked_packet["Data"] .. next_packet_number["Data"] - 1
  BY DEF IInv, TypeOK, Spaces, None
<1>7. Delivery!Settle(Carriers(T), Carriers(G), n)
  <2>. HIDE DEF Carriers
  <2>. QED
    BY <1>1, <1>2, <1>4, <1>5 DEF Delivery!Settle
<1>8. Carriers(T) \in SUBSET Delivery!Unsettled
      /\ Carriers(G) \in SUBSET (Delivery!Unsettled \ Carriers(T))
  <2>. HIDE DEF Carriers
  <2>. QED
    BY <1>1, <1>2, <1>3
<1>. HIDE DEF Carriers
<1>. QED
  BY <1>6, <1>7, <1>8 DEF Delivery!Next

\* A step that leaves the Data space alone is no step of FrameDelivery.
LEMMA DeliveryStutters ==
    ASSUME UNCHANGED <<written, sending_queue>>,
           sent_packets'["Data"] = sent_packets["Data"], confirmed'["Data"] = confirmed["Data"],
           pending'["Data"] = pending["Data"],
           next_packet_number'["Data"] = next_packet_number["Data"],
           largest_acked_packet'["Data"] = largest_acked_packet["Data"]
    PROVE  UNCHANGED Delivery!vars
<1>1. QueuedIn("Data")' = QueuedIn("Data")
  BY DEF QueuedIn
<1>2. FramesOut' = FramesOut
  BY <1>1 DEF FramesOut
<1>. QED
  BY <1>2 DEF Delivery!vars

\* What the bookkeeping of on_ack_received, on_loss_detection_timeout and discard_space does
\* to the Data space.
LEMMA UntrackData ==
    ASSUME NEW taken, NEW late, NEW discards \in BOOLEAN, NEW losses,
           Untrack(taken, late, discards, losses)
    PROVE  /\ sent_packets'["Data"] = sent_packets["Data"] \ (taken["Data"] \cup late["Data"])
           /\ confirmed'["Data"] = confirmed["Data"] \cup ItemsOf(taken["Data"])
<1>1. Released("Data", taken, late, discards) = taken["Data"] \cup late["Data"]
  BY DEF Released
<1>. QED
  BY <1>1 DEF Untrack, Spaces

\* Discarding the Initial space is of no concern to the Data space.
LEMMA DiscardData ==
    ASSUME NEW discards \in BOOLEAN, DiscardSpace(discards)
    PROVE  sent_packets'["Data"] = sent_packets["Data"] /\ confirmed'["Data"] = confirmed["Data"]
<1>1. CASE discards
  <2>1. Untrack(NoPackets, NoPackets, TRUE, loss_time)
    BY <1>1 DEF DiscardSpace
  <2>2. NoPackets["Data"] = {} /\ ItemsOf({}) = {}
    BY DEF NoPackets, Spaces, ItemsOf
  <2>. QED
    BY <2>1, <2>2, UntrackData
<1>2. CASE ~discards
  BY <1>2 DEF DiscardSpace, sentVars
<1>. QED
  BY <1>1, <1>2

\* on_loss_detection_timeout gives up packets that an acknowledged one has overtaken.
LEMMA TimeoutDelivers ==
    ASSUME IInv, LossDetectionTimeout
    PROVE  Delivery!Next
<1>. DEFINE probed == IF LossTimeSpaces # {} THEN LossTimeSpaces ELSE {s \in Spaces : in_flight[s] > 0}
            late == [s \in Spaces |-> IF s \notin probed THEN {}
                       ELSE DeclaredLost(sent_packets[s], largest_acked_packet[s], rtt)]
            losses == [s \in Spaces |-> IF s \notin probed THEN loss_time[s]
                         ELSE NextLossTime(sent_packets[s], largest_acked_packet[s], rtt)]
            n == largest_acked_packet["Data"]
<1>1. /\ Untrack(NoPackets, late, FALSE, losses)
      /\ pending' = [s \in Spaces |-> pending[s] \cup ItemsOf(late[s])]
      /\ UNCHANGED <<next_packet_number, largest_acked_packet, sending_queue, written>>
  BY DEF LossDetectionTimeout
<1>2. late["Data"] \subseteq sent_packets["Data"] /\ \A p \in late["Data"] : p.pn <= n
  BY DEF DeclaredLost, Spaces
<1>3. n \in Int /\ n <= n /\ n < next_packet_number["Data"]
  BY DEF IInv, TypeOK, LossInv, Spaces, None
<1>. HIDE DEF late, losses, n
<1>4. NoPackets["Data"] = {}
  BY DEF NoPackets, Spaces
<1>5. /\ sent_packets'["Data"] = sent_packets["Data"] \ ({} \cup late["Data"])
      /\ confirmed'["Data"] = confirmed["Data"] \cup ItemsOf({})
  BY <1>1, <1>4, UntrackData
<1>6. pending'["Data"] = pending["Data"] \cup ItemsOf(late["Data"])
  BY <1>1 DEF Spaces
<1>7. largest_acked_packet["Data"] <= n /\ largest_acked_packet'["Data"] = n
  BY <1>1, <1>3 DEF n
<1>8. /\ \A p \in {} \cup late["Data"] : p.pn <= n
      /\ {} \in SUBSET sent_packets["Data"] /\ late["Data"] \in SUBSET sent_packets["Data"]
      /\ {} \cap late["Data"] = {}
  BY <1>2
<1>. QED
  BY <1>1, <1>3, <1>5, <1>6, <1>7, <1>8, SettleStep

\* on_ack_received confirms the packets it takes and gives up those they have overtaken.
LEMMA AckDelivers ==
    ASSUME IInv, NEW s \in Spaces, NEW A \in SUBSET EverSent(s), NEW d \in AckDelays,
           NEW discards \in BOOLEAN, NEW hello, s = "Data" => hello = {},
           NEW stops \in BOOLEAN, OnAckReceived(s, A, d, discards, hello, stops),
           UNCHANGED <<next_packet_number, sending_queue, written>>
    PROVE  Delivery!Next \/ UNCHANGED Delivery!vars
<1>. DEFINE taken == {p \in sent_packets[s] : p.pn \in A}
            newest == CHOOSE p \in taken : \A q \in taken : p.pn >= q.pn
            largest == MaxOf(largest_acked_packet[s], Largest(A))
            r == UpdateRtt(rtt, d, now - newest.time_sent)
            rest == sent_packets[s] \ taken
            late == DeclaredLost(rest, largest, r)
            takenIn == [NoPackets EXCEPT ![s] = taken]
            lateIn == [NoPackets EXCEPT ![s] = late]
            losses == [loss_time EXCEPT ![s] = NextLossTime(rest, largest, r)]
<1>1. CASE taken = {}
  <2>1. /\ DiscardSpace(discards)
        /\ pending' = [pending EXCEPT ![s] = @ \cup hello]
        /\ UNCHANGED largest_acked_packet
    BY <1>1 DEF OnAckReceived
  <2>2. pending'["Data"] = pending["Data"]
    BY <2>1 DEF IInv, TypeOK, Spaces
  <2>. QED
    BY <2>1, <2>2, DiscardData, DeliveryStutters
<1>2. CASE taken # {}
  <2>1. /\ Untrack(takenIn, lateIn, discards, losses)
        /\ pending' = [pending EXCEPT ![s] = @ \cup ItemsOf(late) \cup hello]
        /\ largest_acked_packet' = [largest_acked_packet EXCEPT ![s] = largest]
    BY <1>2 DEF OnAckReceived
  <2>2. A # {} /\ Largest(A) \in Nat /\ Largest(A) < next_packet_number[s]
    BY <1>2, LargestSent
  <2>3. /\ largest \in Int /\ largest_acked_packet[s] <= largest /\ Largest(A) <= largest
        /\ largest < next_packet_number[s]
    BY <2>2 DEF MaxOf, IInv, TypeOK, LossInv, None
  <2>4. \A p \in taken : p.pn <= largest
    <3>1. \A k \in A : k \in Nat /\ k <= Largest(A)
      <4>1. next_packet_number[s] \in Nat
        BY DEF IInv, TypeOK
      <4>2. EverSent(s) \subseteq 0 .. next_packet_number[s] - 1
        BY DEF EverSent, IInv, PacketsAccountedOnce, AccountedOnce
      <4>3. A \in SUBSET Nat /\ \A y \in A : y <= next_packet_number[s]
        BY <4>1, <4>2
      <4>4. \A y \in A : Largest(A) >= y
        BY <2>2, <4>1, <4>3, LargestMember
      <4>. QED
        BY <2>2, <4>3, <4>4
    <3>2. \A k \in A : k <= largest
      BY <2>2, <2>3, <3>1
    <3>. QED
      BY <3>2
  <2>5. \A p \in late : p.pn <= largest
    BY DEF DeclaredLost
  <2>6. taken \subseteq sent_packets[s] /\ late \subseteq sent_packets[s] /\ taken \cap late = {}
    BY DEF DeclaredLost
  <2>. HIDE DEF taken, newest, largest, r, rest, late
  <2>7. /\ takenIn["Data"] = IF s = "Data" THEN taken ELSE {}
        /\ lateIn["Data"] = IF s = "Data" THEN late ELSE {}
    BY DEF NoPackets, Spaces
  <2>. HIDE DEF takenIn, lateIn, losses
  <2>8. /\ sent_packets'["Data"] = sent_packets["Data"] \ (takenIn["Data"] \cup lateIn["Data"])
        /\ confirmed'["Data"] = confirmed["Data"] \cup ItemsOf(takenIn["Data"])
    <3>1. Untrack(takenIn, lateIn, discards, losses)
      BY <2>1
    <3>. QED
      <4>1. CASE discards
        <5>1. Untrack(takenIn, lateIn, TRUE, losses)
          BY <3>1, <4>1
        <5>. QED
          BY <5>1, UntrackData
      <4>2. CASE ~discards
        <5>1. Untrack(takenIn, lateIn, FALSE, losses)
          BY <3>1, <4>2
        <5>. QED
          BY <5>1, UntrackData
      <4>. QED
        BY <4>1, <4>2
  <2>9. CASE s = "Data"
    <3>1. /\ pending'["Data"] = pending["Data"] \cup ItemsOf(late)
          /\ largest_acked_packet'["Data"] = largest
      BY <2>1, <2>9 DEF IInv, TypeOK, Spaces
    <3>2. /\ sent_packets'["Data"] = sent_packets["Data"] \ (taken \cup late)
          /\ confirmed'["Data"] = confirmed["Data"] \cup ItemsOf(taken)
      BY <2>7, <2>8, <2>9
    <3>3. \A p \in taken \cup late : p.pn <= largest
      BY <2>4, <2>5
    <3>. QED
      BY <2>3, <2>6, <2>9, <3>1, <3>2, <3>3, SettleStep
  <2>10. CASE s # "Data"
    <3>1. ItemsOf({}) = {}
      BY DEF ItemsOf
    <3>2. /\ pending'["Data"] = pending["Data"]
          /\ largest_acked_packet'["Data"] = largest_acked_packet["Data"]
      BY <2>1, <2>10 DEF IInv, TypeOK, Spaces
    <3>3. sent_packets'["Data"] = sent_packets["Data"] /\ confirmed'["Data"] = confirmed["Data"]
      BY <2>7, <2>8, <2>10, <3>1
    <3>. QED
      BY <3>2, <3>3, DeliveryStutters
  <2>. QED
    BY <2>9, <2>10
<1>. QED
  BY <1>1, <1>2

\* handle_data: the ACK frame of a packet, if it has one and it is accepted.
LEMMA ReceiveDelivers ==
    ASSUME IInv, NEW s \in Spaces, NEW A \in SUBSET EverSent(s), NEW d \in AckDelays,
           NEW crypto \in BOOLEAN, NEW outcome \in {"ok", "killed", "failed"},
           HandleData(s, A, d, crypto, outcome)
    PROVE  Delivery!Next \/ UNCHANGED Delivery!vars
<1>. DEFINE discards == ~IsClosed(state) /\ Side = "server" /\ hi["Initial"] /\ s = "Handshake"
            hello == IF crypto /\ ~hi[s] THEN {Hello} ELSE {}
            stops == outcome = "killed" \/ (outcome = "failed" /\ ~IsClosed(state))
<1>1. UNCHANGED <<next_packet_number, sending_queue, written>> /\ (s = "Data" => hello = {})
  BY DEF HandleData
<1>2. discards \in BOOLEAN /\ stops \in BOOLEAN
  BY DEF IInv, TypeOK, Spaces
<1>3. CASE A # {} /\ AckRejected(s, A)
  <2>1. DiscardSpace(discards) /\ UNCHANGED <<pending, largest_acked_packet>>
    BY <1>3 DEF HandleData
  <2>. HIDE DEF discards
  <2>. QED
    BY <1>1, <1>2, <2>1, DiscardData, DeliveryStutters
<1>4. CASE ~(A # {} /\ AckRejected(s, A))
  <2>1. OnAckReceived(s, A, d, discards, hello, stops)
    BY <1>4 DEF HandleData
  <2>. HIDE DEF discards, hello, stops
  <2>. QED
    BY <1>1, <1>2, <2>1, AckDelivers
<1>. QED
  BY <1>3, <1>4

\* poll_transmit: a packet of the Data space is a transmission of the frames it carries.
LEMMA PollDelivers ==
    ASSUME IInv, NEW blocked \in BOOLEAN, NEW data \in DataFrames, PollTransmit(blocked, data)
    PROVE  Delivery!Next \/ UNCHANGED Delivery!vars
<1>. DEFINE close    == IsClosed(state)
            visited  == {s \in Spaces : CanSend(s) \/ (close /\ s = highest_space)}
            composed == {s \in visited : ~(CanSendOther(s) /\ blocked)}
            carried  == [s \in Spaces |-> IF close \/ s \notin composed THEN {}
                                          ELSE IF s = "Data" THEN data ELSE pending[s]]
            greeted  == [s \in Spaces |-> hi[s] \/ Hello \in carried[s]]
            discards == Side = "client" /\ "Handshake" \in visited /\ greeted["Initial"]
            packet(s) == [space |-> s, pn |-> next_packet_number[s], time_sent |-> now,
                          ack_eliciting |-> CanSendOther(s), items |-> carried[s]]
<1>1. CASE close /\ ~pending_close
  <2>1. UNCHANGED <<pending, next_packet_number, sentVars, sending_queue, largest_acked_packet, written>>
    BY <1>1 DEF PollTransmit
  <2>. QED
    BY <2>1, DeliveryStutters DEF sentVars
<1>2. CASE ~(close /\ ~pending_close)
  <2>1. /\ sending_queue' = sending_queue \cup {packet(s) : s \in composed}
        /\ next_packet_number' = [s \in Spaces |->
             next_packet_number[s] + (IF s \in composed THEN 1 ELSE 0)]
        /\ pending' = [s \in Spaces |-> pending[s] \ carried[s]]
        /\ DiscardSpace(discards)
        /\ UNCHANGED <<largest_acked_packet, written>>
    BY <1>2 DEF PollTransmit
  <2>2. /\ composed \subseteq Spaces /\ carried["Data"] \subseteq pending["Data"]
        /\ "Data" \notin composed => carried["Data"] = {}
    BY DEF DataFrames, Spaces
  <2>3. discards \in BOOLEAN
    BY DEF IInv, TypeOK, Spaces
  <2>. HIDE DEF composed, carried, greeted, discards
  <2>4. sent_packets'["Data"] = sent_packets["Data"] /\ confirmed'["Data"] = confirmed["Data"]
    BY <2>1, <2>3, DiscardData
  <2>5. \A s \in Spaces : /\ packet(s).space = s /\ packet(s).pn = next_packet_number[s]
                          /\ packet(s).items = carried[s]
    OBVIOUS
  <2>. HIDE DEF packet
  <2>6. QueuedIn("Data")' = QueuedIn("Data") \cup (IF "Data" \in composed THEN {packet("Data")} ELSE {})
    BY <2>1, <2>2, <2>5 DEF QueuedIn
  <2>7. pending'["Data"] = pending["Data"] \ carried["Data"]
    BY <2>1 DEF Spaces
  <2>8. next_packet_number["Data"] \in Nat
    BY DEF IInv, TypeOK, Spaces
  <2>9. CASE "Data" \notin composed
    <3>1. QueuedIn("Data")' = QueuedIn("Data")
      BY <2>6, <2>9
    <3>2. FramesOut' = FramesOut
      BY <2>4, <3>1 DEF FramesOut
    <3>3. pending'["Data"] = pending["Data"] /\ next_packet_number'["Data"] = next_packet_number["Data"]
      BY <2>1, <2>2, <2>7, <2>8, <2>9 DEF Spaces
    <3>. QED
      BY <2>1, <2>4, <3>2, <3>3 DEF Delivery!vars
  <2>10. CASE "Data" \in composed
    <3>1. Travelling' = Travelling \cup {packet("Data")}
      BY <2>4, <2>6, <2>10 DEF Travelling
    <3>2. packet("Data").pn = next_packet_number["Data"] /\ packet("Data").items = carried["Data"]
      BY <2>5 DEF Spaces
    <3>3. FramesOut' = UNION {{<<p.pn, i>> : i \in p.items} : p \in Travelling'}
      BY DEF FramesOut, Travelling
    <3>4. FramesOut = UNION {{<<p.pn, i>> : i \in p.items} : p \in Travelling}
      BY DEF FramesOut, Travelling
    <3>5. FramesOut' = FramesOut \cup {<<next_packet_number["Data"], i>> : i \in carried["Data"]}
      <4>1. ASSUME NEW o \in FramesOut'
            PROVE  o \in FramesOut \cup {<<next_packet_number["Data"], i>> : i \in carried["Data"]}
        <5>1. PICK p \in Travelling' : \E i \in p.items : o = <<p.pn, i>>
          BY <3>3
        <5>2. CASE p \in Travelling
          BY <3>4, <5>1, <5>2
        <5>3. CASE p = packet("Data")
          BY <3>2, <5>1, <5>3
        <5>. QED
          BY <3>1, <5>2, <5>3
      <4>2. FramesOut \subseteq FramesOut'
        BY <3>1, <3>3, <3>4
      <4>3. {<<next_packet_number["Data"], i>> : i \in carried["Data"]} \subseteq FramesOut'
        BY <3>1, <3>2, <3>3
      <4>. QED
        BY <4>1, <4>2, <4>3
    <3>6. next_packet_number'["Data"] = next_packet_number["Data"] + 1
      BY <2>1, <2>10 DEF Spaces
    <3>7. Delivery!Transmit(carried["Data"])
      BY <2>1, <2>4, <2>7, <3>5, <3>6 DEF Delivery!Transmit
    <3>. QED
      BY <2>2, <3>7 DEF Delivery!Next
  <2>. QED
    BY <2>9, <2>10
<1>. QED
  BY <1>1, <1>2

\* send_one moves packets from the queue to the tracked ones, with the frames in them.
LEMMA SendDelivers ==
    ASSUME SendScheduled
    PROVE  UNCHANGED Delivery!vars
<1>1. /\ sent_packets'["Data"] = sent_packets["Data"] \cup QueuedIn("Data")
      /\ sending_queue' = {}
      /\ UNCHANGED <<written, pending, next_packet_number, largest_acked_packet, confirmed>>
  BY DEF SendScheduled, Spaces
<1>2. QueuedIn("Data")' = {}
  BY <1>1 DEF QueuedIn
<1>3. Travelling' = Travelling
  BY <1>1, <1>2 DEF Travelling
<1>4. FramesOut' = FramesOut
  BY <1>3 DEF FramesOut, Travelling
<1>. QED
  BY <1>1, <1>4 DEF Delivery!vars

\* A write of the application asks for a frame.
LEMMA WriteDelivers ==
    ASSUME IInv, NEW i \in DataItems, AppWrite(i)
    PROVE  Delivery!Next
<1>1. /\ i \notin written /\ written' = written \cup {i}
      /\ pending'["Data"] = pending["Data"] \cup {i}
      /\ UNCHANGED <<next_packet_number, largest_acked_packet, sent_packets, sending_queue, confirmed>>
  BY DEF AppWrite, sentVars, IInv, TypeOK, Spaces
<1>2. QueuedIn("Data")' = QueuedIn("Data")
  BY <1>1 DEF QueuedIn
<1>3. FramesOut' = FramesOut
  BY <1>1, <1>2 DEF FramesOut
<1>4. Delivery!Ask(i)
  BY <1>1, <1>3 DEF Delivery!Ask
<1>. QED
  BY <1>4 DEF Delivery!Next

\* A new connection has asked for and sent no frame.
LEMMA DeliveryInit == Init => Delivery!Init
<1>. SUFFICES ASSUME Init PROVE Delivery!Init
  OBVIOUS
<1>1. QueuedIn("Data") = {} /\ sent_packets["Data"] = {}
  BY DEF Init, QueuedIn, Spaces
<1>2. FramesOut = {}
  BY <1>1 DEF FramesOut
<1>. QED
  BY <1>2 DEF Init, Delivery!Init, Spaces, None

\* Every step of a connection is a step of FrameDelivery, or none.
LEMMA DeliveryNext == IInv /\ [Next]_vars => [Delivery!Next]_(Delivery!vars)
<1>. SUFFICES ASSUME IInv, [Next]_vars PROVE Delivery!Next \/ UNCHANGED Delivery!vars
  OBVIOUS
<1>1. CASE UNCHANGED vars
  BY <1>1, DeliveryStutters DEF vars, sentVars
<1>2. CASE Poll
  BY <1>2, PollDelivers DEF Poll
<1>3. CASE SendScheduled
  BY <1>3, SendDelivers
<1>4. CASE Receive
  BY <1>4, ReceiveDelivers, BoundsAssumption DEF Receive, ReceiveWith
<1>5. CASE AckDelayTimeout \/ CloseTimeout \/ AppClose \/ Sleep
  <2>1. UNCHANGED <<pending, next_packet_number, largest_acked_packet, sentVars, sending_queue, written>>
    BY <1>5 DEF AckDelayTimeout, CloseTimeout, AppClose, Sleep
  <2>. QED
    BY <2>1, DeliveryStutters DEF sentVars
<1>6. CASE LossDetectionTimeout
  BY <1>6, TimeoutDelivers
<1>7. CASE \E i \in DataItems : AppWrite(i)
  BY <1>7, WriteDelivers
<1>. QED
  BY <1>1, <1>2, <1>3, <1>4, <1>5, <1>6, <1>7 DEF Next

\* A connection delivers frames as FrameDelivery promises, whatever the peer acknowledges, the
\* application writes, and the order of timeouts and packets: a frame that was confirmed is
\* never sent again, it is confirmed only by on_ack_received with a packet that carried it,
\* and detect_lost_packets gives up only packets that an acknowledged one has overtaken.
THEOREM DeliveryImplemented == Spec => ImplementsFrameDelivery
  BY Invariance, DeliveryInit, DeliveryNext, PTL DEF Spec, ImplementsFrameDelivery, Delivery!Spec

=============================================================================
