------------------------- MODULE LossRecoveryProofs -------------------------
(***************************************************************************)
(* Proofs about LossRecovery, for every side, set of frames and bound.     *)
(***************************************************************************)
EXTENDS LossRecovery, FiniteSetTheorems, WellFoundedInduction, TLAPS

-----------------------------------------------------------------------------
(* Numbers, and the least and the largest element of a set of them.        *)

\* What is below a number is below it and its successor: packet numbers grow by one.
LEMMA BelowNext ==
    ASSUME NEW m \in Int, NEW n \in Int, m < n
    PROVE  m <= n /\ n > m /\ m < n + 1 /\ m < n + 0
  OBVIOUS

\* A nonempty set of naturals has a least element, which Least picks: what the minima
\* over loss times and send times in set_loss_detection_timer return.
LEMMA LeastMember ==
    ASSUME NEW S \in SUBSET Nat, S # {}
    PROVE  Least(S) \in S /\ \A y \in S : Least(S) <= y
<1>. DEFINE T == {0 .. y : y \in S}
            R == StrictSubsetOrdering(Nat)
<1>1. T \subseteq FiniteSubsetsOf(Nat) /\ T # {}
  <2>1. ASSUME NEW y \in S PROVE 0 .. y \in FiniteSubsetsOf(Nat)
    <3>1. IsFiniteSet(0 .. y)
      BY FS_Interval
    <3>. QED
      BY <3>1 DEF FiniteSubsetsOf
  <2>. QED
    BY <2>1
<1>2. PICK X \in T : \A Y \in T : ~(<<Y, X>> \in R)
  BY <1>1, FS_StrictSubsetOrderingWellFounded, WFMin
<1>3. PICK x \in S : X = 0 .. x
  OBVIOUS
<1>4. \A y \in S : x <= y
  <2>. SUFFICES ASSUME NEW y \in S, y < x PROVE FALSE
    OBVIOUS
  <2>1. 0 .. y \subseteq 0 .. x /\ x \in 0 .. x /\ x \notin 0 .. y
    OBVIOUS
  <2>2. <<0 .. y, X>> \in R
    BY <1>3, <2>1 DEF StrictSubsetOrdering
  <2>. QED
    BY <1>2, <2>2
<1>. QED
  BY <1>4 DEF Least

\* A nonempty set of naturals with an upper bound has a largest element, which Largest
\* picks: the largest number of an ACK frame.
LEMMA LargestMember ==
    ASSUME NEW S \in SUBSET Nat, S # {}, NEW n \in Nat, \A y \in S : y <= n
    PROVE  Largest(S) \in S /\ \A y \in S : Largest(S) >= y
<1>. DEFINE T == {n - y : y \in S}
<1>1. T \in SUBSET Nat /\ T # {}
  <2>1. ASSUME NEW y \in S PROVE n - y \in Nat
    <3>1. y \in Nat /\ y <= n
      OBVIOUS
    <3>. QED
      BY <3>1
  <2>2. PICK z \in S : TRUE
    OBVIOUS
  <2>3. n - z \in T
    BY <2>2
  <2>. QED
    BY <2>1, <2>3
<1>2. Least(T) \in T /\ \A t \in T : Least(T) <= t
  BY <1>1, LeastMember
<1>3. PICK x \in S : Least(T) = n - x
  BY <1>2
<1>4. \A y \in S : x >= y
  <2>. SUFFICES ASSUME NEW y \in S PROVE x >= y
    OBVIOUS
  <2>1. n - x <= n - y
    BY <1>2, <1>3
  <2>. QED
    BY <2>1
<1>. QED
  BY <1>4 DEF Largest

-----------------------------------------------------------------------------
(* Where packets are: AccountedOnce, one space at a time.                  *)

\* get_tx_number gives the packet composed a number nobody has.
LEMMA ComposeAccounted ==
    ASSUME NEW n \in Nat, NEW Q, NEW S, NEW A, NEW L, NEW p, p.pn = n,
           AccountedOnce(n, Q, S, A, L)
    PROVE  AccountedOnce(n + 1, Q \cup {p}, S, A, L)
<1>1. n \notin 0 .. n - 1 /\ 0 .. (n + 1) - 1 = 0 .. n - 1 \cup {n}
  OBVIOUS
<1>2. Numbers(Q \cup {p}) = Numbers(Q) \cup {n}
  BY DEF Numbers
<1>3. \A q \in Q \cup S : q.pn # n
  BY <1>1 DEF AccountedOnce, Numbers
<1>4. n \notin A \cup L
  BY <1>1 DEF AccountedOnce
<1>5. \A q, r \in (Q \cup {p}) \cup S : q.pn = r.pn => q = r
  BY <1>3 DEF AccountedOnce
<1>6. (Q \cup {p}) \cap S = {}
  BY <1>3 DEF AccountedOnce
<1>8. 0 .. (n + 1) - 1 = Numbers(Q \cup {p}) \cup Numbers(S) \cup A \cup L
  BY <1>1, <1>2 DEF AccountedOnce
<1>9. (Numbers(Q \cup {p}) \cup Numbers(S)) \cap (A \cup L) = {}
  BY <1>2, <1>4 DEF AccountedOnce
<1>. QED
  BY <1>5, <1>6, <1>8, <1>9 DEF AccountedOnce

\* send_one moves the scheduled packets to the tracked ones.
LEMMA SendAccounted ==
    ASSUME NEW n, NEW Q, NEW S, NEW A, NEW L, AccountedOnce(n, Q, S, A, L)
    PROVE  AccountedOnce(n, {}, S \cup Q, A, L)
<1>1. Numbers(S \cup Q) = Numbers(S) \cup Numbers(Q) /\ Numbers({}) = {}
  BY DEF Numbers
<1>. QED
  BY <1>1 DEF AccountedOnce

\* Packets that stop being tracked, some acknowledged (T) and some given up (G).
LEMMA ReleaseAccounted ==
    ASSUME NEW n, NEW Q, NEW S, NEW A, NEW L, NEW T \in SUBSET S, NEW G \in SUBSET S,
           T \cap G = {}, AccountedOnce(n, Q, S, A, L)
    PROVE  AccountedOnce(n, Q, S \ (T \cup G), A \cup Numbers(T), L \cup Numbers(G))
<1>. DEFINE R == S \ (T \cup G)
<1>1. Numbers(S) = Numbers(R) \cup Numbers(T) \cup Numbers(G)
  BY DEF Numbers
<1>2. /\ Numbers(T) \cap Numbers(G) = {}
      /\ Numbers(R) \cap (Numbers(T) \cup Numbers(G)) = {}
  BY DEF AccountedOnce, Numbers
<1>3. Numbers(Q) \cap (Numbers(T) \cup Numbers(G)) = {}
  BY DEF AccountedOnce, Numbers
<1>4. \A p, q \in Q \cup R : p.pn = q.pn => p = q
  BY DEF AccountedOnce
<1>5. Q \cap R = {}
  BY DEF AccountedOnce
<1>. QED
  BY <1>1, <1>2, <1>3, <1>4, <1>5 DEF AccountedOnce

-----------------------------------------------------------------------------
(* Where frames are: Conserved.                                            *)

\* populate_packet moves some of the pending frames into one new packet.
LEMMA ComposeConserved ==
    ASSUME NEW W, NEW P, NEW F, NEW C, NEW p, p.items \subseteq P, Conserved(W, P, F, C)
    PROVE  Conserved(W, P \ p.items, F \cup {p}, C)
<1>1. ItemsOf(F \cup {p}) = ItemsOf(F) \cup p.items
  BY DEF ItemsOf
<1>2. \A q \in F : q.items \subseteq ItemsOf(F)
  BY DEF ItemsOf
<1>3. \A q, r \in F \cup {p} : q.items \cap r.items # {} => q = r
  BY <1>2 DEF Conserved
<1>. QED
  BY <1>1, <1>3 DEF Conserved

\* The frames of acknowledged packets (T) are done with, those of lost ones (G) wait again.
LEMMA ReleaseConserved ==
    ASSUME NEW W, NEW P, NEW F, NEW C, NEW T \in SUBSET F, NEW G \in SUBSET F,
           T \cap G = {}, Conserved(W, P, F, C)
    PROVE  Conserved(W, P \cup ItemsOf(G), F \ (T \cup G), C \cup ItemsOf(T))
<1>. DEFINE R == F \ (T \cup G)
<1>1. ItemsOf(F) = ItemsOf(R) \cup ItemsOf(T) \cup ItemsOf(G)
  BY DEF ItemsOf
<1>2. /\ ItemsOf(T) \cap ItemsOf(G) = {}
      /\ ItemsOf(R) \cap ItemsOf(T) = {}
      /\ ItemsOf(R) \cap ItemsOf(G) = {}
  BY DEF Conserved, ItemsOf
<1>3. \A p, q \in R : p.items \cap q.items # {} => p = q
  BY DEF Conserved
<1>. QED
  BY <1>1, <1>2, <1>3 DEF Conserved

\* A frame the application hands over is new.
LEMMA WriteConserved ==
    ASSUME NEW W, NEW P, NEW F, NEW C, NEW i, i \notin W, Conserved(W, P, F, C)
    PROVE  Conserved(W \cup {i}, P \cup {i}, F, C)
  BY DEF Conserved

-----------------------------------------------------------------------------
(* Counting the packets in flight.                                         *)

\* The ack-eliciting packets of a finite set are finitely many.
LEMMA ElicitingFinite ==
    ASSUME NEW S, IsFiniteSet(S)
    PROVE  IsFiniteSet(Eliciting(S)) /\ Cardinality(Eliciting(S)) \in Nat
<1>1. Eliciting(S) \in SUBSET S
  BY DEF Eliciting
<1>. QED
  BY <1>1, FS_Subset, FS_CardinalityType

\* send_one adds the packets it sends to the count.
LEMMA CountSent ==
    ASSUME NEW S, NEW Q, IsFiniteSet(S), IsFiniteSet(Q), Q \cap S = {}
    PROVE  Cardinality(Eliciting(S \cup Q)) = Cardinality(Eliciting(S)) + Cardinality(Eliciting(Q))
<1>1. Eliciting(S \cup Q) = Eliciting(S) \cup Eliciting(Q) /\ Eliciting(S) \cap Eliciting(Q) = {}
  BY DEF Eliciting
<1>2. Cardinality({}) = 0
  BY FS_EmptySet
<1>3. /\ IsFiniteSet(Eliciting(S)) /\ IsFiniteSet(Eliciting(Q))
      /\ Cardinality(Eliciting(S)) \in Nat /\ Cardinality(Eliciting(Q)) \in Nat
  BY ElicitingFinite
<1>4. Cardinality(Eliciting(S) \cup Eliciting(Q)) =
        Cardinality(Eliciting(S)) + Cardinality(Eliciting(Q))
          - Cardinality(Eliciting(S) \cap Eliciting(Q))
  BY <1>3, FS_Union
<1>5. Cardinality(Eliciting(S) \cap Eliciting(Q)) = 0
  BY <1>1, <1>2, Zenon
<1>6. Cardinality(Eliciting(S \cup Q)) = Cardinality(Eliciting(S) \cup Eliciting(Q))
  BY <1>1, Zenon
<1>. QED
  BY <1>3, <1>4, <1>5, <1>6

\* take and remove_in_flight subtract what they remove.
LEMMA CountReleased ==
    ASSUME NEW S, NEW X \in SUBSET S, IsFiniteSet(S)
    PROVE  Cardinality(Eliciting(S \ X)) = Cardinality(Eliciting(S)) - Cardinality(Eliciting(X))
<1>1. Eliciting(S \ X) = Eliciting(S) \ Eliciting(X) /\ Eliciting(S) \cap Eliciting(X) = Eliciting(X)
  BY DEF Eliciting
<1>2. IsFiniteSet(Eliciting(S))
  BY ElicitingFinite
<1>3. Cardinality(Eliciting(S) \ Eliciting(X))
        = Cardinality(Eliciting(S)) - Cardinality(Eliciting(S) \cap Eliciting(X))
  BY <1>2, FS_Difference
<1>. QED
  BY <1>1, <1>3

-----------------------------------------------------------------------------
(* Times.                                                                  *)

\* The larger and the smaller of two times are times.
LEMMA MaxMinType == \A a, b \in Nat : MaxOf(a, b) \in Nat /\ MinOf(a, b) \in Nat
  BY DEF MaxOf, MinOf

\* RttEstimator::conservative, the probe timeout and the loss delay are durations.
LEMMA DelayType ==
    ASSUME NEW r \in Rtt
    PROVE  Conservative(r) \in Nat /\ PTO(r) \in Nat /\ LossDelay(r) \in Nat
<1>1. Conservative(r) \in Nat
  BY MaxMinType DEF Conservative, Rtt, None
<1>2. PTO(r) \in Nat
  BY <1>1, BoundsAssumption DEF PTO
<1>3. (Conservative(r) * 9) \div 8 \in Nat
  BY <1>1
<1>. QED
  BY <1>1, <1>2, <1>3, MaxMinType, BoundsAssumption DEF LossDelay

\* RttEstimator::update never underflows: the delay is only subtracted from a larger sample.
LEMMA UpdateRttType ==
    ASSUME NEW r \in Rtt, NEW d \in Nat, NEW x \in Nat
    PROVE  UpdateRtt(r, d, x) \in Rtt
<1>. DEFINE least == MinOf(r.min, x)
            adjusted == IF x > least + d THEN x - d ELSE x
<1>1. least \in Nat
  BY MaxMinType DEF Rtt
<1>2. adjusted \in Nat
  BY <1>1
<1>3. r.smoothed # None => (r.smoothed * 7 + adjusted) \div 8 \in Nat
  <2>. HIDE DEF adjusted
  <2>. QED
    BY <1>2 DEF Rtt, None
<1>. HIDE DEF least, adjusted
<1>4. [latest |-> x, min |-> least,
       smoothed |-> IF r.smoothed = None THEN adjusted
                    ELSE (r.smoothed * 7 + adjusted) \div 8] \in Rtt
  BY <1>1, <1>2, <1>3 DEF Rtt
<1>. QED
  BY <1>4 DEF UpdateRtt, least, adjusted

\* What detect_lost_packets leaves in loss_time is a time or None, and a time when a
\* packet up to the largest acknowledged one is still waiting.
LEMMA NextLossTimeType ==
    ASSUME NEW P \in SUBSET Packet, NEW largest \in Int, NEW r \in Rtt
    PROVE  /\ NextLossTime(P, largest, r) \in Nat \cup {None}
           /\ (\E p \in P \ DeclaredLost(P, largest, r) : p.pn <= largest)
                => NextLossTime(P, largest, r) # None
<1>. DEFINE waiting == {p \in P : p.pn <= largest} \ DeclaredLost(P, largest, r)
            T == {p.time_sent + LossDelay(r) : p \in waiting}
<1>1. T \in SUBSET Nat
  BY DelayType DEF Packet
<1>2. waiting # {} => Least(T) \in Nat
  <2>. SUFFICES ASSUME waiting # {} PROVE Least(T) \in Nat
    OBVIOUS
  <2>1. T # {}
    OBVIOUS
  <2>. HIDE DEF T
  <2>. QED
    BY <1>1, <2>1, LeastMember
<1>3. NextLossTime(P, largest, r) = IF waiting = {} THEN None ELSE Least(T)
  BY DEF NextLossTime
<1>4. (\E p \in P \ DeclaredLost(P, largest, r) : p.pn <= largest) => waiting # {}
  OBVIOUS
<1>. HIDE DEF waiting, T
<1>. QED
  BY <1>2, <1>3, <1>4 DEF None

\* The first packet of a nonempty map is one of its packets.
LEMMA FirstSentMember ==
    ASSUME NEW P \in SUBSET Packet, P # {}
    PROVE  FirstSent(P) \in P
<1>1. Numbers(P) \in SUBSET Nat /\ Numbers(P) # {}
  BY DEF Numbers, Packet
<1>2. PICK p \in P : p.pn = Least(Numbers(P))
  BY <1>1, LeastMember DEF Numbers
<1>3. \A q \in P : p.pn <= q.pn
  BY <1>1, <1>2, LeastMember DEF Numbers
<1>. QED
  BY <1>2, <1>3 DEF FirstSent

-----------------------------------------------------------------------------
(* The inductive invariant.  Beside the properties themselves it needs:    *)
(* packets were sent in the past, the queue is empty outside the sending   *)
(* turn and holds only numbers above every acknowledged one, and the timer *)
(* of an open connection is no later than any loss time.                   *)

Shape ==
    /\ phase = "select" => sending_queue = {}
    /\ IsFiniteSet(sending_queue)
    /\ \A p \in sending_queue : p.time_sent <= now
    /\ \A s \in Spaces : IsFiniteSet(sent_packets[s])
    /\ \A s \in Spaces : \A p \in sent_packets[s] : p.time_sent <= now

LossInv ==
    \A s \in Spaces :
        /\ Overtaken(s) # {} => loss_time[s] # None
        /\ \A p \in QueuedIn(s) : p.pn > largest_acked_packet[s]
        /\ largest_acked_packet[s] < next_packet_number[s]

TimerInv ==
    /\ IsClosed(state) => timer = None
    /\ ~IsClosed(state) =>
         /\ \A s \in Spaces : loss_time[s] # None => timer # None /\ timer <= loss_time[s]
         /\ (\E s \in Spaces : in_flight[s] > 0) => timer # None

IInv == /\ TypeOK /\ PacketsAccountedOnce /\ FramesConserved /\ InFlightMatches
        /\ Shape /\ LossInv /\ TimerInv

\* The invariant implies the properties that are not among its conjuncts.
LEMMA IInvImplies ==
    IInv => TimerArmedWhileInFlight /\ OvertakenHasLossTime /\ ClosedHasNoLossTimer
  BY DEF IInv, LossInv, TimerInv, TimerArmedWhileInFlight, OvertakenHasLossTime,
         ClosedHasNoLossTimer

\* It holds of a new connection.
LEMMA IInvInit == Init => IInv
<1>. SUFFICES ASSUME Init PROVE IInv
  OBVIOUS
<1>1. \A s \in Spaces : QueuedIn(s) = {} /\ sent_packets[s] = {} /\ Eliciting(sent_packets[s]) = {}
  BY DEF Init, QueuedIn, Eliciting
<1>2. TypeOK
  BY BoundsAssumption DEF Init, TypeOK, Spaces, Items, NewRtt, Rtt, None
<1>3. PacketsAccountedOnce
  BY <1>1 DEF Init, PacketsAccountedOnce, AccountedOnce, Numbers
<1>4. FramesConserved
  <2>1. pending["Data"] = {} /\ confirmed["Data"] = {}
    BY DEF Init, Spaces
  <2>. QED
    BY <1>1, <2>1 DEF Init, FramesConserved, Conserved, ItemsOf, Spaces
<1>5. InFlightMatches
  BY <1>1, FS_EmptySet DEF Init, InFlightMatches, Total, Spaces
<1>6. Shape
  BY <1>1, FS_EmptySet DEF Init, Shape
<1>7. LossInv /\ TimerInv
  BY <1>1 DEF Init, LossInv, TimerInv, Overtaken, IsClosed, None
<1>. QED
  BY <1>2, <1>3, <1>4, <1>5, <1>6, <1>7 DEF IInv

-----------------------------------------------------------------------------
(* Steps on the packets tracked.                                           *)

\* What a step that tracks no new packet leaves, before the packets and frames it composes:
\* the frames in extra wait again.
TrackedNext(extra) ==
    /\ sent_packets' \in [Spaces -> SUBSET Packet]
    /\ \A s \in Spaces : sent_packets'[s] \subseteq sent_packets[s]
    /\ in_flight' \in [Spaces -> Nat] /\ path_in_flight' \in Nat
    /\ acked' \in [Spaces -> SUBSET Nat] /\ lost' \in [Spaces -> SUBSET Nat]
    /\ confirmed' \in [Spaces -> SUBSET Items]
    /\ InFlightMatches'
    /\ \A s \in Spaces :
         AccountedOnce(next_packet_number[s], QueuedIn(s), sent_packets'[s], acked'[s], lost'[s])
    /\ Conserved(written, pending["Data"] \cup extra, QueuedIn("Data") \cup sent_packets'["Data"],
                 confirmed'["Data"])

\* Packets released by take, remove_in_flight or discard_space.
LEMMA UntrackTracked ==
    ASSUME IInv, NEW taken \in [Spaces -> SUBSET Packet], NEW late \in [Spaces -> SUBSET Packet],
           \A s \in Spaces : /\ taken[s] \subseteq sent_packets[s]
                             /\ late[s] \subseteq sent_packets[s]
                             /\ taken[s] \cap late[s] = {},
           NEW discards \in BOOLEAN, discards => taken["Initial"] = {},
           NEW losses, Untrack(taken, late, discards, losses)
    PROVE  TrackedNext(ItemsOf(late["Data"]))
<1>. DEFINE gone == [s \in Spaces |-> Released(s, taken, late, discards)]
            given == [s \in Spaces |-> gone[s] \ taken[s]]
            count == [s \in Spaces |-> Cardinality(Eliciting(gone[s]))]
<1>1. ASSUME NEW s \in Spaces
      PROVE  /\ gone[s] \subseteq sent_packets[s]
             /\ given[s] \subseteq sent_packets[s]
             /\ taken[s] \cap given[s] = {}
             /\ gone[s] = taken[s] \cup given[s]
  <2>1. CASE discards /\ s = "Initial"
    BY <2>1 DEF Released
  <2>2. CASE ~(discards /\ s = "Initial")
    BY <2>2 DEF Released
  <2>. QED
    BY <2>1, <2>2
<1>2. /\ sent_packets' = [s \in Spaces |-> sent_packets[s] \ gone[s]]
      /\ in_flight' = [s \in Spaces |-> IF discards /\ s = "Initial" THEN 0
                                        ELSE in_flight[s] - count[s]]
      /\ path_in_flight' = path_in_flight - Total(count)
      /\ acked' = [s \in Spaces |-> acked[s] \cup Numbers(taken[s])]
      /\ lost' = [s \in Spaces |-> lost[s] \cup Numbers(given[s])]
      /\ confirmed' = [s \in Spaces |-> confirmed[s] \cup ItemsOf(taken[s])]
  BY DEF Untrack
<1>3. gone["Data"] = taken["Data"] \cup late["Data"]
  BY DEF Released, Spaces
<1>. HIDE DEF gone, given, count
<1>4. sent_packets' \in [Spaces -> SUBSET Packet]
  BY <1>2 DEF IInv, TypeOK
<1>5. \A s \in Spaces : sent_packets'[s] \subseteq sent_packets[s]
  BY <1>2
<1>6. /\ acked' \in [Spaces -> SUBSET Nat] /\ lost' \in [Spaces -> SUBSET Nat]
      /\ confirmed' \in [Spaces -> SUBSET Items]
  <2>1. \A s \in Spaces : Numbers(taken[s]) \subseteq Nat /\ Numbers(given[s]) \subseteq Nat
    BY <1>1 DEF IInv, TypeOK, Numbers, Packet
  <2>2. \A s \in Spaces : ItemsOf(taken[s]) \subseteq Items
    BY DEF ItemsOf, Packet
  <2>. QED
    BY <1>2, <2>1, <2>2 DEF IInv, TypeOK
<1>7. ASSUME NEW s \in Spaces
      PROVE  /\ in_flight'[s] = Cardinality(Eliciting(sent_packets'[s]))
             /\ in_flight'[s] \in Nat /\ count[s] \in Nat
             /\ in_flight'[s] = in_flight[s] - count[s]
  <2>1. IsFiniteSet(sent_packets[s]) /\ in_flight[s] = Cardinality(Eliciting(sent_packets[s]))
    BY DEF IInv, Shape, InFlightMatches, Eliciting
  <2>2. sent_packets'[s] = sent_packets[s] \ gone[s] /\ count[s] = Cardinality(Eliciting(gone[s]))
    BY <1>2 DEF count
  <2>3. Cardinality(Eliciting(sent_packets'[s])) = in_flight[s] - count[s]
    BY <1>1, <2>1, <2>2, CountReleased
  <2>4. IsFiniteSet(gone[s]) /\ IsFiniteSet(sent_packets'[s])
    BY <1>1, <1>5, <2>1, FS_Subset
  <2>5. Cardinality(Eliciting(sent_packets'[s])) \in Nat /\ count[s] \in Nat
    BY <2>2, <2>4, ElicitingFinite
  <2>6. CASE discards /\ s = "Initial"
    <3>1. gone[s] = sent_packets[s]
      BY <2>6 DEF gone, Released
    <3>2. count[s] = in_flight[s]
      BY <2>1, <2>2, <3>1
    <3>. QED
      BY <1>2, <2>1, <2>3, <2>5, <2>6, <3>2
  <2>7. CASE ~(discards /\ s = "Initial")
    BY <1>2, <2>3, <2>5, <2>7
  <2>. QED
    BY <2>6, <2>7
<1>8. in_flight' \in [Spaces -> Nat]
  BY <1>2, <1>7
<1>9. path_in_flight' = Total(in_flight') /\ path_in_flight' \in Nat
  <2>1. path_in_flight = Total(in_flight) /\ \A s \in Spaces : in_flight[s] \in Nat
    BY DEF IInv, InFlightMatches, TypeOK
  <2>. QED
    BY <1>2, <1>7, <2>1 DEF Total, Spaces
<1>10. InFlightMatches'
  BY <1>7, <1>9 DEF InFlightMatches, Eliciting
<1>11. ASSUME NEW s \in Spaces
       PROVE  AccountedOnce(next_packet_number[s], QueuedIn(s), sent_packets'[s], acked'[s], lost'[s])
  <2>1. /\ sent_packets'[s] = sent_packets[s] \ (taken[s] \cup given[s])
        /\ acked'[s] = acked[s] \cup Numbers(taken[s])
        /\ lost'[s] = lost[s] \cup Numbers(given[s])
    BY <1>1, <1>2
  <2>2. AccountedOnce(next_packet_number[s], QueuedIn(s), sent_packets[s], acked[s], lost[s])
    BY DEF IInv, PacketsAccountedOnce
  <2>3. taken[s] \in SUBSET sent_packets[s] /\ given[s] \in SUBSET sent_packets[s]
        /\ taken[s] \cap given[s] = {}
    BY <1>1
  <2>4. AccountedOnce(next_packet_number[s], QueuedIn(s), sent_packets[s] \ (taken[s] \cup given[s]),
                      acked[s] \cup Numbers(taken[s]), lost[s] \cup Numbers(given[s]))
    BY <2>2, <2>3, ReleaseAccounted
  <2>. QED
    BY <2>1, <2>4
<1>12. Conserved(written, pending["Data"] \cup ItemsOf(late["Data"]),
                 QueuedIn("Data") \cup sent_packets'["Data"], confirmed'["Data"])
  <2>. DEFINE F == QueuedIn("Data") \cup sent_packets["Data"]
  <2>1. Conserved(written, pending["Data"], F, confirmed["Data"])
    BY DEF IInv, FramesConserved
  <2>2. /\ taken["Data"] \in SUBSET F /\ late["Data"] \in SUBSET F
        /\ taken["Data"] \cap late["Data"] = {}
    BY DEF Spaces
  <2>3. QueuedIn("Data") \cap sent_packets["Data"] = {}
    BY DEF IInv, PacketsAccountedOnce, AccountedOnce, Spaces
  <2>4. QueuedIn("Data") \cup sent_packets'["Data"] = F \ (taken["Data"] \cup late["Data"])
    BY <1>2, <1>3, <2>2, <2>3 DEF Spaces
  <2>5. confirmed'["Data"] = confirmed["Data"] \cup ItemsOf(taken["Data"])
    BY <1>2 DEF Spaces
  <2>. HIDE DEF F
  <2>. QED
    BY <2>1, <2>2, <2>4, <2>5, ReleaseConserved
<1>. QED
  BY <1>4, <1>5, <1>6, <1>8, <1>9, <1>10, <1>11, <1>12 DEF TrackedNext

\* A step that leaves the tracking alone.
LEMMA UnchangedTracked ==
    ASSUME IInv, UNCHANGED sentVars
    PROVE  TrackedNext({})
<1>1. /\ sent_packets' = sent_packets /\ in_flight' = in_flight
      /\ path_in_flight' = path_in_flight /\ acked' = acked /\ lost' = lost
      /\ confirmed' = confirmed
  BY DEF sentVars
<1>2. InFlightMatches'
  BY <1>1 DEF IInv, InFlightMatches
<1>3. pending["Data"] \cup {} = pending["Data"]
  OBVIOUS
<1>4. Conserved(written, pending["Data"] \cup {}, QueuedIn("Data") \cup sent_packets'["Data"],
                confirmed'["Data"])
  BY <1>1, <1>3 DEF IInv, FramesConserved
<1>5. \A s \in Spaces :
        AccountedOnce(next_packet_number[s], QueuedIn(s), sent_packets'[s], acked'[s], lost'[s])
  BY <1>1 DEF IInv, PacketsAccountedOnce
<1>. QED
  BY <1>1, <1>2, <1>4, <1>5 DEF TrackedNext, IInv, TypeOK

\* discard_space, where its caller's condition holds.
LEMMA DiscardTracked ==
    ASSUME IInv, NEW discards \in BOOLEAN, DiscardSpace(discards)
    PROVE  /\ TrackedNext({})
           /\ loss_time' \in [Spaces -> Nat \cup {None}]
           /\ \A s \in Spaces : loss_time'[s] # None => loss_time'[s] = loss_time[s]
           /\ \A s \in Spaces : loss_time'[s] # loss_time[s] => sent_packets'[s] = {}
<1>1. CASE ~discards
  BY <1>1, UnchangedTracked DEF DiscardSpace, sentVars, IInv, TypeOK
<1>2. CASE discards
  <2>1. Untrack(NoPackets, NoPackets, TRUE, loss_time)
    BY <1>2 DEF DiscardSpace
  <2>2. NoPackets \in [Spaces -> SUBSET Packet] /\ \A s \in Spaces : NoPackets[s] = {}
    BY DEF NoPackets
  <2>3. TrackedNext(ItemsOf(NoPackets["Data"]))
    BY <2>1, <2>2, UntrackTracked DEF Spaces
  <2>4. ItemsOf(NoPackets["Data"]) = {}
    BY <2>2 DEF ItemsOf, Spaces
  <2>5. loss_time' = [s \in Spaces |-> IF s = "Initial" THEN None ELSE loss_time[s]]
    BY <2>1 DEF Untrack
  <2>6. sent_packets'["Initial"] = {}
    BY <2>1 DEF Untrack, Released, Spaces
  <2>7. TrackedNext({})
    BY <2>3, <2>4
  <2>. QED
    BY <2>5, <2>6, <2>7 DEF IInv, TypeOK
<1>. QED
  BY <1>1, <1>2

\* set_loss_detection_timer re-establishes what the invariant says of the timer.
LEMMA SetTimer ==
    ASSUME IInv, NEW r \in Rtt, SetLossDetectionTimer(r),
           loss_time' \in [Spaces -> Nat \cup {None}],
           sent_packets' \in [Spaces -> SUBSET Packet],
           InFlightMatches'
    PROVE  /\ timer' \in Nat \cup {None}
           /\ IsClosed(state) => timer' = None
           /\ ~IsClosed(state) =>
                /\ \A s \in Spaces :
                     loss_time'[s] # None => timer' # None /\ timer' <= loss_time'[s]
                /\ (\E s \in Spaces : in_flight'[s] > 0) => timer' # None
<1>1. CASE IsClosed(state)
  BY <1>1 DEF SetLossDetectionTimer, IInv, TimerInv, TypeOK
<1>2. CASE ~IsClosed(state)
  <2>1. LossTimes \in SUBSET Nat
    BY DEF LossTimes
  <2>2. SendTimes \in SUBSET Nat
    BY FirstSentMember DEF SendTimes, Packet
  <2>3. CASE LossTimes # {}
    <3>1. timer' = Least(LossTimes)
      BY <1>2, <2>3 DEF SetLossDetectionTimer
    <3>2. timer' \in Nat /\ \A t \in LossTimes : timer' <= t
      BY <2>1, <2>3, <3>1, LeastMember
    <3>3. \A s \in Spaces : loss_time'[s] # None => loss_time'[s] \in LossTimes
      BY DEF LossTimes
    <3>. QED
      BY <1>2, <3>2, <3>3 DEF None
  <2>4. CASE LossTimes = {}
    <3>1. \A s \in Spaces : loss_time'[s] = None
      BY <2>4 DEF LossTimes
    <3>2. SendTimes # {} => Least(SendTimes) + PTO(r) \in Nat
      <4>1. PTO(r) \in Nat
        BY DelayType
      <4>2. SendTimes # {} => Least(SendTimes) \in Nat
        BY <2>2, LeastMember
      <4>. QED
        BY <4>1, <4>2
    <3>3. ASSUME NEW s \in Spaces, in_flight'[s] > 0 PROVE SendTimes # {}
      <4>1. sent_packets'[s] # {}
        <5>. SUFFICES ASSUME sent_packets'[s] = {} PROVE FALSE
          OBVIOUS
        <5>1. {p \in sent_packets'[s] : p.ack_eliciting} = {}
          OBVIOUS
        <5>2. in_flight'[s] = Cardinality({p \in sent_packets'[s] : p.ack_eliciting})
          BY DEF InFlightMatches
        <5>3. in_flight'[s] = 0
          BY <5>1, <5>2, FS_EmptySet, Zenon
        <5>. QED
          BY <3>3, <5>3
      <4>. QED
        BY <4>1 DEF SendTimes
    <3>4. timer' = IF (\E s \in Spaces : in_flight'[s] > 0) /\ SendTimes # {}
                   THEN Least(SendTimes) + PTO(r) ELSE None
      BY <1>2, <2>4 DEF SetLossDetectionTimer
    <3>. QED
      BY <1>2, <3>1, <3>2, <3>3, <3>4 DEF None
  <2>. QED
    BY <2>3, <2>4
<1>. QED
  BY <1>1, <1>2

-----------------------------------------------------------------------------
(* Every step preserves the invariant.                                     *)

\* What a step that leaves packets alone preserves; time passes in the select only.
LEMMA IdleStep ==
    ASSUME IInv, phase' = "select" => phase = "select", now' \in Nat, now' >= now,
           now' # now => phase = "select",
           UNCHANGED <<sentVars, next_packet_number, largest_acked_packet, sending_queue>>
    PROVE  PacketsAccountedOnce' /\ InFlightMatches' /\ Shape' /\ LossInv'
<1>1. /\ sent_packets' = sent_packets /\ in_flight' = in_flight /\ loss_time' = loss_time
      /\ path_in_flight' = path_in_flight /\ acked' = acked /\ lost' = lost
      /\ confirmed' = confirmed
      /\ next_packet_number' = next_packet_number
      /\ largest_acked_packet' = largest_acked_packet /\ sending_queue' = sending_queue
  BY DEF sentVars
<1>2. \A s \in Spaces : QueuedIn(s)' = QueuedIn(s) /\ Overtaken(s)' = Overtaken(s)
  BY <1>1 DEF QueuedIn, Overtaken
<1>3. PacketsAccountedOnce'
  BY <1>1, <1>2 DEF IInv, PacketsAccountedOnce
<1>4. InFlightMatches'
  BY <1>1 DEF IInv, InFlightMatches
<1>5. Shape'
  <2>1. now' # now => sending_queue = {}
    BY DEF IInv, Shape
  <2>2. now \in Nat /\ \A s \in Spaces : \A p \in sent_packets[s] : p.time_sent \in Nat
    BY DEF IInv, TypeOK, Packet
  <2>. QED
    BY <1>1, <2>1, <2>2 DEF IInv, Shape
<1>6. LossInv'
  BY <1>1, <1>2 DEF IInv, LossInv
<1>. QED
  BY <1>3, <1>4, <1>5, <1>6

\* The frames are where they were.
LEMMA FramesUnchanged ==
    ASSUME IInv, UNCHANGED <<sentVars, sending_queue, written>>, pending'["Data"] = pending["Data"]
    PROVE  FramesConserved'
<1>1. QueuedIn("Data")' = QueuedIn("Data")
  BY DEF QueuedIn
<1>. QED
  BY <1>1 DEF IInv, FramesConserved, sentVars

\* The MaxAckDelay and Close timers, the application's
\* close and the passing of time.
LEMMA QuietSteps ==
    ASSUME IInv, AckDelayTimeout \/ CloseTimeout \/ AppClose \/ Sleep
    PROVE  IInv'
<1>1. /\ phase = "select"
      /\ UNCHANGED <<sentVars, next_packet_number, largest_acked_packet, sending_queue, written, pending, rtt>>
  BY DEF AckDelayTimeout, CloseTimeout, AppClose, Sleep, Selecting
<1>2. now' \in Nat /\ now' >= now
  BY DEF AckDelayTimeout, CloseTimeout, AppClose, Sleep, IInv, TypeOK
<1>3. PacketsAccountedOnce' /\ InFlightMatches' /\ Shape' /\ LossInv'
  BY <1>1, <1>2, IdleStep
<1>4. FramesConserved'
  BY <1>1, FramesUnchanged
<1>5. TypeOK' /\ TimerInv'
  <2>1. CASE AckDelayTimeout
    BY <2>1 DEF AckDelayTimeout, IInv, TypeOK, TimerInv, sentVars, handshakeVars, IsClosed, Spaces
  <2>2. CASE CloseTimeout
    BY <2>2 DEF CloseTimeout, IInv, TypeOK, TimerInv, sentVars, IsClosed
  <2>3. CASE AppClose
    BY <2>3 DEF AppClose, IInv, TypeOK, TimerInv, sentVars, IsClosed
  <2>4. CASE Sleep
    BY <1>2, <2>4 DEF Sleep, IInv, TypeOK, TimerInv, sentVars, handshakeVars, IsClosed
  <2>. QED
    BY <2>1, <2>2, <2>3, <2>4
<1>. QED
  BY <1>3, <1>4, <1>5 DEF IInv

\* The application writes.
LEMMA AppWriteStep ==
    ASSUME IInv, NEW i \in DataItems, AppWrite(i)
    PROVE  IInv'
<1>1. /\ phase = "select" /\ now' = now
      /\ UNCHANGED <<sentVars, next_packet_number, largest_acked_packet, sending_queue>>
  BY DEF AppWrite, Selecting
<1>2. PacketsAccountedOnce' /\ InFlightMatches' /\ Shape' /\ LossInv'
  BY <1>1, IdleStep DEF IInv, TypeOK
<1>3. pending'["Data"] = pending["Data"] \cup {i} /\ written' = written \cup {i} /\ i \notin written
  BY DEF AppWrite, IInv, TypeOK, Spaces
<1>4. FramesConserved'
  <2>1. QueuedIn("Data")' = QueuedIn("Data")
    BY <1>1 DEF QueuedIn
  <2>2. sent_packets' = sent_packets /\ confirmed' = confirmed
    BY <1>1 DEF sentVars
  <2>3. Conserved(written', pending'["Data"], QueuedIn("Data") \cup sent_packets["Data"],
                  confirmed["Data"])
    <3>1. Conserved(written, pending["Data"], QueuedIn("Data") \cup sent_packets["Data"],
                    confirmed["Data"])
      BY DEF IInv, FramesConserved
    <3>2. Conserved(written \cup {i}, pending["Data"] \cup {i},
                    QueuedIn("Data") \cup sent_packets["Data"], confirmed["Data"])
      BY <1>3, <3>1, WriteConserved
    <3>. QED
      BY <1>3, <3>2
  <2>. QED
    BY <2>1, <2>2, <2>3 DEF FramesConserved
<1>5. TypeOK' /\ TimerInv'
  BY DEF AppWrite, IInv, TypeOK, TimerInv, sentVars, handshakeVars, Items, IsClosed
<1>. QED
  BY <1>2, <1>4, <1>5 DEF IInv

\* The scheduled packets are sent.
LEMMA SendScheduledStep ==
    ASSUME IInv, SendScheduled
    PROVE  IInv'
<1>. DEFINE count == [s \in Spaces |-> Cardinality(Eliciting(QueuedIn(s)))]
<1>1. /\ sending_queue' = {} /\ phase' = "select"
      /\ sent_packets' = [s \in Spaces |-> sent_packets[s] \cup QueuedIn(s)]
      /\ in_flight' = [s \in Spaces |-> in_flight[s] + count[s]]
      /\ path_in_flight' = path_in_flight + Total(count)
      /\ UNCHANGED <<now, spins, state, pending_close, hi, highest_space, pending, acks,
                     next_packet_number, largest_acked_packet, loss_time, rtt, written, acked,
                     lost, confirmed>>
  BY DEF SendScheduled, handshakeVars
<1>2. \A s \in Spaces : QueuedIn(s) \subseteq sending_queue /\ QueuedIn(s)' = {}
  BY <1>1 DEF QueuedIn
<1>3. \A s \in Spaces : QueuedIn(s) \cap sent_packets[s] = {}
  BY DEF IInv, PacketsAccountedOnce, AccountedOnce
<1>4. \A s \in Spaces : IsFiniteSet(QueuedIn(s)) /\ IsFiniteSet(sent_packets[s])
  BY <1>2, FS_Subset DEF IInv, Shape
<1>5. ASSUME NEW s \in Spaces
      PROVE  /\ in_flight'[s] = Cardinality(Eliciting(sent_packets'[s]))
             /\ count[s] \in Nat
  <2>1. in_flight[s] = Cardinality(Eliciting(sent_packets[s]))
    BY DEF IInv, InFlightMatches, Eliciting
  <2>2. Cardinality(Eliciting(sent_packets[s] \cup QueuedIn(s))) = in_flight[s] + count[s]
    BY <1>3, <1>4, <2>1, CountSent
  <2>. QED
    BY <1>1, <1>4, <2>2, ElicitingFinite
<1>. HIDE DEF count
<1>6. InFlightMatches' /\ in_flight' \in [Spaces -> Nat] /\ path_in_flight' \in Nat
  <2>1. path_in_flight = Total(in_flight) /\ \A s \in Spaces : in_flight[s] \in Nat
    BY DEF IInv, InFlightMatches, TypeOK
  <2>2. in_flight' \in [Spaces -> Nat]
    <3>1. \A s \in Spaces : in_flight[s] + count[s] \in Nat
      BY <1>5, <2>1
    <3>. QED
      BY <1>1, <3>1
  <2>3. path_in_flight' = Total(in_flight') /\ path_in_flight' \in Nat
    BY <1>1, <1>5, <2>1 DEF Total, Spaces
  <2>. QED
    BY <1>5, <2>2, <2>3 DEF InFlightMatches, Eliciting
<1>7. sent_packets' \in [Spaces -> SUBSET Packet]
  BY <1>1, <1>2 DEF IInv, TypeOK
<1>8. PacketsAccountedOnce'
  <2>1. ASSUME NEW s \in Spaces
        PROVE  AccountedOnce(next_packet_number'[s], QueuedIn(s)', sent_packets'[s], acked'[s], lost'[s])
    <3>1. AccountedOnce(next_packet_number[s], QueuedIn(s), sent_packets[s], acked[s], lost[s])
      BY DEF IInv, PacketsAccountedOnce
    <3>2. AccountedOnce(next_packet_number[s], {}, sent_packets[s] \cup QueuedIn(s), acked[s], lost[s])
      BY <3>1, SendAccounted
    <3>3. QueuedIn(s)' = {} /\ sent_packets'[s] = sent_packets[s] \cup QueuedIn(s)
      BY <1>1, <1>2
    <3>. QED
      BY <1>1, <3>2, <3>3
  <2>. QED
    BY <2>1 DEF PacketsAccountedOnce
<1>9. FramesConserved'
  <2>1. QueuedIn("Data")' \cup sent_packets'["Data"] = QueuedIn("Data") \cup sent_packets["Data"]
    BY <1>1, <1>2 DEF Spaces
  <2>. QED
    BY <1>1, <2>1 DEF IInv, FramesConserved
<1>10. Shape'
  <2>1. \A s \in Spaces : IsFiniteSet(sent_packets'[s])
    BY <1>1, <1>4, FS_Union
  <2>. QED
    BY <1>1, <1>2, <2>1, FS_EmptySet DEF IInv, Shape
<1>11. LossInv'
  <2>1. ASSUME NEW s \in Spaces PROVE Overtaken(s)' = Overtaken(s)
    <3>1. largest_acked_packet[s] \in Int /\ \A p \in QueuedIn(s) : p.pn \in Nat
      BY <1>2 DEF IInv, TypeOK, Packet, None
    <3>2. \A p \in QueuedIn(s) : ~(p.pn < largest_acked_packet[s])
      BY <3>1 DEF IInv, LossInv
    <3>. QED
      BY <1>1, <3>2 DEF Overtaken
  <2>. QED
    BY <1>1, <1>2, <2>1 DEF IInv, LossInv
<1>12. timer' \in Nat \cup {None} /\ TimerInv'
  <2>1. CASE Eliciting(sending_queue) = {}
    <3>1. \A s \in Spaces : Eliciting(QueuedIn(s)) = {}
      BY <1>2, <2>1 DEF Eliciting
    <3>2. \A s \in Spaces : count[s] = 0
      BY <3>1, FS_EmptySet DEF count
    <3>3. timer' = timer
      BY <2>1 DEF SendScheduled
    <3>4. \A s \in Spaces : in_flight'[s] = in_flight[s]
      <4>1. \A s \in Spaces : in_flight[s] \in Nat
        BY DEF IInv, TypeOK
      <4>2. \A s \in Spaces : in_flight'[s] = in_flight[s] + count[s]
        BY <1>1
      <4>. QED
        BY <3>2, <4>1, <4>2
    <3>. QED
      BY <1>1, <3>3, <3>4 DEF IInv, TypeOK, TimerInv
  <2>2. CASE Eliciting(sending_queue) # {}
    <3>1. SetLossDetectionTimer(rtt)
      BY <2>2 DEF SendScheduled
    <3>2. loss_time' \in [Spaces -> Nat \cup {None}] /\ rtt \in Rtt
      BY <1>1 DEF IInv, TypeOK
    <3>. QED
      BY <1>1, <1>6, <1>7, <3>1, <3>2, SetTimer DEF TimerInv
  <2>. QED
    BY <2>1, <2>2
<1>13. TypeOK'
  BY <1>1, <1>6, <1>7, <1>12 DEF IInv, TypeOK
<1>. QED
  BY <1>6, <1>8, <1>9, <1>10, <1>11, <1>12, <1>13 DEF IInv

\* What a step from the select that releases packets preserves.
LEMMA TrackedStep ==
    ASSUME IInv, phase = "select", NEW extra, TrackedNext(extra),
           pending'["Data"] = pending["Data"] \cup extra,
           UNCHANGED <<now, next_packet_number, sending_queue, written>>
    PROVE  PacketsAccountedOnce' /\ FramesConserved' /\ InFlightMatches' /\ Shape'
<1>1. \A s \in Spaces : QueuedIn(s)' = QueuedIn(s)
  BY DEF QueuedIn
<1>2. PacketsAccountedOnce'
  BY <1>1 DEF PacketsAccountedOnce, TrackedNext
<1>3. FramesConserved'
  BY <1>1 DEF FramesConserved, TrackedNext, Spaces
<1>4. InFlightMatches'
  BY DEF TrackedNext
<1>5. Shape'
  <2>1. \A s \in Spaces : sent_packets'[s] \in SUBSET sent_packets[s]
    BY DEF TrackedNext
  <2>2. \A s \in Spaces : IsFiniteSet(sent_packets'[s])
    BY <2>1, FS_Subset DEF IInv, Shape
  <2>. QED
    BY <2>1, <2>2 DEF IInv, Shape
<1>. QED
  BY <1>2, <1>3, <1>4, <1>5

\* The loss-detection timer fires.
LEMMA LossDetectionTimeoutStep ==
    ASSUME IInv, LossDetectionTimeout
    PROVE  IInv'
<1>. DEFINE probed == IF LossTimeSpaces # {} THEN LossTimeSpaces ELSE {s \in Spaces : in_flight[s] > 0}
            late == [s \in Spaces |-> IF s \notin probed THEN {}
                       ELSE DeclaredLost(sent_packets[s], largest_acked_packet[s], rtt)]
            losses == [s \in Spaces |-> IF s \notin probed THEN loss_time[s]
                         ELSE NextLossTime(sent_packets[s], largest_acked_packet[s], rtt)]
<1>1. /\ phase = "select" /\ phase' = "poll"
      /\ Untrack(NoPackets, late, FALSE, losses)
      /\ SetLossDetectionTimer(rtt)
      /\ pending' = [s \in Spaces |-> pending[s] \cup ItemsOf(late[s])]
      /\ UNCHANGED <<now, spins, state, pending_close, hi, highest_space, acks,
                     next_packet_number, largest_acked_packet, sending_queue, rtt, written>>
  BY DEF LossDetectionTimeout, Selecting, handshakeVars
<1>2. ASSUME NEW s \in Spaces
      PROVE  /\ late[s] \subseteq sent_packets[s] /\ late[s] \subseteq Packet
             /\ losses[s] \in Nat \cup {None}
             /\ (\E p \in sent_packets[s] \ late[s] : p.pn < largest_acked_packet[s])
                  => losses[s] # None
  <2>1. /\ sent_packets[s] \in SUBSET Packet /\ largest_acked_packet[s] \in Int /\ rtt \in Rtt
        /\ loss_time[s] \in Nat \cup {None} /\ \A p \in sent_packets[s] : p.pn \in Nat
    BY DEF IInv, TypeOK, Packet, None
  <2>2. CASE s \in probed
    <3>1. /\ late[s] = DeclaredLost(sent_packets[s], largest_acked_packet[s], rtt)
          /\ losses[s] = NextLossTime(sent_packets[s], largest_acked_packet[s], rtt)
      BY <2>2
    <3>2. late[s] \subseteq sent_packets[s]
      BY <3>1 DEF DeclaredLost
    <3>. HIDE DEF probed, late, losses
    <3>3. /\ losses[s] \in Nat \cup {None}
          /\ (\E p \in sent_packets[s] \ late[s] : p.pn <= largest_acked_packet[s])
               => losses[s] # None
      BY <2>1, <3>1, NextLossTimeType
    <3>4. \A p \in sent_packets[s] : p.pn < largest_acked_packet[s] => p.pn <= largest_acked_packet[s]
      BY <2>1
    <3>5. late[s] \subseteq Packet
      BY <2>1, <3>2
    <3>. QED
      BY <3>2, <3>3, <3>4, <3>5
  <2>3. CASE s \notin probed
    <3>1. late[s] = {} /\ losses[s] = loss_time[s]
      BY <2>3
    <3>. HIDE DEF probed, late, losses
    <3>. QED
      BY <2>1, <3>1 DEF IInv, LossInv, Overtaken
  <2>. QED
    BY <2>2, <2>3
<1>3. /\ late \in [Spaces -> SUBSET Packet] /\ losses \in [Spaces -> Nat \cup {None}]
      /\ NoPackets \in [Spaces -> SUBSET Packet] /\ \A s \in Spaces : NoPackets[s] = {}
  <2>1. late = [s \in Spaces |-> late[s]] /\ losses = [s \in Spaces |-> losses[s]]
    OBVIOUS
  <2>. HIDE DEF late, losses
  <2>. QED
    BY <1>2, <2>1 DEF NoPackets
<1>. HIDE DEF probed, late, losses
<1>4. TrackedNext(ItemsOf(late["Data"]))
  BY <1>1, <1>2, <1>3, UntrackTracked
<1>5. PacketsAccountedOnce' /\ FramesConserved' /\ InFlightMatches' /\ Shape'
  <2>1. pending'["Data"] = pending["Data"] \cup ItemsOf(late["Data"])
    BY <1>1 DEF Spaces
  <2>. QED
    BY <1>1, <1>4, <2>1, TrackedStep
<1>6. loss_time' = losses /\ \A s \in Spaces : sent_packets'[s] = sent_packets[s] \ late[s]
  <2>1. /\ loss_time' = [s \in Spaces |-> losses[s]]
        /\ sent_packets' = [s \in Spaces |-> sent_packets[s] \ (NoPackets[s] \cup late[s])]
    BY <1>1 DEF Untrack, Released
  <2>. QED
    BY <1>3, <2>1
<1>7. LossInv'
  <2>1. \A s \in Spaces : QueuedIn(s)' = QueuedIn(s)
    BY <1>1 DEF QueuedIn
  <2>2. \A s \in Spaces : Overtaken(s)' # {} => loss_time'[s] # None
    BY <1>1, <1>2, <1>6 DEF Overtaken
  <2>. QED
    BY <1>1, <2>1, <2>2 DEF IInv, LossInv
<1>8. timer' \in Nat \cup {None} /\ TimerInv'
  BY <1>1, <1>3, <1>4, <1>6, SetTimer DEF TimerInv, TrackedNext, IInv, TypeOK
<1>9. TypeOK'
  <2>1. \A s \in Spaces : ItemsOf(late[s]) \subseteq Items
    BY <1>2 DEF ItemsOf, Packet
  <2>2. pending' \in [Spaces -> SUBSET Items]
    BY <1>1, <2>1 DEF IInv, TypeOK
  <2>. QED
    BY <1>1, <1>3, <1>4, <1>6, <1>8, <2>2 DEF IInv, TypeOK, TrackedNext
<1>. QED
  BY <1>5, <1>7, <1>8, <1>9 DEF IInv

\* The largest number an ACK frame acknowledges is the number of a packet that was sent.
LEMMA LargestSent ==
    ASSUME IInv, NEW s \in Spaces, NEW A \in SUBSET EverSent(s), A # {}
    PROVE  Largest(A) \in Nat /\ Largest(A) < next_packet_number[s]
<1>1. next_packet_number[s] \in Nat
  BY DEF IInv, TypeOK
<1>2. EverSent(s) \subseteq 0 .. next_packet_number[s] - 1
  BY DEF EverSent, IInv, PacketsAccountedOnce, AccountedOnce
<1>3. A \in SUBSET Nat /\ \A y \in A : y <= next_packet_number[s] /\ y < next_packet_number[s]
  BY <1>1, <1>2
<1>. QED
  BY <1>1, <1>3, LargestMember

\* The packet of an ACK from which on_ack_received takes its RTT sample is one it took.
LEMMA NewestMember ==
    ASSUME NEW T \in SUBSET Packet, T # {}, NEW n \in Nat, \A p \in T : p.pn <= n
    PROVE  (CHOOSE p \in T : \A q \in T : p.pn >= q.pn) \in T
<1>1. Numbers(T) \in SUBSET Nat /\ Numbers(T) # {} /\ \A y \in Numbers(T) : y <= n
  BY DEF Numbers, Packet
<1>2. PICK p \in T : p.pn = Largest(Numbers(T))
  BY <1>1, LargestMember DEF Numbers
<1>3. \A q \in T : p.pn >= q.pn
  BY <1>1, <1>2, LargestMember DEF Numbers
<1>. QED
  BY <1>2, <1>3

\* What on_ack_received leaves, after a discard of the Initial space if the packet caused one.
AckNext(stops) ==
    /\ PacketsAccountedOnce' /\ FramesConserved' /\ InFlightMatches' /\ Shape' /\ LossInv'
    /\ \E extra : TrackedNext(extra)
    /\ loss_time' \in [Spaces -> Nat \cup {None}]
    /\ largest_acked_packet' \in [Spaces -> Nat \cup {None}]
    /\ pending' \in [Spaces -> SUBSET Items]
    /\ rtt' \in Rtt /\ timer' \in Nat \cup {None}
    /\ stops \/ IsClosed(state) => timer' = None
    /\ ~(stops \/ IsClosed(state)) =>
         /\ \A s \in Spaces : loss_time'[s] # None => timer' # None /\ timer' <= loss_time'[s]
         /\ (\E s \in Spaces : in_flight'[s] > 0) => timer' # None

\* discard_space, from the select, up to its timer update.
LEMMA DiscardStep ==
    ASSUME IInv, phase = "select", NEW discards \in BOOLEAN, DiscardSpace(discards),
           pending'["Data"] = pending["Data"],
           UNCHANGED <<largest_acked_packet, now, next_packet_number, sending_queue, written>>
    PROVE  /\ PacketsAccountedOnce' /\ FramesConserved' /\ InFlightMatches' /\ Shape' /\ LossInv'
           /\ TrackedNext({}) /\ loss_time' \in [Spaces -> Nat \cup {None}]
<1>1. /\ TrackedNext({})
      /\ loss_time' \in [Spaces -> Nat \cup {None}]
      /\ \A t \in Spaces : loss_time'[t] # loss_time[t] => sent_packets'[t] = {}
  BY DiscardTracked
<1>2. pending'["Data"] = pending["Data"] \cup {}
  OBVIOUS
<1>3. PacketsAccountedOnce' /\ FramesConserved' /\ InFlightMatches' /\ Shape'
  BY <1>1, <1>2, TrackedStep
<1>4. LossInv'
  <2>1. \A t \in Spaces : QueuedIn(t)' = QueuedIn(t)
    BY DEF QueuedIn
  <2>2. \A t \in Spaces : Overtaken(t)' \subseteq Overtaken(t)
    BY <1>1 DEF Overtaken, TrackedNext
  <2>3. \A t \in Spaces : Overtaken(t)' # {} => loss_time'[t] # None
    BY <1>1, <2>2 DEF IInv, LossInv, Overtaken
  <2>. QED
    BY <2>1, <2>3 DEF IInv, LossInv
<1>. QED
  BY <1>1, <1>3, <1>4

\* An ACK frame that takes nothing, or no ACK frame.
LEMMA AckNothingStep ==
    ASSUME IInv, phase = "select", NEW s \in Spaces, NEW discards \in BOOLEAN,
           NEW hello \in SUBSET Items, s = "Data" => hello = {},
           NEW stops \in BOOLEAN, DiscardSpace(discards),
           IF stops THEN timer' = None
           ELSE IF discards THEN SetLossDetectionTimer(rtt) ELSE UNCHANGED timer,
           pending' = [pending EXCEPT ![s] = @ \cup hello],
           UNCHANGED <<largest_acked_packet, rtt>>,
           UNCHANGED <<now, next_packet_number, sending_queue, written>>
    PROVE  AckNext(stops)
<1>1. pending' \in [Spaces -> SUBSET Items] /\ pending'["Data"] = pending["Data"]
  BY DEF IInv, TypeOK, Spaces
<1>2. /\ PacketsAccountedOnce' /\ FramesConserved' /\ InFlightMatches' /\ Shape' /\ LossInv'
      /\ TrackedNext({}) /\ loss_time' \in [Spaces -> Nat \cup {None}]
  BY <1>1, DiscardStep
<1>3. /\ timer' \in Nat \cup {None}
      /\ stops \/ IsClosed(state) => timer' = None
      /\ ~(stops \/ IsClosed(state)) =>
           /\ \A t \in Spaces : loss_time'[t] # None => timer' # None /\ timer' <= loss_time'[t]
           /\ (\E t \in Spaces : in_flight'[t] > 0) => timer' # None
  <2>1. CASE ~stops /\ discards
    BY <1>2, <2>1, SetTimer DEF TrackedNext, IInv, TypeOK
  <2>2. CASE ~stops /\ ~discards
    BY <2>2 DEF DiscardSpace, sentVars, IInv, TypeOK, TimerInv
  <2>. QED
    BY <2>1, <2>2
<1>4. largest_acked_packet' \in [Spaces -> Nat \cup {None}] /\ rtt' \in Rtt
  BY DEF IInv, TypeOK
<1>. QED
  BY <1>1, <1>2, <1>3, <1>4 DEF AckNext

\* on_ack_received, of an ACK frame that is accepted.
LEMMA OnAckReceivedStep ==
    ASSUME IInv, phase = "select", NEW s \in Spaces, NEW A \in SUBSET EverSent(s),
           NEW d \in AckDelays, NEW discards \in BOOLEAN, discards => s = "Handshake",
           NEW hello \in SUBSET Items, s = "Data" => hello = {},
           NEW stops \in BOOLEAN, OnAckReceived(s, A, d, discards, hello, stops),
           UNCHANGED <<now, next_packet_number, sending_queue, written>>
    PROVE  AckNext(stops)
<1>. DEFINE taken == {p \in sent_packets[s] : p.pn \in A}
            newest == CHOOSE p \in taken : \A q \in taken : p.pn >= q.pn
            largest == MaxOf(largest_acked_packet[s], Largest(A))
            r == UpdateRtt(rtt, d, now - newest.time_sent)
            rest == sent_packets[s] \ taken
            late == DeclaredLost(rest, largest, r)
            takenIn == [NoPackets EXCEPT ![s] = taken]
            lateIn == [NoPackets EXCEPT ![s] = late]
            losses == [loss_time EXCEPT ![s] = NextLossTime(rest, largest, r)]
<1>1. CASE taken = {}
  BY <1>1, AckNothingStep DEF OnAckReceived
<1>2. CASE taken # {}
  <2>1. /\ Untrack(takenIn, lateIn, discards, losses)
        /\ IF stops THEN timer' = None ELSE SetLossDetectionTimer(r)
        /\ pending' = [pending EXCEPT ![s] = @ \cup ItemsOf(late) \cup hello]
        /\ largest_acked_packet' = [largest_acked_packet EXCEPT ![s] = largest]
        /\ rtt' = r
    BY <1>2 DEF OnAckReceived
  <2>2. A # {} /\ Largest(A) \in Nat /\ Largest(A) < next_packet_number[s]
    BY <1>2, LargestSent
  <2>3. largest \in Nat /\ largest >= largest_acked_packet[s]
    BY <2>2 DEF MaxOf, IInv, TypeOK, None
  <2>4. /\ taken \subseteq sent_packets[s] /\ rest \subseteq sent_packets[s]
        /\ late \subseteq rest /\ taken \cap rest = {}
        /\ sent_packets[s] \in SUBSET Packet /\ next_packet_number[s] \in Nat
    BY DEF DeclaredLost, IInv, TypeOK
  <2>5. newest \in taken
    <3>1. \A p \in taken : p.pn <= next_packet_number[s]
      <4>1. Numbers(sent_packets[s]) \subseteq 0 .. next_packet_number[s] - 1
        BY DEF IInv, PacketsAccountedOnce, AccountedOnce
      <4>2. \A p \in taken : p.pn \in Numbers(sent_packets[s])
        BY DEF Numbers
      <4>3. next_packet_number[s] \in Nat
        BY DEF IInv, TypeOK
      <4>. HIDE DEF taken, rest, late
      <4>4. \A k \in 0 .. next_packet_number[s] - 1 : k <= next_packet_number[s]
        BY <4>3
      <4>. QED
        BY <4>1, <4>2, <4>4
    <3>2. taken \in SUBSET Packet
      BY <2>4
    <3>. HIDE DEF taken
    <3>. QED
      BY <1>2, <2>4, <3>1, <3>2, NewestMember
  <2>6. r \in Rtt
    <3>1. newest.time_sent \in Nat /\ newest.time_sent <= now /\ now \in Nat
      BY <2>4, <2>5 DEF Packet, IInv, TypeOK, Shape
    <3>2. now - newest.time_sent \in Nat
      BY <3>1
    <3>3. rtt \in Rtt /\ d \in Nat
      BY BoundsAssumption DEF IInv, TypeOK
    <3>. HIDE DEF newest
    <3>. QED
      BY <3>2, <3>3, UpdateRttType
  <2>7. /\ NextLossTime(rest, largest, r) \in Nat \cup {None}
        /\ (\E p \in rest \ late : p.pn <= largest) => NextLossTime(rest, largest, r) # None
    <3>. HIDE DEF taken, rest, largest, r
    <3>1. largest \in Int
      BY <2>3
    <3>2. rest \in SUBSET Packet
      <4>. HIDE DEF late
      <4>. QED
        BY <2>4
    <3>. QED
      BY <2>6, <3>1, <3>2, NextLossTimeType
  <2>. HIDE DEF newest, largest, r, rest, late, taken
  <2>8. /\ takenIn \in [Spaces -> SUBSET Packet] /\ lateIn \in [Spaces -> SUBSET Packet]
        /\ losses \in [Spaces -> Nat \cup {None}]
    BY <2>4, <2>7 DEF NoPackets, IInv, TypeOK
  <2>9. \A t \in Spaces : /\ takenIn[t] = IF t = s THEN taken ELSE {}
                          /\ lateIn[t] = IF t = s THEN late ELSE {}
                          /\ losses[t] = IF t = s THEN NextLossTime(rest, largest, r) ELSE loss_time[t]
    BY DEF NoPackets, IInv, TypeOK
  <2>. HIDE DEF takenIn, lateIn, losses
  <2>10. TrackedNext(ItemsOf(lateIn["Data"]))
    <3>1. \A t \in Spaces : /\ takenIn[t] \subseteq sent_packets[t]
                            /\ lateIn[t] \subseteq sent_packets[t]
                            /\ takenIn[t] \cap lateIn[t] = {}
      BY <2>4, <2>9
    <3>2. discards => takenIn["Initial"] = {}
      BY <2>9 DEF Spaces
    <3>. QED
      BY <2>1, <2>8, <3>1, <3>2, UntrackTracked
  <2>11. pending'["Data"] = pending["Data"] \cup ItemsOf(lateIn["Data"])
    <3>1. ItemsOf({}) = {}
      BY DEF ItemsOf
    <3>2. CASE s = "Data"
      BY <2>1, <2>9, <3>2 DEF IInv, TypeOK, Spaces
    <3>3. CASE s # "Data"
      <4>1. lateIn["Data"] = {}
        BY <2>9, <3>3 DEF Spaces
      <4>. QED
        BY <2>1, <3>1, <3>3, <4>1 DEF IInv, TypeOK, Spaces
    <3>. QED
      BY <3>2, <3>3
  <2>12. PacketsAccountedOnce' /\ FramesConserved' /\ InFlightMatches' /\ Shape'
    BY <2>10, <2>11, TrackedStep
  <2>13. /\ loss_time' \in [Spaces -> Nat \cup {None}]
         /\ \A t \in Spaces :
              IF discards /\ t = "Initial" THEN sent_packets'[t] = {} /\ loss_time'[t] = None
              ELSE /\ sent_packets'[t] = sent_packets[t] \ (takenIn[t] \cup lateIn[t])
                   /\ loss_time'[t] = losses[t]
    BY <2>1, <2>8 DEF Untrack, Released
  <2>14. LossInv'
    <3>1. sending_queue' = {} /\ \A t \in Spaces : QueuedIn(t)' = {}
      BY DEF IInv, Shape, QueuedIn
    <3>2. ASSUME NEW t \in Spaces, Overtaken(t)' # {} PROVE loss_time'[t] # None
      <4>1. PICK p \in sent_packets'[t] : p.pn < largest_acked_packet'[t]
        BY <3>2 DEF Overtaken
      <4>2. ~(discards /\ t = "Initial")
        BY <2>13, <4>1
      <4>3. CASE t = s
        <5>1. p \in rest \ late
          BY <2>9, <2>13, <4>1, <4>2, <4>3 DEF rest
        <5>2. p.pn < largest /\ p.pn \in Nat
          BY <2>1, <2>4, <4>1, <4>3, <5>1 DEF IInv, TypeOK, Packet
        <5>. QED
          <6>1. loss_time'[t] = NextLossTime(rest, largest, r)
            BY <2>9, <2>13, <4>2, <4>3
          <6>2. largest \in Int
            BY <2>3
          <6>3. p.pn \in Int
            BY <5>2
          <6>4. p.pn <= largest
            BY <5>2, <6>2, <6>3, BelowNext
          <6>. QED
            BY <2>7, <5>1, <6>1, <6>4
      <4>4. CASE t # s
        <5>1. p \in Overtaken(t)
          BY <2>1, <2>13, <4>1, <4>2, <4>4 DEF Overtaken, IInv, TypeOK
        <5>. QED
          BY <2>9, <2>13, <4>2, <4>4, <5>1 DEF IInv, LossInv
      <4>. QED
        BY <4>3, <4>4
    <3>3. \A t \in Spaces : largest_acked_packet'[t] < next_packet_number'[t]
      BY <2>1, <2>2 DEF MaxOf, largest, IInv, LossInv, TypeOK, None
    <3>. QED
      BY <3>1, <3>2, <3>3 DEF LossInv
  <2>15. /\ timer' \in Nat \cup {None}
         /\ stops \/ IsClosed(state) => timer' = None
         /\ ~(stops \/ IsClosed(state)) =>
              /\ \A t \in Spaces : loss_time'[t] # None => timer' # None /\ timer' <= loss_time'[t]
              /\ (\E t \in Spaces : in_flight'[t] > 0) => timer' # None
    BY <2>1, <2>6, <2>10, <2>13, SetTimer DEF TrackedNext
  <2>16. largest_acked_packet' \in [Spaces -> Nat \cup {None}]
    BY <2>1, <2>3 DEF IInv, TypeOK
  <2>17. pending' \in [Spaces -> SUBSET Items]
    <3>1. \A p \in late : p.items \subseteq Items
      BY <2>4 DEF Packet
    <3>2. ItemsOf(late) \subseteq Items
      BY <3>1 DEF ItemsOf
    <3>. QED
      BY <2>1, <3>2 DEF IInv, TypeOK
  <2>. QED
    BY <2>1, <2>6, <2>10, <2>12, <2>13, <2>14, <2>15, <2>16, <2>17 DEF AckNext
<1>. QED
  BY <1>1, <1>2

\* A packet arrives.
LEMMA HandleDataStep ==
    ASSUME IInv, NEW s \in Spaces, NEW A \in SUBSET EverSent(s), NEW d \in AckDelays,
           NEW crypto \in BOOLEAN, NEW outcome \in {"ok", "killed", "failed"},
           HandleData(s, A, d, crypto, outcome)
    PROVE  IInv'
<1>. DEFINE discards == ~IsClosed(state) /\ Side = "server" /\ hi["Initial"] /\ s = "Handshake"
            hello == IF crypto /\ ~hi[s] THEN {Hello} ELSE {}
            stops == outcome = "killed" \/ (outcome = "failed" /\ ~IsClosed(state))
<1>1. /\ phase = "select" /\ phase' = "poll"
      /\ crypto => s # "Data"
      /\ UNCHANGED <<now, spins, pending_close, next_packet_number, sending_queue, written>>
  BY DEF HandleData, Selecting
<1>2. acks' \in [Spaces -> {"none", "held", "due"}]
  BY DEF HandleData, IInv, TypeOK
<1>3. discards \in BOOLEAN
  BY DEF IInv, TypeOK, Spaces
<1>4. CASE A # {} /\ AckRejected(s, A)
  <2>1. /\ state' = "Closed" /\ timer' = (IF IsClosed(state) THEN timer ELSE None)
        /\ DiscardSpace(discards)
        /\ UNCHANGED <<hi, highest_space, pending, largest_acked_packet, rtt>>
    BY <1>4 DEF HandleData
  <2>. HIDE DEF discards
  <2>2. /\ PacketsAccountedOnce' /\ FramesConserved' /\ InFlightMatches' /\ Shape' /\ LossInv'
        /\ TrackedNext({}) /\ loss_time' \in [Spaces -> Nat \cup {None}]
    BY <1>1, <1>3, <2>1, DiscardStep
  <2>3. timer' = None
    BY <2>1 DEF IInv, TimerInv
  <2>4. TypeOK'
    BY <1>1, <1>2, <2>1, <2>2, <2>3 DEF IInv, TypeOK, TrackedNext
  <2>. QED
    BY <2>1, <2>2, <2>3, <2>4 DEF IInv, TimerInv, IsClosed
<1>5. CASE ~(A # {} /\ AckRejected(s, A))
  <2>1. /\ OnAckReceived(s, A, d, discards, hello, stops)
        /\ hi' = [hi EXCEPT ![s] = @ \/ crypto]
        /\ highest_space' = (IF crypto /\ s = "Handshake" THEN s ELSE highest_space)
        /\ state' = (CASE outcome = "killed" -> "Drained"
                       [] outcome = "failed" -> "Closed"
                       [] OTHER -> IF crypto /\ state = "Handshake" THEN "Established" ELSE state)
    BY <1>5 DEF HandleData
  <2>2. hello \in SUBSET Items /\ (s = "Data" => hello = {}) /\ stops \in BOOLEAN
    BY <1>1 DEF Items
  <2>3. discards => s = "Handshake"
    OBVIOUS
  <2>4. IsClosed(state') <=> stops \/ IsClosed(state)
    BY <2>1 DEF IsClosed
  <2>. HIDE DEF discards, hello, stops
  <2>5. AckNext(stops)
    BY <1>1, <1>3, <2>1, <2>2, <2>3, OnAckReceivedStep
  <2>6. TimerInv'
    BY <2>4, <2>5 DEF AckNext, TimerInv
  <2>7. TypeOK'
    <3>1. PICK extra : TrackedNext(extra)
      BY <2>5 DEF AckNext
    <3>2. hi' \in [Spaces -> BOOLEAN]
      BY <2>1 DEF IInv, TypeOK
    <3>3. /\ state' \in {"Handshake", "Established", "Closed", "Drained"}
          /\ highest_space' \in Spaces
      BY <2>1 DEF IInv, TypeOK
    <3>. QED
      BY <1>1, <1>2, <2>5, <3>1, <3>2, <3>3 DEF IInv, TypeOK, TrackedNext, AckNext
  <2>. QED
    BY <2>5, <2>6, <2>7 DEF IInv, AckNext
<1>. QED
  BY <1>4, <1>5

\* poll_transmit: at most one packet of each space is scheduled, with the next number of its
\* space and frames that were waiting there.
LEMMA PollStep ==
    ASSUME IInv, NEW blocked \in BOOLEAN, NEW data \in DataFrames, PollTransmit(blocked, data)
    PROVE  IInv'
<1>. DEFINE close    == IsClosed(state)
            visited  == {s \in Spaces : CanSend(s) \/ (close /\ s = highest_space)}
            composed == {s \in visited : ~(CanSendOther(s) /\ blocked)}
            carried  == [s \in Spaces |-> IF close \/ s \notin composed THEN {}
                                          ELSE IF s = "Data" THEN data ELSE pending[s]]
            left     == [s \in Spaces |-> pending[s] \ carried[s]]
            greeted  == [s \in Spaces |-> hi[s] \/ Hello \in carried[s]]
            acksLeft == [s \in Spaces |-> IF s \in composed /\ ~close THEN "none" ELSE acks[s]]
            discards == Side = "client" /\ "Handshake" \in visited /\ greeted["Initial"]
            packet(s) == [space |-> s, pn |-> next_packet_number[s], time_sent |-> now,
                          ack_eliciting |-> CanSendOther(s), items |-> carried[s]]
<1>1. CASE close /\ ~pending_close
  <2>1. /\ phase' = "send" /\ spins' = 0
        /\ UNCHANGED <<state, pending_close, hi, highest_space, pending, acks, next_packet_number,
                       sentVars, timer, sending_queue, now, largest_acked_packet, rtt, written>>
    BY <1>1 DEF PollTransmit, handshakeVars
  <2>2. now' \in Nat /\ now' >= now
    BY <2>1 DEF IInv, TypeOK
  <2>3. PacketsAccountedOnce' /\ InFlightMatches' /\ Shape' /\ LossInv'
    BY <2>1, <2>2, IdleStep
  <2>4. FramesConserved'
    BY <2>1, FramesUnchanged
  <2>5. TypeOK' /\ TimerInv'
    BY <2>1 DEF IInv, TypeOK, TimerInv, sentVars
  <2>. QED
    BY <2>3, <2>4, <2>5 DEF IInv
<1>2. CASE ~(close /\ ~pending_close)
  <2>1. /\ sending_queue' = sending_queue \cup {packet(s) : s \in composed}
        /\ next_packet_number' = [s \in Spaces |->
             next_packet_number[s] + (IF s \in composed THEN 1 ELSE 0)]
        /\ pending' = left /\ hi' = greeted /\ acks' = acksLeft
        /\ pending_close' = (pending_close /\ composed = {})
        /\ DiscardSpace(discards)
        /\ IF discards THEN SetLossDetectionTimer(rtt) ELSE UNCHANGED timer
        /\ phase' \in {"poll", "send"} /\ spins' \in {0, spins + 1}
        /\ UNCHANGED <<state, highest_space, now, largest_acked_packet, rtt, written>>
    BY <1>2 DEF PollTransmit
  <2>2. /\ composed \subseteq Spaces /\ carried \in [Spaces -> SUBSET Items]
        /\ \A s \in Spaces : carried[s] \subseteq pending[s]
    BY DEF IInv, TypeOK, DataFrames, Spaces
  <2>3. left \in [Spaces -> SUBSET Items] /\ left["Data"] = pending["Data"] \ carried["Data"]
    BY <2>2 DEF IInv, TypeOK, Spaces
  <2>4. /\ greeted \in [Spaces -> BOOLEAN] /\ acksLeft \in [Spaces -> {"none", "held", "due"}]
        /\ (pending_close /\ composed = {}) \in BOOLEAN /\ discards \in BOOLEAN
    BY DEF IInv, TypeOK
  <2>5. \A s \in Spaces : s \notin composed => carried[s] = {}
    OBVIOUS
  <2>. HIDE DEF composed, carried, left, greeted, acksLeft, discards
  <2>6. \A s \in Spaces : /\ packet(s) \in Packet /\ packet(s).space = s
                          /\ packet(s).pn = next_packet_number[s] /\ packet(s).time_sent = now
                          /\ packet(s).items = carried[s]
    BY <2>2 DEF IInv, TypeOK, Packet, CanSendOther
  <2>. HIDE DEF packet
  <2>7. \A s \in Spaces : QueuedIn(s)' = QueuedIn(s) \cup (IF s \in composed THEN {packet(s)} ELSE {})
    BY <2>1, <2>2, <2>6 DEF QueuedIn
  <2>8. sending_queue' \in SUBSET Packet
    <3>1. sending_queue \in SUBSET Packet
      BY DEF IInv, TypeOK
    <3>2. \A s \in composed : packet(s) \in Packet
      BY <2>2, <2>6
    <3>. QED
      BY <2>1, <3>1, <3>2
  <2>9. IsFiniteSet(sending_queue')
    <3>. DEFINE all == {packet("Initial")} \cup {packet("Handshake")} \cup {packet("Data")}
    <3>1. IsFiniteSet(all)
      BY FS_Singleton, FS_Union
    <3>2. {packet(s) : s \in composed} \subseteq all
      BY <2>2 DEF Spaces
    <3>. HIDE DEF all
    <3>. QED
      BY <2>1, <3>1, <3>2, FS_Subset, FS_Union DEF IInv, Shape
  <2>10. /\ TrackedNext({})
         /\ loss_time' \in [Spaces -> Nat \cup {None}]
         /\ \A s \in Spaces : loss_time'[s] # loss_time[s] => sent_packets'[s] = {}
    BY <2>1, <2>4, DiscardTracked
  <2>11. PacketsAccountedOnce'
    <3>1. ASSUME NEW s \in Spaces
          PROVE  AccountedOnce(next_packet_number'[s], QueuedIn(s)', sent_packets'[s], acked'[s], lost'[s])
      <4>1. AccountedOnce(next_packet_number[s], QueuedIn(s), sent_packets'[s], acked'[s], lost'[s])
        BY <2>10 DEF TrackedNext
      <4>2. next_packet_number[s] \in Nat
        BY DEF IInv, TypeOK
      <4>3. CASE s \in composed
        <5>1. AccountedOnce(next_packet_number[s] + 1, QueuedIn(s) \cup {packet(s)},
                            sent_packets'[s], acked'[s], lost'[s])
          BY <2>6, <4>1, <4>2, ComposeAccounted
        <5>. QED
          BY <2>1, <2>7, <4>3, <5>1
      <4>4. CASE s \notin composed
        <5>1. next_packet_number'[s] = next_packet_number[s]
          BY <2>1, <4>2, <4>4
        <5>2. QueuedIn(s)' = QueuedIn(s) \cup {}
          BY <2>7, <4>4
        <5>3. QueuedIn(s)' = QueuedIn(s)
          BY <5>2
        <5>. QED
          BY <4>1, <5>1, <5>3
      <4>. QED
        BY <4>3, <4>4
    <3>. QED
      BY <3>1 DEF PacketsAccountedOnce
  <2>12. FramesConserved'
    <3>. DEFINE F == QueuedIn("Data") \cup sent_packets'["Data"]
    <3>1. Conserved(written, pending["Data"], F, confirmed'["Data"])
      BY <2>10 DEF TrackedNext
    <3>2. "Data" \in Spaces
      BY DEF Spaces
    <3>3. CASE "Data" \in composed
      <4>1. Conserved(written, pending["Data"] \ carried["Data"], F \cup {packet("Data")},
                      confirmed'["Data"])
        <5>1. packet("Data").items = carried["Data"] /\ carried["Data"] \subseteq pending["Data"]
          BY <2>2, <2>6, <3>2
        <5>. HIDE DEF F
        <5>2. Conserved(written, pending["Data"] \ packet("Data").items, F \cup {packet("Data")},
                        confirmed'["Data"])
          BY <3>1, <5>1, ComposeConserved
        <5>. QED
          BY <5>1, <5>2
      <4>2. F \cup {packet("Data")} = QueuedIn("Data")' \cup sent_packets'["Data"]
        BY <2>7, <3>2, <3>3
      <4>. QED
        BY <2>1, <2>3, <4>1, <4>2 DEF FramesConserved
    <3>4. CASE "Data" \notin composed
      <4>1. pending'["Data"] = pending["Data"] /\ QueuedIn("Data")' = QueuedIn("Data")
        BY <2>1, <2>3, <2>5, <2>7, <3>2, <3>4
      <4>. QED
        BY <2>1, <3>1, <4>1 DEF FramesConserved
    <3>. QED
      BY <3>3, <3>4
  <2>13. InFlightMatches'
    BY <2>10 DEF TrackedNext
  <2>14. Shape'
    <3>1. \A s \in Spaces : sent_packets'[s] \in SUBSET sent_packets[s]
      BY <2>10 DEF TrackedNext
    <3>2. \A s \in Spaces : IsFiniteSet(sent_packets'[s])
      BY <3>1, FS_Subset DEF IInv, Shape
    <3>3. \A p \in sending_queue' : p.time_sent <= now
      <4>1. now \in Nat /\ \A p \in sending_queue : p.time_sent <= now
        BY DEF IInv, Shape, TypeOK
      <4>2. \A s \in composed : packet(s).time_sent = now
        BY <2>2, <2>6
      <4>3. now <= now
        BY <4>1
      <4>. QED
        BY <2>1, <4>1, <4>2, <4>3
    <3>. QED
      BY <2>1, <2>9, <3>1, <3>2, <3>3 DEF IInv, Shape
  <2>15. LossInv'
    <3>1. \A s \in Spaces : Overtaken(s)' \subseteq Overtaken(s)
      BY <2>1, <2>10 DEF Overtaken, TrackedNext
    <3>2. \A s \in Spaces : Overtaken(s)' # {} => loss_time'[s] # None
      BY <2>10, <3>1 DEF IInv, LossInv, Overtaken
    <3>3. ASSUME NEW s \in Spaces
          PROVE  /\ largest_acked_packet'[s] < next_packet_number'[s]
                 /\ packet(s).pn > largest_acked_packet'[s]
      <4>1. /\ largest_acked_packet[s] < next_packet_number[s]
            /\ largest_acked_packet[s] \in Int /\ next_packet_number[s] \in Nat
        BY DEF IInv, LossInv, TypeOK, None
      <4>2. /\ largest_acked_packet' = largest_acked_packet
            /\ next_packet_number'[s] = next_packet_number[s] + (IF s \in composed THEN 1 ELSE 0)
        BY <2>1
      <4>3. packet(s).pn = next_packet_number[s]
        BY <2>6
      <4>4. /\ largest_acked_packet[s] < next_packet_number[s] + (IF s \in composed THEN 1 ELSE 0)
            /\ next_packet_number[s] > largest_acked_packet[s]
        <5>1. /\ largest_acked_packet[s] < next_packet_number[s] + 1
              /\ largest_acked_packet[s] < next_packet_number[s] + 0
              /\ next_packet_number[s] > largest_acked_packet[s]
          BY <4>1, BelowNext
        <5>. QED
          BY <5>1
      <4>. QED
        BY <4>2, <4>3, <4>4
    <3>4. ASSUME NEW s \in Spaces, NEW p \in QueuedIn(s)'
          PROVE  p.pn > largest_acked_packet'[s]
      BY <2>1, <2>7, <3>3 DEF IInv, LossInv
    <3>. QED
      BY <3>2, <3>3, <3>4 DEF LossInv
  <2>16. timer' \in Nat \cup {None} /\ TimerInv'
    <3>1. CASE discards
      <4>1. SetLossDetectionTimer(rtt) /\ rtt \in Rtt
        BY <2>1, <3>1 DEF IInv, TypeOK
      <4>2. sent_packets' \in [Spaces -> SUBSET Packet]
        BY <2>10 DEF TrackedNext
      <4>. QED
        BY <2>1, <2>10, <2>13, <4>1, <4>2, SetTimer DEF TimerInv
    <3>2. CASE ~discards
      BY <2>1, <3>2 DEF DiscardSpace, sentVars, IInv, TypeOK, TimerInv
    <3>. QED
      BY <3>1, <3>2
  <2>17. next_packet_number' \in [Spaces -> Nat]
    <3>1. \A s \in Spaces : next_packet_number[s] + (IF s \in composed THEN 1 ELSE 0) \in Nat
      BY DEF IInv, TypeOK
    <3>2. next_packet_number' = [s \in Spaces |->
            next_packet_number[s] + (IF s \in composed THEN 1 ELSE 0)]
      BY <2>1
    <3>. QED
      BY <3>1, <3>2
  <2>18. TypeOK'
    <3>1. /\ now' \in Nat /\ phase' \in {"poll", "send", "select"} /\ spins' \in Nat
          /\ state' \in {"Handshake", "Established", "Closed", "Drained"}
          /\ highest_space' \in Spaces /\ rtt' \in Rtt /\ written' \in SUBSET DataItems
          /\ largest_acked_packet' \in [Spaces -> Nat \cup {None}]
      <4>1. /\ phase' \in {"poll", "send"} /\ spins' \in {0, spins + 1}
            /\ UNCHANGED <<state, highest_space, now, largest_acked_packet, rtt, written>>
        BY <2>1
      <4>. QED
        BY <4>1 DEF IInv, TypeOK
    <3>2. /\ pending_close' \in BOOLEAN /\ hi' \in [Spaces -> BOOLEAN]
          /\ pending' \in [Spaces -> SUBSET Items]
          /\ acks' \in [Spaces -> {"none", "held", "due"}]
      BY <2>1, <2>3, <2>4
    <3>3. /\ sent_packets' \in [Spaces -> SUBSET Packet]
          /\ in_flight' \in [Spaces -> Nat] /\ path_in_flight' \in Nat
          /\ acked' \in [Spaces -> SUBSET Nat] /\ lost' \in [Spaces -> SUBSET Nat]
          /\ confirmed' \in [Spaces -> SUBSET Items]
      BY <2>10 DEF TrackedNext
    <3>. QED
      BY <2>8, <2>10, <2>16, <2>17, <3>1, <3>2, <3>3 DEF TypeOK
  <2>. QED
    BY <2>11, <2>12, <2>13, <2>14, <2>15, <2>16, <2>18 DEF IInv
<1>. QED
  BY <1>1, <1>2

-----------------------------------------------------------------------------
(* The theorems.                                                           *)

\* Every step of a connection preserves the inductive invariant.
LEMMA IInvNext == IInv /\ [Next]_vars => IInv'
<1>. SUFFICES ASSUME IInv, [Next]_vars PROVE IInv'
  OBVIOUS
<1>1. CASE UNCHANGED vars
  <2>1. /\ UNCHANGED <<sentVars, next_packet_number, largest_acked_packet, sending_queue, written,
                       pending, now, phase, spins, timer, state, rtt, pending_close, hi,
                       highest_space, acks>>
    BY <1>1 DEF vars, handshakeVars
  <2>2. now' \in Nat /\ now' >= now
    BY <2>1 DEF IInv, TypeOK
  <2>3. PacketsAccountedOnce' /\ InFlightMatches' /\ Shape' /\ LossInv'
    BY <2>1, <2>2, IdleStep
  <2>4. FramesConserved'
    BY <2>1, FramesUnchanged
  <2>5. TypeOK' /\ TimerInv'
    BY <2>1 DEF IInv, TypeOK, TimerInv, sentVars
  <2>. QED
    BY <2>3, <2>4, <2>5 DEF IInv
<1>2. CASE Poll
  BY <1>2, PollStep DEF Poll
<1>3. CASE SendScheduled
  BY <1>3, SendScheduledStep
<1>4. CASE Receive
  BY <1>4, HandleDataStep, BoundsAssumption DEF Receive, ReceiveWith
<1>5. CASE AckDelayTimeout \/ CloseTimeout \/ AppClose \/ Sleep
  BY <1>5, QuietSteps
<1>6. CASE LossDetectionTimeout
  BY <1>6, LossDetectionTimeoutStep
<1>7. CASE \E i \in DataItems : AppWrite(i)
  BY <1>7, AppWriteStep
<1>. QED
  BY <1>1, <1>2, <1>3, <1>4, <1>5, <1>6, <1>7 DEF Next

\* The inductive invariant holds of every behaviour of a connection, whatever the peer
\* acknowledges, the application writes and the order in which timers and packets come.
THEOREM Invariance == Spec => []IInv
  BY IInvInit, IInvNext, PTL DEF Spec

\* The variables of a connection keep their types: in particular the loss-detection timer and
\* the loss times are instants, and the arithmetic of RttEstimator::update never goes below zero.
THEOREM TypeCorrect == Spec => []TypeOK
<1>1. IInv => TypeOK
  BY DEF IInv
<1>. QED
  BY <1>1, Invariance, PTL

\* Every packet number handed out by get_tx_number belongs to exactly one packet, which is
\* scheduled, tracked, acknowledged or given up, and never two of these.
THEOREM PacketsAccounted == Spec => []PacketsAccountedOnce
<1>1. IInv => PacketsAccountedOnce
  BY DEF IInv
<1>. QED
  BY <1>1, Invariance, PTL

\* Every piece of stream data the application wrote waits in the send buffers, travels in
\* exactly one packet, or was acknowledged: on_ack_received, detect_lost_packets and
\* poll_transmit neither lose nor duplicate it.
THEOREM DataConserved == Spec => []FramesConserved
<1>1. IInv => FramesConserved
  BY DEF IInv
<1>. QED
  BY <1>1, Invariance, PTL

\* The counters of ack-eliciting packets in flight, of each space and of the path, are the
\* number of such packets tracked: the subtractions of InFlight::remove never wrap.
THEOREM InFlightCounted == Spec => []InFlightMatches
<1>1. IInv => InFlightMatches
  BY DEF IInv
<1>. QED
  BY <1>1, Invariance, PTL

\* In a connection that is open, an ack-eliciting packet in flight keeps the loss-detection
\* timer armed; a packet overtaken by an acknowledged one has a loss time; and a closed
\* connection has no loss-detection timer.
THEOREM LossTimerCorrect ==
    Spec => [](TimerArmedWhileInFlight /\ OvertakenHasLossTime /\ ClosedHasNoLossTimer)
  BY IInvImplies, Invariance, PTL

=============================================================================
