--------------------------- MODULE EndpointProofs ---------------------------
(***************************************************************************)
(* ConnectionsRouted for every number of addresses and slab keys.          *)
(***************************************************************************)
EXTENDS Endpoint, TLAPS

\* Adding a task for an address without a route: the routes of the others stand, because an
\* address that has a task has a route.
LEMMA AddPreserves ==
    ASSUME TypeOK, ConnectionsRouted, NEW h \in Handles, NEW a \in Addrs, routes[a] = None,
           AddConnection(h, a), UNCHANGED finished
    PROVE  /\ ConnectionsRouted'
           /\ connections' \in [Handles -> Addrs \cup {None}]
           /\ routes' \in [Addrs -> Handles \cup {None}]
           /\ finished' \subseteq Occupied'
<1>1. /\ h \notin Occupied
      /\ connections' = [connections EXCEPT ![h] = a] /\ routes' = [routes EXCEPT ![a] = h]
  BY DEF AddConnection, Insert
<1>2. Occupied' = Occupied \cup {h}
  BY <1>1, NoneAssumption DEF Occupied, TypeOK
<1>3. ASSUME NEW g \in Occupied PROVE connections'[g] = connections[g] /\ connections[g] # a
  BY <1>1, NoneAssumption DEF ConnectionsRouted, Occupied, TypeOK
<1>4. ConnectionsRouted'
  <2>1. ASSUME NEW g \in Occupied PROVE routes'[connections'[g]] = g
    BY <1>1, <1>3 DEF ConnectionsRouted, Occupied, TypeOK
  <2>2. routes'[connections'[h]] = h
    BY <1>1 DEF TypeOK
  <2>. QED
    BY <1>2, <2>1, <2>2 DEF ConnectionsRouted
<1>. QED
  BY <1>1, <1>2, <1>4 DEF TypeOK

\* Every step keeps the types and the routes of the tasks in the slab.
LEMMA RoutedNext ==
    ASSUME TypeOK, ConnectionsRouted, [Next]_vars
    PROVE  TypeOK' /\ ConnectionsRouted'
<1>1. ASSUME NEW h \in Handles, NEW a \in Addrs, Connect(h, a)
      PROVE  TypeOK' /\ ConnectionsRouted'
  BY <1>1, AddPreserves DEF Connect, TypeOK
<1>2. CASE Run
  BY <1>2 DEF Run, TypeOK, ConnectionsRouted, Occupied
<1>3. ASSUME NEW h \in Handles, TaskEnds(h)
      PROVE  TypeOK' /\ ConnectionsRouted'
  BY <1>3 DEF TaskEnds, TypeOK, ConnectionsRouted, Occupied
<1>4. ASSUME NEW a \in Addrs, Deliver(a)
      PROVE  TypeOK' /\ ConnectionsRouted'
  BY <1>4 DEF Deliver, TypeOK, ConnectionsRouted, Occupied
<1>5. ASSUME NEW h \in Handles, NEW a \in Addrs, Accept(h, a)
      PROVE  TypeOK' /\ ConnectionsRouted'
  BY <1>5, AddPreserves DEF Accept, TypeOK
<1>6. CASE CheckClose
  <2>1. Occupied' = Occupied \ finished /\ \A h \in Occupied' : connections'[h] = connections[h]
    BY <1>6 DEF CheckClose, Occupied, TypeOK
  <2>. QED
    BY <1>6, <2>1 DEF CheckClose, TypeOK, ConnectionsRouted
<1>7. CASE UNCHANGED vars
  BY <1>7 DEF vars, TypeOK, ConnectionsRouted, Occupied
<1>. QED
  BY <1>1, <1>2, <1>3, <1>4, <1>5, <1>6, <1>7 DEF Next

\* Every task in the slab is the one its address is routed to, for any number of addresses
\* and of tasks, whatever order tasks start, end and are collected in.
THEOREM RoutesCorrect == Spec => [](TypeOK /\ ConnectionsRouted)
<1>1. Init => TypeOK /\ ConnectionsRouted
  BY NoneAssumption DEF Init, TypeOK, ConnectionsRouted, Occupied
<1>. QED
  BY <1>1, RoutedNext, PTL DEF Spec
=============================================================================
