------------------------------ MODULE Endpoint ------------------------------
(***************************************************************************)
(* The endpoint (core/src/endpoint.rs): it owns the UDP socket, keeps the  *)
(* connection tasks in a slab and the slab key of each remote address in   *)
(* routes, hands every datagram to the task of its address, accepts new    *)
(* connections, and once a second throws away the tasks that have ended.   *)
(*                                                                         *)
(* A task ends by itself at any time: the connection was drained, or the   *)
(* task panicked (JoinHandle::is_finished does not tell them apart).       *)
(***************************************************************************)
EXTENDS Naturals

CONSTANTS
    Addrs,       \* remote addresses
    Handles,     \* slab keys
    None,        \* no slab key, no address
    ExitOnIdle   \* the exit argument of Endpoint::run

ASSUME NoneAssumption == None \notin Handles /\ None \notin Addrs
ASSUME ExitAssumption == ExitOnIdle \in BOOLEAN

VARIABLES
    running,     \* Endpoint::run: "setup" before it, "running", "exited" or "panicked"
    connections, \* slab key -> the remote address of the task there, or None
    finished,    \* the keys of the tasks that have ended
    routes       \* address -> slab key, or None

vars == <<running, connections, finished, routes>>

Occupied == {h \in Handles : connections[h] # None}

Init ==
    /\ running = "setup"
    /\ connections = [h \in Handles |-> None]
    /\ finished = {}
    /\ routes = [a \in Addrs |-> None]

\* Slab::vacant_entry and insert: a key that is free.
Insert(h, a) ==
    /\ h \in Handles \ Occupied
    /\ connections' = [connections EXCEPT ![h] = a]

\* A new task in the slab, and its route: start_connection, and the end of accept_connection.
AddConnection(h, a) == Insert(h, a) /\ routes' = [routes EXCEPT ![a] = h]

\* A plausible slip: the test for an address already connected is missing.
ConnectAgain(h, a) ==
    /\ running = "setup" /\ AddConnection(h, a)
    /\ UNCHANGED <<running, finished>>

\* connect: an address that is already connected is refused.  run takes the endpoint over,
\* so that connections are opened before it only.
Connect(h, a) ==
    /\ running = "setup" /\ routes[a] = None
    /\ AddConnection(h, a)
    /\ UNCHANGED <<running, finished>>

Run ==
    /\ running = "setup"
    /\ running' = "running"
    /\ UNCHANGED <<connections, finished, routes>>

\* A connection task ends, in the runtime, at any time.
TaskEnds(h) ==
    /\ running \in {"setup", "running"}
    /\ h \in Occupied \ finished
    /\ finished' = finished \cup {h}
    /\ UNCHANGED <<running, connections, routes>>

\* dispatch_datagram, when the address has a route: the datagram goes to the task's channel,
\* or nowhere when the task has ended; with no task under that key, unwrap panics.
Deliver(a) ==
    /\ running = "running" /\ routes[a] # None
    /\ running' = IF routes[a] \in Occupied THEN "running" ELSE "panicked"
    /\ UNCHANGED <<connections, finished, routes>>

\* accept_connection, of a datagram from an address without a route.  One that is not an
\* Initial packet, or that handle_first_packet refuses, changes nothing.
Accept(h, a) ==
    /\ running = "running" /\ routes[a] = None
    /\ AddConnection(h, a)
    /\ UNCHANGED <<running, finished>>

\* A plausible slip: the tasks that have ended stay in the slab.
CheckCloseKeeps ==
    /\ running = "running"
    /\ running' = IF ExitOnIdle /\ Occupied = {} THEN "exited" ELSE "running"
    /\ UNCHANGED <<connections, finished, routes>>

\* The tick of check_close: retain takes the ended tasks out of the slab.  By the time
\* remove_connection asks for them try_remove finds nothing, so their routes stay.
CheckClose ==
    /\ running = "running"
    /\ connections' = [h \in Handles |-> IF h \in finished THEN None ELSE connections[h]]
    /\ finished' = {}
    /\ running' = IF ExitOnIdle /\ Occupied \subseteq finished THEN "exited" ELSE "running"
    /\ UNCHANGED routes

Next ==
    \/ \E h \in Handles, a \in Addrs : Connect(h, a)
    \/ Run
    \/ \E h \in Handles : TaskEnds(h)
    \/ \E a \in Addrs : Deliver(a)
    \/ \E h \in Handles, a \in Addrs : Accept(h, a)
    \/ CheckClose

Spec == Init /\ [][Next]_vars

\* The select of run is not biased, and the interval of check_close keeps ticking.
FairSpec == Spec /\ WF_vars(CheckClose)

-----------------------------------------------------------------------------
\* The types; the ended tasks not yet collected are tasks in the slab.
TypeOK ==
    /\ running \in {"setup", "running", "exited", "panicked"}
    /\ connections \in [Handles -> Addrs \cup {None}]
    /\ finished \subseteq Occupied
    /\ routes \in [Addrs -> Handles \cup {None}]

\* Every task in the slab is the one its address is routed to: datagrams of its peer reach
\* it, and no two tasks serve the same address, whatever ended and was replaced before.
ConnectionsRouted == \A h \in Occupied : routes[connections[h]] = h

\* A task that has ended leaves the slab, unless the endpoint itself has died.
EndedCollected == \A h \in Handles : (h \in finished /\ running = "running") ~>
                                     (h \notin finished \/ running = "panicked")
=============================================================================
