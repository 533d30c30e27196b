------------------------------- MODULE Session -------------------------------
(***************************************************************************)
(* A run of the client program against the server program: two connections *)
(* and the network between them.  Each connection is a task that, over and *)
(* over, sends what it has to send and then takes one step: an event goes  *)
(* to the handler, or a timer fires, or a packet is handled, in this order *)
(* of preference (run_connection).  The network delays and reorders, and   *)
(* loses nothing; it may deliver the client's first packet twice, the one  *)
(* packet that the duplicate filter does not see.                          *)
(*                                                                         *)
(* Packets that only acknowledge are left out, the last packet of a closed *)
(* connection excepted.                                                    *)
(***************************************************************************)
EXTENDS Programs

CONSTANT ProgramNames

VARIABLES
    program,    \* the program both were started with
    units,      \* the length of what it writes at a time
    conn,       \* conn[x]: the connection of x; Nobody before the server accepts it
    net,        \* net[x]: the packets on their way to x, in the order they were sent
    reordered,  \* history: a packet was delivered before one that was sent earlier
    unheard,    \* history: a data packet was dropped by a client still in its handshake
    told        \* history: told[x] counts the events of each kind that x has handled

vars == <<program, units, conn, net, reordered, unheard, told>>

Peers == {"client", "server"}
Peer(x) == IF x = "client" THEN "server" ELSE "client"
Nobody == [state |-> "Nobody", panicked |-> "no"]

\* The task of x runs until the connection is drained or something in it panics.
Runs(x) == conn[x].state \notin {"Nobody", "Drained"} /\ conn[x].panicked = "no"

Init ==
    /\ program \in ProgramNames
    /\ units \in WriteUnits(program)
    /\ LET c == NewConnection("client", NewApp(program, units))
       IN  /\ conn = [x \in Peers |-> IF x = "client" THEN Sent(c) ELSE Nobody]
           /\ net = [x \in Peers |-> IF x = "client" THEN <<>> ELSE Packets(c, TRUE)]
    /\ reordered = FALSE
    /\ unheard = FALSE
    /\ told = [x \in Peers |-> [Connected |-> 0, ConnectionLost |-> 0, Stream |-> 0]]

\* The end of every turn of the loop: stepped is the connection of x after its step,
\* and rest what is on its way to x.
Transmit(x, stepped, rest) ==
    \E c \in {Encoded(stepped)}, acks \in BOOLEAN :
        /\ acks \/ (IsClosed(c) /\ c.pending_close)
        /\ conn' = [conn EXCEPT ![x] = IF c.panicked = "no" THEN Sent(c) ELSE c]
        /\ net' = [net EXCEPT ![x] = rest,
                              ![Peer(x)] = IF c.panicked = "no" THEN @ \o Packets(c, acks) ELSE @]
        /\ UNCHANGED <<program, units>>

Kind(event) == IF event.type \in {"Connected", "ConnectionLost"} THEN event.type ELSE "Stream"

HandleEvent(x) ==
    /\ Runs(x)
    /\ conn[x].events # <<>>
    /\ LET event == Head(conn[x].events)
           c == [conn[x] EXCEPT !.events = Tail(@)]
       IN  /\ Transmit(x, Handler(program, c, event), net[x])
           /\ told' = [told EXCEPT ![x][Kind(event)] = @ + 1]
    /\ UNCHANGED <<reordered, unheard>>

\* Timer::Close; the other timers change nothing that is in this model.
CloseTimeout(x) ==
    /\ Runs(x)
    /\ conn[x].events = <<>>
    /\ conn[x].close_timer
    /\ Transmit(x, Drain(conn[x]), net[x])
    /\ UNCHANGED <<reordered, unheard, told>>

ReceivePacket(x, i) ==
    /\ Runs(x)
    /\ conn[x].events = <<>>
    /\ i \in DOMAIN net[x]
    /\ Transmit(x, HandleData(conn[x], net[x][i]), RemoveAt(net[x], i))
    /\ reordered' = (reordered \/ i > 1)
    /\ unheard' = (unheard \/ (conn[x].state = "Handshake" /\ net[x][i].space = "Data"))
    /\ UNCHANGED told

\* accept_connection: the server's endpoint makes a connection for the first packet.
\* The packet is not in the duplicate filter: a copy of it will be handled again.
Accept(i, twice) ==
    /\ conn["server"].state = "Nobody"
    /\ i \in DOMAIN net["server"]
    /\ net["server"][i].space = "Initial"
    /\ LET c == NewConnection("server", NewApp(program, units))
       IN  Transmit("server", HandleData(c, net["server"][i]),
                    IF twice THEN net["server"] ELSE RemoveAt(net["server"], i))
    /\ UNCHANGED <<reordered, unheard, told>>

\* The acknowledgement of the last outstanding frame of a stream (received_ack_of).  A
\* frame is acknowledged once the packet that carried it is handled.
InTransit(x, id) ==
    \E i \in DOMAIN net[Peer(x)] :
        \E j \in DOMAIN net[Peer(x)][i].frames :
            /\ net[Peer(x)][i].frames[j].type = "Stream"
            /\ net[Peer(x)][i].frames[j].id = id

StreamAcked(x, id) ==
    /\ Runs(x)
    /\ conn[x].events = <<>>
    /\ HasFinished(conn[x], id)
    /\ ~InTransit(x, id)
    /\ ~unheard
    /\ Transmit(x, AckedAll(conn[x], id), net[x])
    /\ UNCHANGED <<reordered, unheard, told>>

Receive(x) == \E i \in DOMAIN net[x] : ReceivePacket(x, i)

Accepts == \E i \in DOMAIN net["server"], twice \in BOOLEAN : Accept(i, twice)

Next ==
    \/ Accepts
    \/ \E x \in Peers :
          \/ HandleEvent(x)
          \/ CloseTimeout(x)
          \/ Receive(x)
          \/ \E id \in {First, Second, FileId} : StreamAcked(x, id)

\* A task takes its next step when there is one, timers fire, and the network
\* delivers what it holds.
Fairness ==
    /\ WF_vars(Accepts)
    /\ \A x \in Peers :
          WF_vars(HandleEvent(x)) /\ WF_vars(CloseTimeout(x)) /\ WF_vars(Receive(x))

Spec == Init /\ [][Next]_vars /\ Fairness

-----------------------------------------------------------------------------
(* Properties *)


\* A handler is told of the connection once, before any event of a stream, although
\* the server handles a copy of the client's first packet again.
ConnectedFirst ==
    \A x \in Peers :
        conn[x].state = "Nobody" \/
        LET events == conn[x].events
        IN  /\ told[x]["Connected"] <= 1
            /\ told[x]["Stream"] > 0 => told[x]["Connected"] = 1
            /\ \A i \in DOMAIN events :
                  IF i = 1 /\ told[x]["Connected"] = 0 THEN events[i] = Connected
                  ELSE events[i] # Connected


\* A connection that is closed, by its application or by an error, is drained, unless
\* its handler has panicked: run_connection ends and the endpoint collects it.
ClosedDrains ==
    \A x \in Peers : (conn[x].state = "Closed") ~> (conn[x].state = "Drained")

\* "Emitted if the peer closes the connection": the server's handler is told that the
\* client closed the connection.
CloseIsHeard ==
    (conn["client"].state = "Closed") ~> (told["server"]["ConnectionLost"] > 0)
=============================================================================
