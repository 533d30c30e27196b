------------------------------ MODULE Programs ------------------------------
(***************************************************************************)
(* The handlers of the client and the server program: what each of the     *)
(* four applications (pingpong, pingpong_stop, cc for the file transfer,   *)
(* echo) does with an event of its connection.  c.app holds the variables  *)
(* the handler's closure keeps.                                            *)
(***************************************************************************)
EXTENDS Connection

CONSTANTS
    Rounds,     \* per ping-pong: the pings that follow the first one, 19 and 9
    PingPings   \* the "ping ping" at which the server of pingpong_stop stops reading: 10

ASSUME ProgramsAssumption ==
    /\ Rounds \in [{"pingpong", "pingpong_stop"} -> Nat \ {0}]
    /\ PingPings \in Nat \ {0}

\* The streams the programs open: two of the client, and the file of the server.
First == StreamId("client", "Bi", 0)
Second == StreamId("client", "Bi", 1)
FileId == StreamId("server", "Uni", 0)

RandomCode == "random_error_code"
ResetCode == "0x1337"
StopCode == "0x7331"
DefaultCode == "0"

\* The units of one write: a file has any size, and a message of the echo is longer than
\* a packet (1,024,000 bytes).
WriteUnits(program) == CASE program = "cc" -> 1 .. 3 [] program = "echo" -> {3} [] OTHER -> {1}

NewApp(program, units) ==
    [units |-> units, remaining |-> IF program \in DOMAIN Rounds THEN Rounds[program] ELSE 0,
     opened |-> {}, finished |-> {}, code |-> NoCode, ping_ping_cnt |-> 0,
     bytes |-> [id \in {First, Second} |-> 0]]

\* n messages of one unit, each in a write of its own.
Messages(n) == [i \in 1 .. n |-> 1]

OpenAndWrite(c, dir) == Unwrap(CanOpen(c), Write(Open(c, dir), OpenId(c, dir), <<c.app.units>>))

\* while let Ok(chunk) = chunks.next(..): all the units, and the end or the reset.
Available(c, id) == Cardinality(Ready(c, id))
Ends(c, id) == After(c, id, Available(c, id)) = "None"
TakeAll(c, id) == Take(c, id, Available(c, id), TRUE)

-----------------------------------------------------------------------------
(* The client *)

PingPongReads(c, id) ==
    LET n == Available(c, id)
        k == Min({n, c.app.remaining})
        taken == TakeAll(c, id)
        wrote == [Write(taken, id, Messages(k)) EXCEPT !.app.remaining = @ - k]
    IN  IF Ends(c, id) THEN Close(taken)
        ELSE IF n = 0 THEN taken
        ELSE IF k > 0 /\ ~CanWrite(taken, id) THEN Panic(taken)
        ELSE IF wrote.app.remaining > 0 THEN wrote
        ELSE Unwrap(CanFinish(wrote, id), Finish(wrote, id))

ClientPingPong(c, event) ==
    CASE event.type = "Connected" -> OpenAndWrite(c, "Bi")
      [] event.type = "Readable" ->
            IF CanRead(c, event.id) THEN PingPongReads(c, event.id) ELSE Panic(c)
      [] OTHER -> c

\* The streams both ended: the connection is closed, otherwise the answers are sent.
\* The first stream is reset when an answer comes after the last ping.
PingPongStopAnswers(c, id, n, to_reset) ==
    LET wrote == IF n > 0 THEN Unwrap(CanWrite(c, id), Write(c, id, Messages(n))) ELSE c
        reset == Reset(wrote, id, RandomCode)
    IN  IF Cardinality(c.app.finished) = 2 THEN Close(c)
        ELSE IF ~to_reset THEN wrote
        ELSE IF Cardinality(c.app.opened) = 2 THEN reset
        ELSE [OpenAndWrite(reset, "Bi") EXCEPT !.app.opened = @ \cup {OpenId(reset, "Bi")}]

PingPongStopReads(c, id) ==
    LET n == Available(c, id)
        k == IF id = First THEN Min({n, c.app.remaining}) ELSE n
        taken == [TakeAll(c, id) EXCEPT
                     !.app.remaining = IF id = First THEN @ - k ELSE @,
                     !.app.finished = IF Ends(c, id) THEN @ \cup {id} ELSE @]
    IN  PingPongStopAnswers(taken, id, k, n > k)

ClientPingPongStop(c, event) ==
    CASE event.type = "Connected" ->
            [OpenAndWrite(c, "Bi") EXCEPT !.app.opened = @ \cup {OpenId(c, "Bi")}]
      [] event.type = "Readable" ->
            IF event.id \in c.app.opened /\ CanRead(c, event.id)
            THEN PingPongStopReads(c, event.id) ELSE Panic(c)
      [] event.type = "Stopped" ->
            IF event.id = Second /\ event.id \in c.app.opened /\ event.code = RandomCode
            THEN PingPongStopAnswers([c EXCEPT !.app.finished = @ \cup {Second}], Second, 0, FALSE)
            ELSE Panic(c)
      [] OTHER -> PingPongStopAnswers(c, First, 0, FALSE)

ClientFile(c, event) ==
    IF event.type # "Readable" \/ ~CanRead(c, event.id) THEN c
    ELSE IF Ends(c, event.id) THEN Close(TakeAll(c, event.id))
    ELSE TakeAll(c, event.id)

\* What follows every event: the first stream is reset when enough came back on it;
\* when it has ended, the second is stopped when enough came back; then the close.
EchoStep(c) ==
    IF First \notin c.app.opened THEN Panic(c)
    ELSE IF First \notin c.app.finished
    THEN IF c.app.bytes[First] > c.app.units \div 16 THEN Reset(c, First, ResetCode) ELSE c
    ELSE IF Second \notin c.app.finished
    THEN IF c.app.bytes[Second] > c.app.units \div 4 THEN Stop(c, Second, StopCode) ELSE c
    ELSE Close(c)

EchoOpens(c) ==
    LET one == Finish(OpenAndWrite(c, "Bi"), First)
        both == Finish(OpenAndWrite(one, "Bi"), Second)
    IN  [both EXCEPT !.app.opened = {First, Second}]

EchoReads(c, id) ==
    IF ~CanRead(c, id) THEN c
    ELSE [TakeAll(c, id) EXCEPT !.app.bytes[id] = @ + Available(c, id),
                                !.app.finished = IF Ends(c, id) THEN @ \cup {id} ELSE @]

ClientEcho(c, event) ==
    CASE event.type = "Connected" -> EchoStep(EchoOpens(c))
      [] event.type = "Readable" ->
            IF event.id \in c.app.opened THEN EchoStep(EchoReads(c, event.id)) ELSE Panic(c)
      [] event.type = "Stopped" ->
            IF event.id = Second /\ event.code = StopCode /\ Second \in c.app.opened
            THEN EchoStep([c EXCEPT !.app.finished = @ \cup {Second}]) ELSE Panic(c)
      [] OTHER -> EchoStep(c)

-----------------------------------------------------------------------------
(* The server *)

\* A pong for every ping; the stream is finished when its end was read with a ping.
ServerPingPongReads(c, id) ==
    LET n == Available(c, id)
        taken == TakeAll(c, id)
        wrote == Write(taken, id, Messages(n))
    IN  IF n = 0 THEN taken
        ELSE IF ~CanWrite(taken, id) THEN Panic(taken)
        ELSE IF Ends(c, id) THEN Unwrap(CanFinish(wrote, id), Finish(wrote, id))
        ELSE wrote

ServerPingPong(c, event) ==
    IF event.type # "Readable" THEN c
    ELSE IF CanRead(c, event.id) THEN ServerPingPongReads(c, event.id)
    ELSE Panic(c)

\* The answers that come before the ping ping that is one too many; then the stream
\* is stopped and finished, and what is left of it is not read.
ServerPingPongStopReads(c, id) ==
    LET n == Available(c, id)
        room == Max({0, PingPings - 1 - c.app.ping_ping_cnt})
        k == IF id # First THEN Min({n, room}) ELSE IF c.app.ping_ping_cnt < PingPings THEN n ELSE 0
        last == n > k
        next == After(c, id, n)
        code == IF c.app.code = NoCode THEN DefaultCode ELSE c.app.code
        taken == [Take(c, id, IF last THEN k + 1 ELSE n, ~last) EXCEPT
                     !.app.ping_ping_cnt = @ + (IF id = First THEN 0 ELSE IF last THEN k + 1 ELSE k),
                     !.app.code = IF ~last /\ next = "Reset" THEN c.recv[id].reset ELSE @]
        wrote == IF k > 0 THEN Write(taken, id, Messages(k)) ELSE taken
    IN  IF last THEN Finish(Stop(wrote, id, code), id)
        ELSE IF next = "None" THEN Panic(taken)
        ELSE IF next = "Reset" THEN Finish(wrote, id)
        ELSE wrote

ServerPingPongStop(c, event) ==
    CASE event.type = "Readable" ->
            IF CanRead(c, event.id) THEN ServerPingPongStopReads(c, event.id) ELSE Panic(c)
      [] event.type = "Stopped" -> Stop(c, event.id, event.code)
      [] OTHER -> c

ServerFile(c, event) ==
    IF event.type # "Connected" THEN c
    ELSE LET wrote == OpenAndWrite(c, "Uni")
         IN  Unwrap(CanFinish(wrote, OpenId(c, "Uni")), Finish(wrote, OpenId(c, "Uni")))

\* One unit is read for every event, and sent back.
ServerEchoReads(c, id) ==
    LET next == After(c, id, 0)
        taken == Take(c, id, IF next = "Unit" THEN 1 ELSE 0, next # "Unit")
    IN  CASE next = "Unit" -> Write(taken, id, Messages(1))
          [] next = "None" -> Panic(taken)
          [] next = "Reset" -> Unwrap(CanFinish(taken, id), Finish(taken, id))
          [] next = "Blocked" -> taken

ServerEcho(c, event) ==
    CASE event.type = "Readable" ->
            IF CanRead(c, event.id) THEN ServerEchoReads(c, event.id) ELSE c
      [] event.type = "Stopped" ->
            Unwrap(CanStop(c, event.id), Stop(c, event.id, event.code))
      [] OTHER -> c

-----------------------------------------------------------------------------
\* The handler of each side, by the program the two were started with.
Handler(program, c, event) ==
    IF c.side = "client"
    THEN CASE program = "pingpong" -> ClientPingPong(c, event)
           [] program = "pingpong_stop" -> ClientPingPongStop(c, event)
           [] program = "cc" -> ClientFile(c, event)
           [] program = "echo" -> ClientEcho(c, event)
    ELSE CASE program = "pingpong" -> ServerPingPong(c, event)
           [] program = "pingpong_stop" -> ServerPingPongStop(c, event)
           [] program = "cc" -> ServerFile(c, event)
           [] program = "echo" -> ServerEcho(c, event)
=============================================================================
