------------------------------- MODULE Server -------------------------------
(***************************************************************************)
(* The event loop of the server (websocket_server_runtime.c): waiting,     *)
(* accepting, the handshake, reading frames, the sweep over all            *)
(* connections, the purge, the shutdown, and the application's callbacks,  *)
(* which may send on, close, or keep references to any connection.         *)
(*                                                                         *)
(* The loop is single threaded.  Its control point is loop.pc; a callback  *)
(* is a control point at which the application acts.  Peers act at the     *)
(* points where the loop looks at the kernel.  Each frame or request a     *)
(* peer sends is one unit of input; timers fire at any visit.              *)
(***************************************************************************)
EXTENDS Connection, FiniteSets, SequencesExt

CONSTANTS
  Options,         \* what the server may run with: maxConnections (the option) and
                   \*   handlers (the callbacks the application registered)
  PeerUnits,       \* what the peers send
  TotalConns,      \* bound: connections that peers attempt
  MaxInput,        \* bound: units of input per peer
  MaxCalls         \* bound: send(), close() and stop() calls of the application

Requests == {"piece", "request", "badrequest"}
Frames == {"message", "ping", "pong", "close", "malformed"}

ASSUME ServerAssumption ==
  /\ FrameSizes # {}
  /\ PeerUnits \subseteq Requests \cup Frames
  /\ Options \subseteq [maxConnections : Nat \ {0},
                       handlers : SUBSET {"handshake", "open", "message", "close"}]
  /\ TotalConns \in Nat /\ MaxInput \in Nat /\ MaxCalls \in Nat

VARIABLES
  options,      \* intern->options and the handlers, fixed while run() runs
  loop,         \* control: pc, from (who visits), i (array index), cur, ret (return point)
  connections,  \* intern->connections[0 .. connection_count - 1]
  obj,          \* the connection objects, by numeric_id
  input,        \* per connection: buf (read_buffer), rx (in the kernel)
  peer,         \* per connection: left (units), asked (request sent), gone (end of stream)
  net,          \* connections: left to attempt, in the backlog, accepted so far
  running,      \* intern->running /\ ~WEBSOCKET_G(stopped)
  exception,    \* EG(exception)
  calls,        \* calls of the application so far
  life          \* history: which callbacks each connection has seen

vars == <<options, loop, connections, obj, input, peer, net, running, exception, calls, life>>

MaxConnections == options.maxConnections
Handlers == options.handlers

Ids == 1..TotalConns
NoConn == 0

\* The frame of any message: sizes are the business of module WriteQueue.
AnyFrame == [len |-> CHOOSE s \in FrameSizes : TRUE]
Answers == KernelAnswers(AnyFrame.len)

Unborn == [Opened(NoFd) EXCEPT !.open = FALSE, !.interest = {}]

\* accept() returns the lowest free descriptor.
FreeFd == CHOOSE fd \in Ids :
            /\ \A c \in Ids : obj[c].fd # fd
            /\ \A e \in Ids : (\A c \in Ids : obj[c].fd # e) => fd <= e

Init ==
  /\ options \in Options
  /\ loop = [pc |-> "wait", from |-> "fd", i |-> 0, cur |-> NoConn, ret |-> "none"]
  /\ connections = <<>>
  /\ obj = [c \in Ids |-> Unborn]
  /\ input = [c \in Ids |-> [buf |-> <<>>, rx |-> <<>>]]
  /\ peer = [c \in Ids |-> [left |-> MaxInput, asked |-> FALSE, gone |-> FALSE]]
  /\ net = [left |-> TotalConns, backlog |-> 0, accepted |-> 0]
  /\ running = TRUE /\ exception = FALSE /\ calls = 0
  /\ life = [c \in Ids |-> "none"]

-----------------------------------------------------------------------------
(* Control flow. *)

At(pc) == loop.pc = pc
Cur == loop.cur
Goto(pc) == [loop EXCEPT !.pc = pc]

\* The next turn of the for loop of process_connections(), then the purge.
SweepFrom(i) ==
  IF i > Len(connections)
  THEN [pc |-> "purge", from |-> "sweep", i |-> 1, cur |-> NoConn, ret |-> "none"]
  ELSE [pc |-> "visit", from |-> "sweep", i |-> i, cur |-> connections[i], ret |-> "none"]

\* process_connection_fd() returns to the loop, which sweeps; the sweep goes on.
Visited == IF loop.from = "fd" THEN SweepFrom(1) ELSE SweepFrom(loop.i + 1)

\* The loop of runtime_run() is left; runtime_close() notifies unless an
\* exception is pending.
BreakLoop == [loop EXCEPT !.pc = "closing", !.cur = NoConn]

\* process_handshake() returns true: the sweep then looks at the read buffer.
HandshakeReturns(o, buf) ==
  IF loop.from = "sweep" /\ o.upgraded /\ buf # <<>>
  THEN [loop EXCEPT !.pc = "frames", !.ret = "sweep"]
  ELSE Visited

\* process_buffered_frames() returns true to its caller.
FramesReturn(o, buf) ==
  CASE loop.ret = "reads"   -> Goto("reads")
    [] loop.ret = "upgrade" -> HandshakeReturns(o, buf)
    [] OTHER                -> Visited

\* Where a visit goes once timers and pending writes are dealt with.
Dispatch(o) ==
  IF ~o.open \/ o.close_after_write THEN Visited
  ELSE IF ~o.upgraded THEN Goto("handshake")
  ELSE IF loop.from = "fd" THEN Goto("reads")
  ELSE IF input[Cur].buf # <<>> THEN [loop EXCEPT !.pc = "frames", !.ret = "sweep"]
  ELSE Visited

-----------------------------------------------------------------------------
(* The peers and the kernel. *)

KernelPoint == loop.pc \in {"wait", "accept", "handshake", "reads"}

Connect ==
  /\ KernelPoint
  /\ net.left > 0
  /\ net' = [net EXCEPT !.left = @ - 1, !.backlog = @ + 1]
  /\ UNCHANGED <<loop, connections, obj, input, peer, running, exception, calls, life>>

\* A peer sends a piece of a request, a request, a malformed request, or frames.
PeerSends(c) ==
  /\ KernelPoint
  /\ obj[c].fd # NoFd /\ ~peer[c].gone /\ peer[c].left > 0
  /\ \E u \in PeerUnits \cap (IF peer[c].asked THEN Frames ELSE Requests) :
       /\ input' = [input EXCEPT ![c].rx = Append(@, u)]
       /\ peer' = [peer EXCEPT ![c].left = @ - 1, ![c].asked = @ \/ u = "request"]
  /\ UNCHANGED <<loop, connections, obj, net, running, exception, calls, life>>

\* The peer closes its end, or resets the connection and what it sent is lost.
PeerGone(c) ==
  /\ KernelPoint
  /\ obj[c].fd # NoFd /\ ~peer[c].gone
  /\ peer' = [peer EXCEPT ![c].gone = TRUE]
  /\ \E rx \in {input[c].rx, <<>>} : input' = [input EXCEPT ![c].rx = rx]
  /\ UNCHANGED <<loop, connections, obj, net, running, exception, calls, life>>

-----------------------------------------------------------------------------
(* Waiting and accepting. *)

\* The loop condition fails: stop() was called.
LoopEnds ==
  /\ At("wait") /\ ~running
  /\ loop' = BreakLoop
  /\ UNCHANGED <<connections, obj, input, peer, net, running, exception, calls, life>>

\* Mutant: a timeout of the driver does not look at the stop request.
WaitTimeoutIgnoresStop ==
  /\ At("wait")
  /\ loop' = SweepFrom(1)
  /\ UNCHANGED <<connections, obj, input, peer, net, running, exception, calls, life>>

\* driver->wait() times out; only the sweep runs.
WaitTimeout ==
  /\ At("wait") /\ running
  /\ loop' = SweepFrom(1)
  /\ UNCHANGED <<connections, obj, input, peer, net, running, exception, calls, life>>

WaitListener ==
  /\ At("wait") /\ running
  /\ net.backlog > 0
  /\ loop' = Goto("accept")
  /\ UNCHANGED <<connections, obj, input, peer, net, running, exception, calls, life>>

\* The driver reports a descriptor with input or with room for output.
Ready(c) ==
  \/ "read" \in obj[c].interest /\ (input[c].rx # <<>> \/ peer[c].gone)
  \/ "write" \in obj[c].interest

\* process_connection_fd() finds the connection that has the descriptor.
WaitConnection(c) ==
  /\ At("wait") /\ running
  /\ Ready(c) /\ Contains(connections, c)
  /\ loop' = [pc |-> "visit", from |-> "fd", i |-> 0, cur |-> c, ret |-> "none"]
  /\ UNCHANGED <<connections, obj, input, peer, net, running, exception, calls, life>>

\* driver->wait() fails with anything but EINTR.
WaitFails ==
  /\ At("wait") /\ running
  /\ exception' = TRUE
  /\ loop' = BreakLoop
  /\ UNCHANGED <<connections, obj, input, peer, net, running, calls, life>>

\* Mutant: connections are accepted above the limit.
AcceptNoLimit ==
  /\ At("accept") /\ net.backlog > 0
  /\ LET c == net.accepted + 1
     IN  /\ obj' = [obj EXCEPT ![c] = Opened(FreeFd)]
         /\ connections' = Append(connections, c)
  /\ net' = [net EXCEPT !.backlog = @ - 1, !.accepted = @ + 1]
  /\ UNCHANGED <<loop, input, peer, running, exception, calls, life>>

\* accept_connection() below the limit.
Accept ==
  /\ At("accept") /\ net.backlog > 0
  /\ Len(connections) < MaxConnections
  /\ LET c == net.accepted + 1
     IN  /\ obj' = [obj EXCEPT ![c] = Opened(FreeFd)]
         /\ connections' = Append(connections, c)
  /\ net' = [net EXCEPT !.backlog = @ - 1, !.accepted = @ + 1]
  /\ UNCHANGED <<loop, input, peer, running, exception, calls, life>>

\* accept_connection() at the limit answers 503 and closes the descriptor.
AcceptRefuses ==
  /\ At("accept") /\ net.backlog > 0
  /\ Len(connections) >= MaxConnections
  /\ net' = [net EXCEPT !.backlog = @ - 1]
  /\ UNCHANGED <<loop, connections, obj, input, peer, running, exception, calls, life>>

\* The descriptor cannot be made non-blocking or watched: the server throws.
AcceptThrows ==
  /\ At("accept") /\ net.backlog > 0
  /\ Len(connections) < MaxConnections
  /\ net' = [net EXCEPT !.backlog = @ - 1]
  /\ exception' = TRUE
  /\ loop' = BreakLoop
  /\ UNCHANGED <<connections, obj, input, peer, running, calls, life>>

\* accept() fails (EAGAIN, EMFILE, ...) or the batch limit is reached.
AcceptStops ==
  /\ At("accept")
  /\ loop' = SweepFrom(1)
  /\ UNCHANGED <<connections, obj, input, peer, net, running, exception, calls, life>>

-----------------------------------------------------------------------------
(* A visit: timers, pending writes, then reading. *)

SkipClosed ==
  /\ At("visit") /\ ~obj[Cur].open
  /\ loop' = Visited
  /\ UNCHANGED <<connections, obj, input, peer, net, running, exception, calls, life>>

\* connection_expired(): the handshake timeout or the idle timeout.
Expired ==
  /\ At("visit") /\ obj[Cur].open
  /\ \E k \in Answers :
       obj' = [obj EXCEPT ![Cur] = IF @.upgraded THEN CloseWithCode(@, AnyFrame, k).c
                                   ELSE CloseSocket(@)]
  /\ loop' = Visited
  /\ UNCHANGED <<connections, input, peer, net, running, exception, calls, life>>

\* process_heartbeat(): what it may do, depending on the clock, to o.
Heartbeat(o, k) ==
  LET s == SendFrame(o, AnyFrame, k)
      ping == IF s.ok THEN [s.c EXCEPT !.awaiting_pong = TRUE]
              ELSE CloseWithCode(s.c, AnyFrame, k).c
  IN  IF ~o.upgraded \/ o.close_after_write THEN {o}
      ELSE IF o.awaiting_pong THEN {o, CloseWithCode(o, AnyFrame, k).c}
      ELSE {o, ping}

\* The visit goes on: heartbeat, then flush() if writes are pending.
Serve ==
  /\ At("visit") /\ obj[Cur].open
  /\ \E k \in Answers : \E o \in Heartbeat(obj[Cur], k) :
       /\ obj' = [obj EXCEPT ![Cur] = o]
       /\ loop' = IF o.write_queue # <<>>
                  THEN IF o.open THEN Goto("flush") ELSE Visited
                  ELSE Dispatch(o)
  /\ UNCHANGED <<connections, input, peer, net, running, exception, calls, life>>

\* websocket_connection_flush(), frame by frame; on an error the visit ends.
FlushStep ==
  /\ At("flush") /\ obj[Cur].write_queue # <<>>
  /\ \E k \in Answers :
       LET r == FlushFrame(obj[Cur], k)
       IN  /\ obj' = [obj EXCEPT ![Cur] = r.c]
           /\ loop' = CASE r.st = "next"  -> loop
                        [] r.st = "full"  -> Dispatch(r.c)
                        [] r.st = "error" -> Visited
  /\ UNCHANGED <<connections, input, peer, net, running, exception, calls, life>>

FlushFinish ==
  /\ At("flush") /\ obj[Cur].write_queue = <<>>
  /\ LET o == FlushEnd(obj[Cur])
     IN  obj' = [obj EXCEPT ![Cur] = o] /\ loop' = Dispatch(o)
  /\ UNCHANGED <<connections, input, peer, net, running, exception, calls, life>>

-----------------------------------------------------------------------------
(* The handshake. *)

\* The history of callbacks: connection c sees one that is only right in
\* some states of its life.
Saw(c, before, after) ==
  life' = [life EXCEPT ![c] = IF @ \in before THEN after ELSE "error"]

\* websocket_http_parse_upgrade(): the first unit that is not a piece ends the
\* request, and what follows a request stays for the frames.
ParseUpgrade(buf) ==
  IF \A i \in 1..Len(buf) : buf[i] = "piece" THEN "INCOMPLETE"
  ELSE IF \E i \in 1..Len(buf) : buf[i] = "request" /\ \A j \in 1..(i - 1) : buf[j] = "piece"
       THEN "OK" ELSE "INVALID"

\* recv() in process_handshake(), and the parsing of what has arrived.
HandshakeRecv ==
  /\ At("handshake") /\ input[Cur].rx # <<>>
  /\ \E n \in 1..Len(input[Cur].rx) :
       LET rx == input[Cur].rx
           buf == input[Cur].buf \o SubSeq(rx, 1, n)
       IN  /\ input' = [input EXCEPT ![Cur] = [buf |-> buf, rx |-> SubSeq(rx, n + 1, Len(rx))]]
           /\ \/ /\ ParseUpgrade(buf) = "INCOMPLETE"
                 /\ UNCHANGED <<loop, obj, life>>
              \/ /\ ParseUpgrade(buf) = "INVALID"
                 /\ obj' = [obj EXCEPT ![Cur].open = FALSE]
                 /\ loop' = HandshakeReturns(obj[Cur], buf)
                 /\ UNCHANGED life
              \/ /\ ParseUpgrade(buf) = "OK"
                 /\ IF "handshake" \in Handlers
                    THEN loop' = Goto("onHandshake") /\ Saw(Cur, {"none"}, "handshake")
                    ELSE loop' = Goto("upgrade") /\ UNCHANGED life
                 /\ UNCHANGED obj
  /\ UNCHANGED <<connections, peer, net, running, exception, calls>>

\* recv() finds nothing: the end of the stream, or EAGAIN.
HandshakeIdle ==
  /\ At("handshake") /\ input[Cur].rx = <<>>
  /\ obj' = [obj EXCEPT ![Cur].open = ~peer[Cur].gone]
  /\ loop' = Visited
  /\ UNCHANGED <<connections, input, peer, net, running, exception, calls, life>>

\* on_handshake returns, or throws a HandshakeException: a response is sent
\* and the connection is given up.
OnHandshakeReturns ==
  /\ At("onHandshake")
  /\ \/ loop' = Goto("upgrade") /\ UNCHANGED obj
     \/ /\ obj' = [obj EXCEPT ![Cur].open = FALSE]
        /\ loop' = HandshakeReturns(obj[Cur], input[Cur].buf)
  /\ UNCHANGED <<connections, input, peer, net, running, exception, calls, life>>

\* finish_upgrade() sends 101; if that fails the connection is given up,
\* otherwise on_open is called with close() deferred.
Upgrade ==
  /\ At("upgrade")
  /\ LET buf == input[Cur].buf
         request == CHOOSE i \in 1..Len(buf) : buf[i] = "request"
     IN  \/ /\ obj' = [obj EXCEPT ![Cur].open = FALSE]
            /\ loop' = HandshakeReturns(obj[Cur], buf)
            /\ UNCHANGED <<input, life>>
         \/ /\ input' = [input EXCEPT ![Cur].buf = SubSeq(@, request + 1, Len(@))]
            /\ Saw(Cur, {"none", "handshake"}, "open")
            /\ obj' = [obj EXCEPT ![Cur].upgraded = TRUE,
                                  ![Cur].defer_close = "open" \in Handlers]
            /\ loop' = IF "open" \in Handlers THEN Goto("onOpen")
                       ELSE [loop EXCEPT !.pc = "frames", !.ret = "upgrade"]
  /\ UNCHANGED <<connections, peer, net, running, exception, calls>>

\* on_open returns: a connection that it closed is reported to on_close at
\* once, an open one has its buffered frames processed.
OnOpenReturns ==
  /\ At("onOpen")
  /\ \E close_requested \in BOOLEAN :
       LET o == [obj[Cur] EXCEPT !.defer_close = FALSE, !.open = @ /\ ~close_requested]
           tell == ~o.open /\ ~o.close_notified /\ "close" \in Handlers
       IN  /\ obj' = [obj EXCEPT ![Cur] = [o EXCEPT !.close_notified = @ \/ tell]]
           /\ IF tell
              THEN /\ Saw(Cur, {"open", "closing"}, "closed")
                   /\ loop' = [loop EXCEPT !.pc = "onClose", !.ret = "upgrade"]
              ELSE /\ UNCHANGED life
                   /\ loop' = IF o.open THEN [loop EXCEPT !.pc = "frames", !.ret = "upgrade"]
                              ELSE HandshakeReturns(o, input[Cur].buf)
  /\ UNCHANGED <<connections, input, peer, net, running, exception, calls>>

-----------------------------------------------------------------------------
(* Reading frames. *)

\* recv() in process_frame_reads() appends to the read buffer.
ReadsRecv ==
  /\ At("reads") /\ input[Cur].rx # <<>>
  /\ obj[Cur].open /\ ~obj[Cur].close_after_write
  /\ \E n \in 1..Len(input[Cur].rx) :
       input' = [input EXCEPT ![Cur].buf = @ \o SubSeq(input[Cur].rx, 1, n),
                              ![Cur].rx = SubSeq(@, n + 1, Len(@))]
  /\ loop' = [loop EXCEPT !.pc = "frames", !.ret = "reads"]
  /\ UNCHANGED <<connections, obj, peer, net, running, exception, calls, life>>

\* The end of the stream, EAGAIN (the buffered frames are looked at once
\* more), or a connection that was closed meanwhile.
ReadsEnd ==
  /\ At("reads")
  /\ LET o == obj[Cur]
         reading == o.open /\ ~o.close_after_write
     IN  /\ reading => input[Cur].rx = <<>>
         /\ obj' = [obj EXCEPT ![Cur].open = @ /\ ~(reading /\ peer[Cur].gone)]
         /\ loop' = IF reading /\ ~peer[Cur].gone
                    THEN [loop EXCEPT !.pc = "frames", !.ret = "last"]
                    ELSE Visited
  /\ UNCHANGED <<connections, input, peer, net, running, exception, calls, life>>

\* The loop condition of process_buffered_frames().
MoreFrames ==
  obj[Cur].open /\ ~obj[Cur].close_after_write /\ obj[Cur].upgraded /\ input[Cur].buf # <<>>

FramesDone ==
  /\ At("frames") /\ ~MoreFrames
  /\ loop' = FramesReturn(obj[Cur], input[Cur].buf)
  /\ UNCHANGED <<connections, obj, input, peer, net, running, exception, calls, life>>

\* A frame of kind u is next and leaves the buffer.
TakeFrame(u) ==
  /\ At("frames") /\ MoreFrames
  /\ Head(input[Cur].buf) = u
  /\ input' = [input EXCEPT ![Cur].buf = Tail(@)]

FrameMessage ==
  /\ TakeFrame("message")
  /\ IF "message" \in Handlers
     THEN Saw(Cur, {"open"}, "open") /\ loop' = Goto("onMessage")
     ELSE UNCHANGED <<life, loop>>
  /\ UNCHANGED <<connections, obj, peer, net, running, exception, calls>>

OnMessageReturns ==
  /\ At("onMessage")
  /\ loop' = Goto("frames")
  /\ UNCHANGED <<connections, obj, input, peer, net, running, exception, calls, life>>

\* A ping is answered; when the answer cannot be sent handle_frame() returns
\* false all the way up to runtime_run(), which leaves its loop.
FramePing ==
  /\ TakeFrame("ping")
  /\ \E k \in Answers :
       LET r == SendFrame(obj[Cur], AnyFrame, k)
       IN  /\ obj' = [obj EXCEPT ![Cur] = r.c]
           /\ loop' = IF r.ok THEN loop ELSE BreakLoop
  /\ UNCHANGED <<connections, peer, net, running, exception, calls, life>>

FramePong ==
  /\ TakeFrame("pong")
  /\ obj' = [obj EXCEPT ![Cur].awaiting_pong = FALSE]
  /\ UNCHANGED <<loop, connections, peer, net, running, exception, calls, life>>

\* A close frame is echoed.
FrameClose ==
  /\ TakeFrame("close")
  /\ \E k \in Answers : obj' = [obj EXCEPT ![Cur] = CloseWithCode(@, AnyFrame, k).c]
  /\ UNCHANGED <<loop, connections, peer, net, running, exception, calls, life>>

\* A protocol error, an oversized message or a bad payload: the buffer is left.
FrameMalformed ==
  /\ At("frames") /\ MoreFrames
  /\ Head(input[Cur].buf) = "malformed"
  /\ \E k \in Answers :
       LET o == CloseWithCode(obj[Cur], AnyFrame, k).c
       IN  /\ obj' = [obj EXCEPT ![Cur] = o]
           /\ loop' = FramesReturn(o, input[Cur].buf)
  /\ UNCHANGED <<connections, input, peer, net, running, exception, calls, life>>

-----------------------------------------------------------------------------
(* Removing connections. *)

\* Mutant: on_close is called again for a connection that was reported.
CloseConnectionAtTellsAgain(i, notify, ret) ==
  LET c == connections[i]
      o == [obj[c] EXCEPT !.open = FALSE,
                          !.interest = IF obj[c].fd # NoFd THEN {} ELSE @]
  IN  /\ connections' = RemoveAt(connections, i)
      /\ IF notify /\ o.upgraded /\ "close" \in Handlers
         THEN /\ obj' = [obj EXCEPT ![c] = [o EXCEPT !.close_notified = TRUE]]
              /\ Saw(c, {"open", "closing"}, "closed")
              /\ loop' = [loop EXCEPT !.pc = "onClose", !.cur = c, !.ret = ret]
         ELSE /\ obj' = [obj EXCEPT ![c] = CloseSocket(o)]
              /\ UNCHANGED <<life, loop>>

\* close_connection_at(): out of the array and out of the driver first; then
\* on_close, during which the descriptor is still open; then close_socket().
CloseConnectionAt(i, notify, ret) ==
  LET c == connections[i]
      o == [obj[c] EXCEPT !.open = FALSE,
                          !.interest = IF obj[c].fd # NoFd THEN {} ELSE @]
      tell == notify /\ o.upgraded /\ ~o.close_notified /\ "close" \in Handlers
  IN  /\ connections' = RemoveAt(connections, i)
      /\ IF tell
         THEN /\ obj' = [obj EXCEPT ![c] = [o EXCEPT !.close_notified = TRUE]]
              /\ Saw(c, {"open", "closing"}, "closed")
              /\ loop' = [loop EXCEPT !.pc = "onClose", !.cur = c, !.ret = ret]
         ELSE /\ obj' = [obj EXCEPT ![c] = CloseSocket(o)]
              /\ UNCHANGED <<life, loop>>

\* Mutant: the purge only removes connections whose socket is closed already.
PurgeStepWaitsForSocket ==
  /\ At("purge") /\ loop.i <= Len(connections)
  /\ IF obj[connections[loop.i]].fd # NoFd
     THEN /\ loop' = [loop EXCEPT !.i = @ + 1]
          /\ UNCHANGED <<connections, obj, life>>
     ELSE CloseConnectionAt(loop.i, TRUE, "purge")
  /\ UNCHANGED <<input, peer, net, running, exception, calls>>

\* One turn of purge_closed_connections().
PurgeStep ==
  /\ At("purge") /\ loop.i <= Len(connections)
  /\ IF obj[connections[loop.i]].open
     THEN /\ loop' = [loop EXCEPT !.i = @ + 1]
          /\ UNCHANGED <<connections, obj, life>>
     ELSE CloseConnectionAt(loop.i, TRUE, "purge")
  /\ UNCHANGED <<input, peer, net, running, exception, calls>>

PurgeDone ==
  /\ At("purge") /\ loop.i > Len(connections)
  /\ loop' = [pc |-> "wait", from |-> "fd", i |-> 0, cur |-> NoConn, ret |-> "none"]
  /\ UNCHANGED <<connections, obj, input, peer, net, running, exception, calls, life>>

\* One turn of close_all_connections(), from the last connection on.
CloseAllStep ==
  /\ At("closing") /\ connections # <<>>
  /\ CloseConnectionAt(Len(connections), ~exception, "closing")
  /\ UNCHANGED <<input, peer, net, running, exception, calls>>

\* run() returns.
RunReturns ==
  /\ At("closing") /\ connections = <<>>
  /\ loop' = Goto("off")
  /\ running' = FALSE
  /\ UNCHANGED <<connections, obj, input, peer, net, exception, calls, life>>

\* Mutant: the socket is forgotten after on_close.
OnCloseReturnsKeepsSocket ==
  /\ At("onClose")
  /\ loop' = IF loop.ret = "upgrade" THEN HandshakeReturns(obj[Cur], input[Cur].buf)
             ELSE Goto(loop.ret)
  /\ UNCHANGED <<connections, obj, input, peer, net, running, exception, calls, life>>

\* on_close returns to finish_upgrade(), or to close_connection_at(), which
\* closes the socket.
OnCloseReturns ==
  /\ At("onClose")
  /\ IF loop.ret = "upgrade"
     THEN loop' = HandshakeReturns(obj[Cur], input[Cur].buf) /\ UNCHANGED obj
     ELSE /\ obj' = [obj EXCEPT ![Cur] = CloseSocket(@)]
          /\ loop' = Goto(loop.ret)
  /\ UNCHANGED <<connections, input, peer, net, running, exception, calls, life>>

-----------------------------------------------------------------------------
(* The application, inside a callback. *)

InCallback == loop.pc \in {"onHandshake", "onOpen", "onMessage", "onClose"}

\* The connections the application has been given.
Known == {c \in Ids : life[c] \in {"open", "closing", "closed"}}

CallSend(c) ==
  /\ InCallback /\ calls < MaxCalls /\ c \in Known
  /\ obj[c].open /\ ~obj[c].close_after_write /\ obj[c].upgraded
  /\ \E k \in Answers : obj' = [obj EXCEPT ![c] = SendFrame(@, AnyFrame, k).c]
  /\ calls' = calls + 1
  /\ UNCHANGED <<loop, connections, input, peer, net, running, exception, life>>

CallClose(c) ==
  /\ InCallback /\ calls < MaxCalls /\ c \in Known
  /\ \E k \in Answers : obj' = [obj EXCEPT ![c] = Close(@, AnyFrame, k).c]
  /\ life' = [life EXCEPT ![c] = IF @ = "open" THEN "closing" ELSE @]
  /\ calls' = calls + 1
  /\ UNCHANGED <<loop, connections, input, peer, net, running, exception>>

CallStop ==
  /\ InCallback /\ calls < MaxCalls
  /\ running' = FALSE
  /\ calls' = calls + 1
  /\ UNCHANGED <<loop, connections, obj, input, peer, net, exception, life>>

\* Mutant: close_connection_at() leaves at once when on_close throws.
CallbackThrowsKeepsSocket ==
  /\ InCallback
  /\ exception' = TRUE
  /\ obj' = [obj EXCEPT ![Cur] =
               IF At("onOpen") THEN [@ EXCEPT !.defer_close = FALSE, !.open = FALSE] ELSE @]
  /\ loop' = BreakLoop
  /\ UNCHANGED <<connections, input, peer, net, running, calls, life>>

\* A callback throws.  on_open leaves its connection closed; an on_close called
\* by close_connection_at() still has its socket closed; the loop is left.
CallbackThrows ==
  /\ InCallback
  /\ exception' = TRUE
  /\ obj' = [obj EXCEPT ![Cur] =
               IF At("onOpen") THEN [@ EXCEPT !.defer_close = FALSE, !.open = FALSE]
               ELSE IF At("onClose") /\ loop.ret # "upgrade" THEN CloseSocket(@) ELSE @]
  /\ loop' = BreakLoop
  /\ UNCHANGED <<connections, input, peer, net, running, calls, life>>

-----------------------------------------------------------------------------
\* run() has returned.
Stopped == At("off") /\ UNCHANGED vars

Callback == OnHandshakeReturns \/ OnOpenReturns \/ OnMessageReturns \/ OnCloseReturns

LoopStep ==
  \/ LoopEnds \/ WaitTimeout \/ WaitListener \/ (\E c \in Ids : WaitConnection(c))
  \/ WaitFails \/ Accept \/ AcceptRefuses \/ AcceptThrows \/ AcceptStops
  \/ SkipClosed \/ Expired \/ Serve \/ FlushStep \/ FlushFinish
  \/ HandshakeRecv \/ HandshakeIdle \/ Upgrade
  \/ ReadsRecv \/ ReadsEnd \/ FramesDone
  \/ FrameMessage \/ FramePing \/ FramePong \/ FrameClose \/ FrameMalformed
  \/ PurgeStep \/ PurgeDone \/ CloseAllStep \/ RunReturns

Application ==
  \/ \E c \in Ids : CallSend(c) \/ CallClose(c)
  \/ CallStop \/ CallbackThrows

Peers == Connect \/ (\E c \in Ids : PeerSends(c) \/ PeerGone(c))

Next == (LoopStep \/ Callback \/ Application \/ Peers \/ Stopped) /\ UNCHANGED options

Spec == Init /\ [][Next]_vars
-----------------------------------------------------------------------------
\* Every LoopStep but the errors of the system is bound to happen; callbacks
\* return.  A draining connection is not read, so its idle timer elapses and
\* the visit that finds it elapsed closes it: strong fairness, because other
\* steps lie between two visits.
Fairness ==
  /\ WF_vars((LoopStep \/ Callback) /\ UNCHANGED options)
  /\ \A c \in Ids : SF_vars(Expired /\ Cur = c /\ obj[c].close_after_write /\ UNCHANGED options)

FairSpec == Spec /\ Fairness
-----------------------------------------------------------------------------
ServerConn ==
  [fd : {NoFd} \cup Ids, open : BOOLEAN, upgraded : BOOLEAN, close_notified : BOOLEAN,
   defer_close : BOOLEAN, write_queue : Seq([len : FrameSizes]), write_queue_offset : Nat,
   queued_bytes : 0..MaxQueuedBytes, write_watched : BOOLEAN, close_after_write : BOOLEAN,
   awaiting_pong : BOOLEAN, interest : SUBSET Interests]

LoopType ==
  [pc : {"wait", "accept", "visit", "flush", "handshake", "onHandshake", "upgrade",
         "onOpen", "reads", "frames", "onMessage", "purge", "onClose", "closing", "off"},
   from : {"fd", "sweep"}, i : 0..(TotalConns + 1), cur : Ids \cup {NoConn},
   ret : {"none", "reads", "last", "sweep", "upgrade", "purge", "closing"}]

LifeStates == {"none", "handshake", "open", "closing", "closed", "error"}

\* Types, the limit on connections and the limit on queued bytes.
TypeOK ==
  /\ options \in Options
  /\ loop \in LoopType
  /\ connections \in Seq(Ids) /\ Len(connections) <= MaxConnections
  /\ obj \in [Ids -> ServerConn]
  /\ input \in [Ids -> [buf : Seq(PeerUnits), rx : Seq(PeerUnits)]]
  /\ peer \in [Ids -> [left : 0..MaxInput, asked : BOOLEAN, gone : BOOLEAN]]
  /\ net \in [left : Nat, backlog : Nat, accepted : Nat]
  /\ running \in BOOLEAN /\ exception \in BOOLEAN /\ calls \in 0..MaxCalls
  /\ life \in [Ids -> LifeStates]

\* The application sees each connection in order: on_handshake once, on_open
\* once, on_message only until close() was called or on_close ran, on_close at
\* most once and only after on_open, whichever of the three places reports it.
CallbackOrder == \A c \in Ids : life[c] # "error"

\* A descriptor belongs to one connection; it is held only by connections in
\* the array, or by the one whose on_close runs; a connection outside the array
\* is unknown to the driver.
DescriptorsOwned ==
  \A c \in Ids :
    /\ obj[c].fd # NoFd => /\ \A d \in Ids \ {c} : obj[d].fd # obj[c].fd
                           /\ Contains(connections, c) \/ (At("onClose") /\ Cur = c)
    /\ obj[c].interest # {} => Contains(connections, c) /\ obj[c].fd # NoFd

\* While the handshake and on_open run, the socket they are about to use is
\* not closed under them, whatever the callback does (defer_close).
SocketHeld ==
  loop.pc \in {"handshake", "onHandshake", "upgrade", "onOpen"} => obj[Cur].fd # NoFd

\* When the loop waits, every open connection is watched for reading, and for
\* writing exactly if it has pending writes, also those queued by callbacks of
\* other connections; nothing that could be processed is left in a buffer.
WaitsForEverything ==
  At("wait") =>
    \A c \in Range(connections) : obj[c].open =>
      /\ "read" \in obj[c].interest
      /\ ("write" \in obj[c].interest) <=> (obj[c].write_queue # <<>>)
      /\ obj[c].upgraded /\ ~obj[c].close_after_write => input[c].buf = <<>>

\* When run() has returned no descriptor is left open, and unless an exception
\* ended it every opened connection has been reported to on_close.
CleanExit ==
  At("off") =>
    /\ \A c \in Ids : obj[c].fd = NoFd /\ obj[c].interest = {}
    /\ ~exception /\ "close" \in Handlers => \A c \in Ids : life[c] \notin {"open", "closing"}

\* A connection that is no longer open never opens again and its queue never
\* grows, although the application keeps its object.
ClosedStaysClosed ==
  [][\A c \in Ids : c <= net.accepted /\ ~obj[c].open =>
       ~obj'[c].open /\ Len(obj'[c].write_queue) <= Len(obj[c].write_queue)]_vars

\* stop() ends the server, if callbacks return.
StopStops == ~running ~> At("off")

\* A connection given up, or draining for a peer that may never read, is
\* removed and its socket closed.
ClosedIsRemoved ==
  \A c \in Ids : (c <= net.accepted /\ (~obj[c].open \/ obj[c].close_after_write))
                   ~> (obj[c].fd = NoFd /\ ~Contains(connections, c))

\* The loop is left because stop() was called or an exception is pending.
LoopEndsOnRequest == At("closing") => ~running \/ exception
=============================================================================
