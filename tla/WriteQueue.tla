----------------------------- MODULE WriteQueue -----------------------------
(***************************************************************************)
(* One upgraded connection from the moment its on_open handler runs until  *)
(* its socket is closed: everything that writes to it, queues for it,      *)
(* flushes it or closes it.  The event loop is single threaded, so each C  *)
(* function is one step; flush() is one step per frame.                    *)
(*                                                                         *)
(* The history variables describe the stream the peer sees.  A frame is    *)
(* known by at, the position of its first byte among all accepted bytes;   *)
(* wire counts the bytes that reached the socket; torn records that bytes  *)
(* of a frame were written anywhere but at their position.                 *)
(***************************************************************************)
EXTENDS Connection

CONSTANTS
  StreamBound    \* bound on the bytes accepted in one behaviour

ASSUME StreamBoundAssumption == StreamBound \in Nat

VARIABLES
  conn,       \* the connection object
  pc,         \* "onOpen", "loop", "flush" (inside flush) or "heartbeat" (a ping failed)
  accepted,   \* history: bytes of the frames accepted so far
  wire,       \* history: bytes written to the socket so far
  torn,       \* history: a frame was written out of place
  closing,    \* history: close() or close_with_code() was called
  asked,      \* history: the application called close() while isOpen()
  closeSent   \* history: a close frame was accepted

vars == <<conn, pc, accepted, wire, torn, closing, asked, closeSent>>
history == <<accepted, wire, torn, closing, asked, closeSent>>

Fd == 5

\* The opcodes of the frames a server sends.
Opcodes == {"data", "ping", "pong", "close"}

Frame == [at : Nat, len : FrameSizes, op : Opcodes]

\* The frames that may be sent next.
Frames(op) ==
  {[at |-> accepted, len |-> l, op |-> op] :
     l \in {s \in FrameSizes : accepted + s <= StreamBound \/ ~CanSend(conn)}}

Init ==
  /\ conn = [Opened(Fd) EXCEPT !.upgraded = TRUE, !.defer_close = TRUE]
  /\ pc = "onOpen"
  /\ accepted = 0 /\ wire = 0 /\ torn = FALSE
  /\ closing = FALSE /\ asked = FALSE /\ closeSent = FALSE

-----------------------------------------------------------------------------
\* n bytes of frame f, from its byte o on, reach the socket.
Emit(f, o, n) ==
  /\ wire' = wire + n
  /\ torn' = (torn \/ (n > 0 /\ wire # f.at + o))

\* The history of a call r = [c, ok, n] that tried to send frame f.
Tried(f, r) ==
  /\ accepted' = IF r.ok \/ r.n > 0 THEN accepted + f.len ELSE accepted
  /\ closeSent' = (closeSent \/ (r.ok /\ f.op = "close"))
  /\ Emit(f, 0, r.n)

\* Connection::send(), from any callback.  It throws on a closed connection.
Send ==
  /\ pc \in {"onOpen", "loop"}
  /\ conn.open /\ ~conn.close_after_write /\ conn.upgraded
  /\ \E f \in Frames("data") \cup Frames("close") : \E k \in KernelAnswers(f.len) :
       LET r == SendFrame(conn, f, k)
       IN  conn' = r.c /\ Tried(f, r)
  /\ UNCHANGED <<pc, closing, asked>>

\* Connection::close(), from any callback.
UserClose ==
  /\ pc \in {"onOpen", "loop"}
  /\ \E f \in Frames("close") : \E k \in KernelAnswers(f.len) :
       LET r == Close(conn, f, k)
       IN  conn' = r.c /\ Tried(f, r)
  /\ closing' = TRUE
  /\ asked' = (asked \/ (conn.open /\ ~conn.close_after_write))
  /\ UNCHANGED pc

\* finish_upgrade() after on_open: the handler returns false or not.
OnOpenReturns ==
  /\ pc = "onOpen"
  /\ \E close_requested \in BOOLEAN :
       conn' = [conn EXCEPT !.defer_close = FALSE, !.open = @ /\ ~close_requested]
  /\ pc' = "loop"
  /\ UNCHANGED history

\* on_open throws: the loop ends and every connection is closed.
OnOpenThrows ==
  /\ pc = "onOpen"
  /\ conn' = CloseSocket([conn EXCEPT !.defer_close = FALSE, !.open = FALSE])
  /\ pc' = "loop"
  /\ UNCHANGED history

\* The connection is read from: process_frame_reads() and its callees.
Reading == pc = "loop" /\ conn.open /\ ~conn.close_after_write /\ conn.upgraded

\* A ping is answered.  When the answer fails handle_frame() returns false,
\* the loop is left and runtime_close() closes the socket.
ReceivePing ==
  /\ Reading
  /\ \E f \in Frames("pong") : \E k \in KernelAnswers(f.len) :
       LET r == SendFrame(conn, f, k)
       IN  /\ conn' = IF r.ok THEN r.c ELSE CloseSocket(r.c)
           /\ Tried(f, r)
  /\ UNCHANGED <<pc, closing, asked>>

\* A pong ends the wait of the heartbeat.
ReceivePong ==
  /\ Reading
  /\ conn.awaiting_pong
  /\ conn' = [conn EXCEPT !.awaiting_pong = FALSE]
  /\ UNCHANGED <<pc, history>>

\* close_with_code() with a frame of any size and any answer of the system.
GiveUp ==
  /\ \E f \in Frames("close") : \E k \in KernelAnswers(f.len) :
       LET r == CloseWithCode(conn, f, k)
       IN  conn' = r.c /\ Tried(f, r)
  /\ closing' = TRUE
  /\ pc' = "loop"
  /\ UNCHANGED asked

\* A close frame is echoed; a malformed or oversized frame is answered with
\* a close frame.
ReceiveClose == Reading /\ GiveUp

\* recv() reports the end of the stream or an error.
ReceiveEnd ==
  /\ Reading
  /\ conn' = [conn EXCEPT !.open = FALSE]
  /\ UNCHANGED <<pc, history>>

\* connection_expired(): the idle timer, which also runs while draining.
Expire == pc = "loop" /\ conn.open /\ GiveUp

\* process_heartbeat(): send a ping, or give up when the pong is late.
SendPing ==
  /\ Reading
  /\ ~conn.awaiting_pong
  /\ \E f \in Frames("ping") : \E k \in KernelAnswers(f.len) :
       LET r == SendFrame(conn, f, k)
       IN  /\ conn' = IF r.ok THEN [r.c EXCEPT !.awaiting_pong = TRUE] ELSE r.c
           /\ pc' = IF r.ok THEN "loop" ELSE "heartbeat"
           /\ Tried(f, r)
  /\ UNCHANGED <<closing, asked>>

PongTimeout == Reading /\ conn.awaiting_pong /\ GiveUp

PingFailed == pc = "heartbeat" /\ GiveUp

-----------------------------------------------------------------------------
\* websocket_connection_flush() on a connection with pending writes.
FlushBegin ==
  /\ pc = "loop"
  /\ conn.open /\ conn.fd # NoFd /\ conn.write_queue # <<>>
  /\ pc' = "flush"
  /\ UNCHANGED <<conn, history>>

\* One frame of the loop of flush().
FlushStep ==
  /\ pc = "flush"
  /\ conn.write_queue # <<>>
  /\ \E k \in KernelAnswers(Head(conn.write_queue).len) :
       LET r == FlushFrame(conn, k)
       IN  /\ conn' = r.c
           /\ pc' = IF r.st = "next" THEN "flush" ELSE "loop"
           /\ Emit(Head(conn.write_queue), conn.write_queue_offset, r.n)
  /\ UNCHANGED <<accepted, closing, asked, closeSent>>

FlushFinish ==
  /\ pc = "flush"
  /\ conn.write_queue = <<>>
  /\ conn' = FlushEnd(conn)
  /\ pc' = "loop"
  /\ UNCHANGED history

\* purge_closed_connections() removes a connection that is no longer open.
Purge ==
  /\ pc = "loop"
  /\ ~conn.open /\ conn.fd # NoFd
  /\ conn' = CloseSocket(conn)
  /\ UNCHANGED <<pc, history>>

\* close_all_connections() when the server leaves its loop.
Shutdown ==
  /\ pc = "loop"
  /\ conn.open
  /\ conn' = CloseSocket(conn)
  /\ UNCHANGED <<pc, history>>

Flush == FlushBegin \/ FlushStep \/ FlushFinish

Next ==
  \/ Send \/ UserClose \/ OnOpenReturns \/ OnOpenThrows
  \/ ReceivePing \/ ReceivePong \/ ReceiveClose \/ ReceiveEnd
  \/ Expire \/ SendPing \/ PongTimeout \/ PingFailed
  \/ FlushBegin \/ FlushStep \/ FlushFinish \/ Purge \/ Shutdown

\* The loop visits every connection at least every WEBSOCKET_LOOP_TIMEOUT_USEC:
\* it flushes, it purges, and it asks connection_expired() before it flushes.  A
\* draining connection is not read, so its last activity stays where it is and
\* its idle timer, once elapsed, is seen by the next visit: hence strong
\* fairness, because between two visits the step is disabled by the flush.
Fairness ==
  /\ WF_vars(OnOpenReturns)
  /\ WF_vars(Flush)
  /\ WF_vars(PingFailed)
  /\ WF_vars(Purge)
  /\ SF_vars(conn.close_after_write /\ Expire)

Spec == Init /\ [][Next]_vars
FairSpec == Spec /\ Fairness
-----------------------------------------------------------------------------
ConnType ==
  [fd : {NoFd, Fd}, open : BOOLEAN, upgraded : BOOLEAN, close_notified : BOOLEAN,
   defer_close : BOOLEAN, write_queue : Seq(Frame), write_queue_offset : Nat,
   queued_bytes : Nat, write_watched : BOOLEAN, close_after_write : BOOLEAN,
   awaiting_pong : BOOLEAN, interest : SUBSET Interests]

\* The connection object and the history have the types of their C fields.
TypeOK ==
  /\ conn \in ConnType
  /\ pc \in {"onOpen", "loop", "flush", "heartbeat"}
  /\ accepted \in Nat /\ wire \in Nat
  /\ torn \in BOOLEAN /\ closing \in BOOLEAN /\ asked \in BOOLEAN /\ closeSent \in BOOLEAN

\* The peer can parse the stream: a frame's bytes follow the bytes before them
\* and are never mixed with another frame's, however send() splits the writes
\* and whether they go out directly or through the queue.
WireIntact == ~torn

\* The end of the queue is the end of the accepted stream, and the frames in
\* it are contiguous.
QueueContiguous ==
  LET q == conn.write_queue
  IN  /\ \A i \in 1..Len(q) : i < Len(q) => q[i + 1].at = q[i].at + q[i].len
      /\ q # <<>> => /\ q[Len(q)].at + q[Len(q)].len = accepted
                     /\ q[1].at + conn.write_queue_offset = wire
                     /\ conn.write_queue_offset < q[1].len
      /\ q = <<>> => wire = accepted

\* While the connection is open nothing accepted is missing: what is not on
\* the wire is in the queue, in order, is counted exactly by queued_bytes and
\* stays within max_queued_bytes (a slow peer costs bounded memory).
QueueAccounting ==
  conn.open => /\ QueueContiguous
               /\ wire + conn.queued_bytes = accepted
               /\ conn.queued_bytes <= MaxQueuedBytes

\* Outside flush() an open connection asks the driver for write readiness
\* exactly while it has pending writes, and a closed socket has neither
\* interest nor queue left.  So a draining connection has something to wait for:
\* otherwise no write event would ever come to close it.
WatchFollowsQueue ==
  /\ conn.open /\ pc # "flush" =>
       /\ "read" \in conn.interest
       /\ ("write" \in conn.interest) <=> (conn.write_queue # <<>>)
       /\ conn.close_after_write => conn.write_queue # <<>>
  /\ conn.fd = NoFd => conn.interest = {} /\ conn.write_queue = <<>> /\ ~conn.open

\* After close() or close_with_code() no frame is accepted any more, whatever
\* the callbacks, the heartbeat and the peer do.
NothingAfterClose == [][closing => accepted' = accepted]_vars

\* flush() closes a draining socket only when every accepted byte is on the wire.
DrainsCompletely ==
  [][pc = "flush" /\ conn.fd # NoFd /\ conn'.fd = NoFd => wire' = accepted']_vars

\* A connection that was asked to close gets its socket closed, even when the
\* peer never reads.
ClosingCloses == closing ~> conn.fd = NoFd

\* The status of the byte stream the connection implements.
Status ==
  IF conn.fd = NoFd THEN "closed"
  ELSE IF ~conn.open THEN "failed"
  ELSE IF conn.close_after_write THEN "draining" ELSE "open"

Stream == INSTANCE ByteStream WITH delivered <- wire, status <- Status

\* The write queue implements the byte stream of module ByteStream.
ImplementsByteStream == Stream!BSSpec

\* Connection::close() on a connection that isOpen() sends a close frame.
CloseSendsCloseFrame == asked => closeSent
=============================================================================
