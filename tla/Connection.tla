----------------------------- MODULE Connection -----------------------------
(***************************************************************************)
(* The outgoing half of one WebSocket connection (websocket_connection.c): *)
(* what each C function does to the connection object, as operators on a   *)
(* record.  The modules that own connections (WriteQueue, Server) build    *)
(* their actions from these operators.                                     *)
(*                                                                         *)
(* A frame is a record with a field len, the bytes of the packed frame;    *)
(* its other fields are the business of the module that made it.           *)
(*                                                                         *)
(* What the operating system answers during one C function is a record k:  *)
(*   k.n      how many bytes the socket takes before it stops,             *)
(*   k.errno  what send() answers when it stops: "EAGAIN" or an error,     *)
(*   k.watch  whether driver->watch_write() succeeds.                      *)
(***************************************************************************)
EXTENDS Integers, Sequences

CONSTANTS
  MaxQueuedBytes,   \* intern->max_queued_bytes (option maxQueuedBytes)
  FrameSizes,       \* the lengths of packed frames
  SendErrnos,       \* the errors, other than EAGAIN, that send() may report
  WatchMayFail      \* whether watch_write() may fail

\* ServerOptions rejects a limit below 1, and a packed frame has a header.
\* Under a send() that reports ENOBUFS, which the code reserves for its own
\* queue limit, a partly written frame would be left on an open connection.
ASSUME QueueAssumption ==
  /\ MaxQueuedBytes \in Nat \ {0}
  /\ FrameSizes \subseteq Nat \ {0}
  /\ SendErrnos \cap {"ok", "EAGAIN", "ENOBUFS"} = {}
  /\ WatchMayFail \in BOOLEAN

\* The descriptor of a connection whose socket is closed.
NoFd == -1

\* The descriptors a single connection can have, the interests of the driver.
Interests == {"read", "write"}

\* The answers of the operating system to the writing of a frame of len bytes.
KernelAnswers(len) ==
  [n : 0..len, errno : {"EAGAIN"} \cup SendErrnos, watch : {TRUE, ~WatchMayFail}]

-----------------------------------------------------------------------------
\* websocket_connection_open(), with the watch_read() of the accepting server.
Opened(fd) ==
  [fd |-> fd, open |-> TRUE, upgraded |-> FALSE, close_notified |-> FALSE,
   defer_close |-> FALSE, write_queue |-> <<>>, write_queue_offset |-> 0,
   queued_bytes |-> 0, write_watched |-> FALSE, close_after_write |-> FALSE,
   awaiting_pong |-> FALSE, interest |-> {"read"}]

\* websocket_connection_clear_write_queue().
ClearWriteQueue(c) ==
  [c EXCEPT !.write_queue = <<>>, !.write_queue_offset = 0, !.queued_bytes = 0,
            !.interest = IF c.write_watched /\ c.fd # NoFd THEN @ \ {"write"} ELSE @,
            !.write_watched = FALSE, !.close_after_write = FALSE]

\* websocket_connection_close_socket(): nothing of the connection is left in
\* the driver, and its timers are forgotten.
CloseSocket(c) ==
  ClearWriteQueue([c EXCEPT !.interest = IF c.fd # NoFd THEN {} ELSE @,
                            !.fd = NoFd, !.open = FALSE, !.awaiting_pong = FALSE])

\* websocket_connection_write_some(): how much of the remaining bytes was
\* written, and "ok" (all of it, or the socket is full) or the error.
WriteSome(remaining, k) ==
  IF k.n >= remaining THEN [n |-> remaining, st |-> "ok"]
  ELSE [n |-> k.n, st |-> IF k.errno = "EAGAIN" THEN "ok" ELSE k.errno]

\* Mutant: the queue counts a partly written frame in full.
QueueFrameCountsWhole(c, f, offset, k) ==
  LET q == [c EXCEPT
              !.write_queue = Append(@, f),
              !.write_queue_offset = IF c.write_queue = <<>> THEN offset ELSE @,
              !.queued_bytes = @ + f.len]
  IN  IF f.len > MaxQueuedBytes \/ c.queued_bytes > MaxQueuedBytes - f.len
      THEN [c |-> c, st |-> "ENOBUFS"]
      ELSE IF k.watch \/ c.write_watched
      THEN [c |-> [q EXCEPT !.write_watched = TRUE, !.interest = @ \cup {"write"}],
            st |-> "ok"]
      ELSE [c |-> q, st |-> "EWATCH"]

\* websocket_connection_queue_frame(): when watch_write() fails the frame is
\* in the queue all the same, and the caller is told.
QueueFrame(c, f, offset, k) ==
  LET remaining == f.len - offset
      q == [c EXCEPT
              !.write_queue = Append(@, f),
              !.write_queue_offset = IF c.write_queue = <<>> THEN offset ELSE @,
              !.queued_bytes = @ + remaining]
  IN  IF remaining > MaxQueuedBytes \/ c.queued_bytes > MaxQueuedBytes - remaining
      THEN [c |-> c, st |-> "ENOBUFS"]
      ELSE IF c.write_watched THEN [c |-> q, st |-> "ok"]
      ELSE IF k.watch
           THEN [c |-> [q EXCEPT !.write_watched = TRUE, !.interest = @ \cup {"write"}],
                 st |-> "ok"]
           ELSE [c |-> q, st |-> "EWATCH"]

\* The end of websocket_connection_send_frame(): a failure that is not the
\* queue's own limit gives the connection up.
SendResult(c, st, n) ==
  [c |-> IF st \in {"ok", "ENOBUFS"} THEN c ELSE [c EXCEPT !.open = FALSE],
   ok |-> st = "ok", n |-> n]

\* Mutants: a draining connection still accepts frames; a connection given up
\* still accepts frames until its socket is closed.
CanSendWhileDraining(c) == c.open /\ c.upgraded /\ c.fd # NoFd
CanSendClosed(c) == ~c.close_after_write /\ c.upgraded /\ c.fd # NoFd

\* The conditions under which send_frame() tries to send at all.
CanSend(c) == c.open /\ ~c.close_after_write /\ c.upgraded /\ c.fd # NoFd

\* Mutant: the frame is not compared with the limit before it is written.
SendFrameUnchecked(c, f, k) ==
  LET w == WriteSome(f.len, k)
      q == QueueFrame(c, f, IF c.write_queue = <<>> THEN w.n ELSE 0, k)
  IN  IF ~CanSend(c) THEN [c |-> c, ok |-> FALSE, n |-> 0]
      ELSE IF c.write_queue # <<>> THEN SendResult(q.c, q.st, 0)
      ELSE IF w.st = "ok" /\ w.n < f.len THEN SendResult(q.c, q.st, w.n)
      ELSE SendResult(c, w.st, w.n)

\* websocket_connection_send_frame(): the connection after it, whether it
\* succeeded, and how many bytes of f reached the socket.
SendFrame(c, f, k) ==
  LET w == WriteSome(f.len, k)
      q == QueueFrame(c, f, IF c.write_queue = <<>> THEN w.n ELSE 0, k)
  IN  IF ~CanSend(c) \/ f.len > MaxQueuedBytes
      THEN [c |-> c, ok |-> FALSE, n |-> 0]
      ELSE IF c.write_queue # <<>> THEN SendResult(q.c, q.st, 0)
      ELSE IF w.st = "ok" /\ w.n < f.len THEN SendResult(q.c, q.st, w.n)
      ELSE SendResult(c, w.st, w.n)

\* Mutants: the request is forgotten when writes are pending; the connection
\* waits for writes it does not have.
CloseAfterWriteForgets(c) ==
  IF c.open /\ c.write_queue = <<>> THEN CloseSocket(c) ELSE c
CloseAfterWriteAlwaysWaits(c) ==
  IF c.open THEN [c EXCEPT !.close_after_write = TRUE] ELSE c

\* websocket_connection_close_after_write().
CloseAfterWrite(c) ==
  IF ~c.open THEN c
  ELSE IF c.write_queue = <<>> THEN CloseSocket(c)
  ELSE [c EXCEPT !.close_after_write = TRUE]

\* Mutant: close() does not know that on_open is running.
CloseNotDeferred(c, f, k) ==
  LET s == SendFrame(c, f, k)
  IN  [s EXCEPT !.c = CloseAfterWrite(s.c)]

\* Connection::close(): during on_open it only marks the connection; later
\* the result of sending the close frame is ignored.
Close(c, f, k) ==
  LET s == SendFrame(c, f, k)
  IN  IF c.defer_close THEN [c |-> [c EXCEPT !.open = FALSE], ok |-> FALSE, n |-> 0]
      ELSE [s EXCEPT !.c = CloseAfterWrite(s.c)]

\* Mutant: the socket is left alone when the close frame cannot be sent.
CloseWithCodeLeavesSocket(c, f, k) ==
  LET s == SendFrame(c, f, k)
  IN  [s EXCEPT !.c = IF s.ok THEN CloseAfterWrite(s.c) ELSE s.c]

\* websocket_server_close_with_code(), and the answer of handle_frame() to a
\* close frame: without a close frame in the queue there is nothing to wait for.
CloseWithCode(c, f, k) ==
  LET s == SendFrame(c, f, k)
  IN  [s EXCEPT !.c = IF s.ok THEN CloseAfterWrite(s.c) ELSE CloseSocket(s.c)]

\* Mutants: the whole frame is subtracted after a partial write; a partly
\* written frame leaves the queue.
FlushFrameSubtractsWhole(c, k) ==
  LET f == Head(c.write_queue)
      w == WriteSome(f.len - c.write_queue_offset, k)
  IN  IF w.st # "ok" THEN [c |-> [c EXCEPT !.open = FALSE], st |-> "error", n |-> w.n]
      ELSE IF c.write_queue_offset + w.n < f.len
      THEN [c |-> [c EXCEPT !.queued_bytes = @ - f.len, !.write_queue_offset = @ + w.n],
            st |-> "full", n |-> w.n]
      ELSE [c |-> [c EXCEPT !.queued_bytes = @ - f.len, !.write_queue_offset = 0,
                            !.write_queue = Tail(@)],
            st |-> "next", n |-> w.n]
FlushFramePopsPartial(c, k) ==
  LET f == Head(c.write_queue)
      w == WriteSome(f.len - c.write_queue_offset, k)
  IN  IF w.st # "ok" THEN [c |-> [c EXCEPT !.open = FALSE], st |-> "error", n |-> w.n]
      ELSE [c |-> [c EXCEPT !.queued_bytes = @ - w.n, !.write_queue_offset = 0,
                            !.write_queue = Tail(@)],
            st |-> "next", n |-> w.n]

\* One turn of the loop of websocket_connection_flush() for the first frame
\* of the queue: st is "error", "full" (flush returns) or "next".
FlushFrame(c, k) ==
  LET f == Head(c.write_queue)
      w == WriteSome(f.len - c.write_queue_offset, k)
      left == IF w.n > c.queued_bytes THEN 0 ELSE c.queued_bytes - w.n
  IN  IF w.st # "ok" THEN [c |-> [c EXCEPT !.open = FALSE], st |-> "error", n |-> w.n]
      ELSE IF c.write_queue_offset + w.n < f.len
      THEN [c |-> [c EXCEPT !.queued_bytes = left, !.write_queue_offset = @ + w.n],
            st |-> "full", n |-> w.n]
      ELSE [c |-> [c EXCEPT !.queued_bytes = left, !.write_queue_offset = 0,
                            !.write_queue = Tail(@)],
            st |-> "next", n |-> w.n]

\* Mutant: the driver is not told that there is nothing left to write.
FlushEndKeepsWatching(c) == IF c.close_after_write THEN CloseSocket(c) ELSE c

\* What websocket_connection_flush() does once the queue is empty.
FlushEnd(c) ==
  LET u == [c EXCEPT !.interest = IF c.write_watched THEN @ \ {"write"} ELSE @,
                     !.write_watched = FALSE]
  IN  IF u.close_after_write THEN CloseSocket(u) ELSE u
=============================================================================
