# A TLA+ model of the php-websocket server

The repository is a PHP extension with a WebSocket server: one thread, one event
loop, non-blocking sockets, and application callbacks that may call back into any
connection. This directory holds its specification: TLA+ modules, the TLC
configurations that check them on small instances, and TLAPS proofs.
`PROJECT.json` maps every definition to the source lines it models, and lists the
runs, their mutants, the hazards, the findings and the theorems.

## 1. Inventory

| Part | State | Operations | Made correct by |
| --- | --- | --- | --- |
| Connection write path (`websocket_connection.c`) | `write_queue`, its first offset, `queued_bytes`, `write_watched`, `close_after_write`, `open`, `fd` | `send_frame`, `queue_frame`, `write_some`, `flush`, `close_after_write`, `close_socket`, PHP `send`, `close` | frames never torn or mixed; exact and bounded accounting; write interest exactly while bytes wait; nothing after close; a closing connection closes |
| Event loop and connection table (`websocket_server_runtime.c`) | the array of connections, the driver's interests, `running`, the pending exception | `wait`, accept, visit by descriptor, sweep, purge, shutdown, callbacks | callbacks in order, once each; one owner per descriptor; the loop never waits with work nobody will announce; a clean exit; `stop()` stops |
| Frame parser and reassembly (`websocket_server_runtime.c`) | read buffer, `fragmented`, its opcode and payload | `recv`, `parse_frame`, `handle_frame`, `handle_data_frame`, `append_fragment` | delivered messages are what the frames mean, however they arrive; the right close code; bounded memory |
| Heartbeat and timeouts (`websocket_server_runtime.c`) | `last_activity_usec`, `last_ping_usec`, `awaiting_pong`, the stamp of a pass | option fallbacks, `connection_expired`, `process_heartbeat` | idle and silent peers are closed in time, never early; answering peers are not closed |
| HTTP upgrade (`websocket_http.c`) | the request in the read buffer, the parsed request | `find_header_end`, `parse_upgrade`, `select_subprotocol`, `call_handshake_handler`, `finish_upgrade` | the answer is what the whole request deserves, however it arrives; one answer; bytes behind a request kept |
| I/O drivers (`drivers/`) | the watched descriptors | `watch_read`, `watch_write`, `unwatch_write`, `unwatch`, `wait` | one entry per live socket; what is reported is ready and wanted, and what is never reported is hidden in a known way |
| Server object and module globals (`websocket_server.c`, `websocket.c`) | options, handlers, subprotocols, `running` and `listening` of an object, the global `driver`, `running`, `stopped` | constructor, `listen`, `run`, `stop`, `subprotocols`, `on*`, request start and end | the listener lives as long as its loop; `stop()` ends it, and `run()` is possible again |
| Frame codec (`websocket_protocol.c`) | none | `pack`, `encode`, `unpack`, `decode`, UTF-8 and close-code checks | packing and unpacking are inverse, and what is refused is what nobody checked; no length leads out of the buffer; UTF-8 as in the standard |

The parts meet on the connection object. The loop visits a connection when the
driver reports its descriptor and, after every event, sweeps over all of them;
each visit runs the timers, then the pending writes, then the handshake or the
frames. Callbacks run inside a visit, the purge or the shutdown, and may send on
or close any connection: the state a function read before a callback may be
different after it. Nothing is persistent and there are no threads, so what is
hard is re-entrancy, partial writes and reads, failures in the middle of a
sequence, and events that never come. The list of hazards is in `PROJECT.json`.

## 2. Modules

| Module | Models | Uses |
| --- | --- | --- |
| `Connection` | the C functions of the write path as operators on a connection record | |
| `WriteQueue` | one upgraded connection and everything that writes to it | `Connection`, `ByteStream` |
| `ByteStream` | the abstract promise: an ordered stream that drains, fails or closes | |
| `WriteQueueProofs` | proofs about `WriteQueue`, and that it implements `ByteStream` | `WriteQueue`, TLAPS |
| `Server` | the event loop, several connections, callbacks, peers | `Connection` |
| `FrameReader` | the incoming half of one connection | |
| `Timers` | the clock, the timeouts and the heartbeat of several connections | |
| `Driver` | the abstract promise of `struct websocket_driver` | |
| `Drivers` | the four drivers' tables and `wait()` | |
| `DriverLoop` | the loop over a driver: who is reported, served, accepted | `Drivers`, `Driver` |
| `Utf8` | the validator, and UTF-8 by its definition | |
| `Texts` | texts that grow byte by byte, for the validator alone | `Utf8` |
| `Codec` | `pack`, `encode`, `unpack`, `decode` on bytes, and a reader with a buffer | `Utf8` |
| `HttpUpgrade` | one handshake from the first byte to `on_open` | |
| `Lifecycle` | server objects, the module's globals and `run()` over several requests | |
| `SequenceFacts` | facts about numbers, sequences and recursion that the proofs share | TLAPS |
| `ServerProofs`, `FrameReaderProofs`, `TimersProofs`, `HttpUpgradeProofs`, `DriverLoopProofs` | proofs about the module of that name | the module, `SequenceFacts`, TLAPS |
| `ApiProofs` | proofs about what a script calls: `Lifecycle`, the validator, the codec | `Lifecycle`, `Codec`, `Texts`, `SequenceFacts` |
| `MC*` | constants for TLC | |

Several modules have a variable that does not change (`options`, `setup`, `config`,
`scene`): one run then covers several configurations of the program, and a property
may speak of the one at hand.

**Connection.** A connection is a record with the C field names; `interest` is
what the driver holds for its descriptor. What the operating system answers
during one call is a record `k`: how many bytes the socket takes, what `send()`
says when it stops, whether `watch_write()` succeeds. `SendFrame`, `QueueFrame`,
`FlushFrame`, `Close`, `CloseWithCode` follow the functions branch by branch. A
frame is its length.

**WriteQueue.** One action per operation: `Send`, `UserClose`, `ReceivePing`,
`ReceiveClose`, `Expire`, `SendPing` and so on; `flush()` takes one step per
frame. It starts inside `on_open`, where `close()` is deferred. History variables
count the accepted bytes and the bytes on the wire; every frame remembers its
position in the stream, which is how a torn stream is seen.

**Server.** `loop.pc` is the place in the C code: `wait`, `accept`, `visit`,
`flush`, `handshake`, `upgrade`, `reads`, `frames`, `purge`, `closing`, and the
four callbacks. At a callback the application may call `send()`, `close()` and
`stop()` on whatever it knows, return, or throw. Peers act where the loop enters
the kernel. A peer's input is a sequence of units: a piece of a request, a
request, a bad request, or a frame of some kind. Timers have no clock: every visit
may find its connection expired or due for a ping. `life` is the history of the
callbacks a connection has seen.

**FrameReader.** The peer's frames form a byte stream and the read buffer is the
part between the positions `consumed` and `received`; so a `recv()` may end in the
middle of a header, a mask or a payload, and what has not arrived answers
`EAGAIN`. The chunk of `recv()` (4096) and the longest control payload (125) are
constants, so that short frames bring the read limit into reach. `ends` is history:
the position at which each frame of the stream ends. A payload is a
sequence of UTF-8 classes: a character of one byte, or the two bytes of a longer
one; masking is left out. The reference definitions `Messages` and `Deserved` say
what a sequence of frames means without any state, and the properties compare the
incremental code with them.

**Timers.** The unit of time is the driver's timeout. `loop.now` is the stamp a
pass takes at its start and uses for all its connections; reads stamp the clock
afresh, and callbacks take time between the two. What is read may end the connection
(`Ended`): a callback closes it, a close frame or a bad one arrives, among the frames
that come with a request too; so a drain begins by a timer, by the application or by
the peer. `since` is history: the real time since the last read, ping and start of
draining, against which the stamps are judged. The word size is a constant; the unsigned difference of a clock that went
back wraps in it.

**Driver, Drivers, DriverLoop.** `table` is the array of `poll.c` and `select.c`
in its order, or the kernel's list; epoll sets the mask of a descriptor, the others
add to it; `select` refuses descriptors from `fdSetSize` on. `Reportable` is what
`wait()` may return: any ready descriptor (epoll), the first of the array (poll,
select), an activation not yet reported (kqueue, because of `EV_CLEAR`).
`DriverLoop` puts the server's loop on top: the reported descriptor is served, then the
sweep visits every connection, then the purge. `accept()` takes the lowest free
descriptor; without one it fails before it looks at the backlog (`EMFILE`), it may fail
because a peer has gone (`ECONNABORTED`), and a full batch ends it too. A visit of a
handshake may leave it incomplete, or leave input behind the request; one of an open
connection reads to the end (`OpenLeft`); a draining one is flushed and not read; any
may find its timer run out. The driver is compared with `Driver` by what the server
asked for (`Wanted`), not by what the table holds, so a table that lost or kept an entry
shows in a wrong report. The two liveness properties name what the code does leave
waiting: `InputIsRead` says that input that is never read is `Hidden`, under poll and
select behind an entry that never rests (a peer that sends for ever, or a listener that
waits for a descriptor), under kqueue if it was left behind the request and nothing
arrived since; `ConnectionsAccepted`, that a backlog is left only while descriptors have
run out, or under kqueue by an `accept()` that failed, until another peer connects.

**Utf8, Codec.** Bytes are numbers. `TailOf` is the chain of ranges of the C code,
`WellFormed` is UTF-8 by decoding and encoding again. The boundaries 125 and 65535
and the eight bytes of the long form are constants, so that short frames reach
every form; masking follows the blocks of eight, four and one bytes. `makers` is
history: who made each frame, `pack()`, `encode()`, `CloseFrame` or a foreign peer, and
`Unchecked` says what that maker did not look at. `SizeSum` is the addition of a
`size_t`, and what `unpack()` returns or throws carries `reach`, how far into memory it
has read: behind the buffer there are other bytes (`Memory`). The exclusive or of two
bytes is a constant, `XorByte`, of which only what the code needs is assumed: it gives a
byte, and a key applied twice undoes itself. `MCCodec` gives it the operator of
`Bitwise`, and TLC checks the assumption on all pairs of bytes.

**HttpUpgrade.** The stream is a sequence of units: a line, a CR, an LF, or a byte
of a frame. So `CR LF CR LF` can be cut anywhere, and a line cannot (the parser
does not look into a line before the end of the headers is there). A header has a
name and the comma-separated parts of its value, trimmed. The buffer is parsed
from its start after each `recv()`. The loop visits the connection whenever it likes
(`Visit`); a visit tests the handshake timer before it reads, and the timer is left
open: any visit may find that it has run out (`VisitExpires`). The peer may close, or
reset the connection with bytes still in the socket. `Deserved` and `Agreed` state the
right answer from the whole request.

**Lifecycle.** `phase` says who runs: the script, a callback, a shutdown function
after a fatal error, or a point of `run()`. PHP code may call any method of any
server at any of its points; a fatal error unwinds `run()` without its last lines.
One turn of the loop is one step here; its inside is `Server`.

## 3. Runs

| Run | Question | Bounds |
| --- | --- | --- |
| `write_queue` | Is the stream intact, the accounting exact, the interest right, is it a `ByteStream`, and does a closing connection close? | limit 3, frames of 1, 3, 5 bytes, 9 accepted bytes |
| `close_frame` | Does `close()` send a close frame? **It does not always.** | limit 3 |
| `server_pair` | Callback order, descriptor ownership and complete waiting with several connections | 2 attempts, 2 units of input each (requests, messages, closes), 2 calls; limit 2 with every handler, or limit 1 with `on_open` and `on_close` only |
| `server_one` | Is the socket held, the exit clean; does `stop()` stop, does every closed connection go, does draining end? | 1 connection, 3 units of every kind, 3 calls, queue of 2, `watch_write()` may fail |
| `loop_ends` | Is the loop left only on request? **It is not.** | 1 connection |
| `frame_reader` | Are the delivered messages and the close codes right, memory bounded, and is every frame handled? | 18 frames, sequences of 3, pieces of 3 bytes, the chunk of 8, or all; messages of 3 bytes, control payloads of 13 |
| `timers` | Are quiet peers pinged and closed in time and not early, and answering ones left alone? | timeouts of 1 to 4, 7 units of time; 2 connections with callbacks of no duration (3 units of input each) or of up to 1 (2 units), any unit of which may end its connection; 1 connection and a clock that is set back, with default options or an idle timeout shorter than ping interval and pong timeout together |
| `pong_timeout` | Does a peer that answers in time stay when callbacks are slow? **It may be closed.** | callbacks of up to 2 units |
| `driver_loop` | Is each driver, whatever its table holds, the abstract one; which input is never read and which connections are never accepted? | listener and 2 descriptors, batches and backlog of 2, up to 2 chunks per peer and 3 attempts, or a peer or backlog that never ends; limits of 1, 2, and 3 connections (one above the descriptors there are); select with one descriptor beyond `FD_SETSIZE` |
| `codec` | Are frames packed right, readable, and read back in any pieces; which frames does `unpack()` refuse; does an announced length lead out of the buffer; does the validator accept exactly UTF-8? | 2 frames, lengths around each boundary, 3 sets of flags, 4 opcodes (one invalid) and 4 types, Close payloads with a bad reason, 6 foreign frames with lengths around the largest; all texts of up to 4 of 24 boundary bytes |
| `http_upgrade` | Is the answer right for repeated, bad and missing headers and for any pieces, and is what follows kept? | a valid request and all sequences of up to 2 of 14 further lines, before or after; requests below, at and above the limit, 0, 1 or 3 bytes behind, pieces of 1, 3 or all; a timer that runs out and a peer that closes or resets at any moment |
| `lifecycle` | Do listeners, flags and `stop()` survive every order of calls and failures? | 2 servers, 3 runs, 2 requests, 2 drivers, 2 addresses |

Why the bounds are enough. The write path compares a frame with the limit, with
the rest of the limit and with the bytes the socket took; sizes below, at and
above a limit of 3 reach each outcome with an empty, a partly sent and a full
queue. Two connections are what it takes for a callback to act on another
connection before or behind it in the array; one unit of input makes a request
and the next a frame that came with it, and two calls let a callback queue a frame
and close behind it. Requests in pieces, bad requests, pings, pongs and malformed frames
concern one connection only and are left to the other runs. Three frames begin,
interrupt and end a message; a ping of 13 bytes that arrives in pieces fills the
buffer beyond what a message of 3 bytes allows for, as one of 125 does when
`maxMessageSize` is below 116. A timer needs one connection that is due and one whose callback delays
it; with the horizon at 7 a connection can be accepted, upgraded, pinged, closed
and drained past its idle timeout of 4. Three descriptors are a listener, one that
hides and one that is hidden. The payloads' lengths lie on both sides of each
boundary of the header and of the mask's blocks. The second of two extra headers
is what tells first, last and joined apart. Two servers are what it takes to call
one from the callback of the other, two requests to see what a request leaves
behind. Everywhere else the bounds on the environment (input, calls, accepted
bytes, time) cut behaviours; only `driver_loop` has peers that send for ever.

### Fairness

`FairSpec` of `WriteQueue` and `Server` asks that the loop goes on, that callbacks
return, and strong fairness for the expiry of a draining connection. The
constructor of `ServerOptions` rejects an idle timeout below 1 ms; a draining
connection is not read, so its last activity does not move; and the loop wakes at
least every `WEBSOCKET_LOOP_TIMEOUT_USEC` and asks `connection_expired()` before it
flushes. The step is not enabled during other visits, hence strong fairness.
`FrameReader` asks that a descriptor which stays ready is reported in the end
(true of epoll; `driver_loop` shows when it is true of the others) and that
what the peer sent arrives in the end. `DriverLoop` asks that the loop goes on, that
the idle timer of a draining connection fires, and strong fairness for the report
of each descriptor that `wait()` may report again and again: epoll and kqueue keep their
ready descriptors in a queue and put what they reported at its end; for poll and select
the report is determined by the table, and the assumption only says that no peer in
front gets in just before every call. A descriptor behind one that is always ready is
never one that `wait()` may report, so it is not helped. `HttpUpgrade` asks that the
loop goes on, every pass of which visits every connection in its handshake, and that
callbacks return; `Lifecycle` that `run()` and its callbacks go
on.

### Findings

1. `loop_ends`: a pong that cannot be sent makes `handle_frame()` return false; the
   value climbs to `runtime_run()`, which leaves its loop. One slow or vanished
   client that pings ends the server, with no exception.
2. `close_frame`: inside `on_open`, or with a full queue, `close()` ends the
   connection without a close frame.
3. `pong_timeout`: the pong timeout is tested before the socket is read; while a
   callback of another connection is slow, a pong that arrived in time does not
   count and the peer is closed.

### Observations

What the code does that its documentation does not lead one to expect, as the models
have it. The properties state what holds all the same, with the exception named.

- The read limit is `maxMessageSize + 4096 + 14`; with `maxMessageSize` below 116 an
  incomplete control frame followed by a full chunk exceeds it and the peer is
  closed with 1009 (`LongControl` in `CloseCodeDeserved`).
- Milliseconds times 1000 wraps in 64 bits: a huge timeout becomes a short one
  (`Timeout`; with `WordSize` below the product `NotClosedEarly` fails).
- The handshake timer is tested before the socket is read (`runtime.c:1384`, `1423`), in
  the order that makes the pong timeout a finding: a request that waits in the socket,
  whole, while callbacks of other connections keep the loop is closed without an answer
  (`VisitExpires`; `RequestIsAnswered` has it as an exception, and only as long as a part
  of the request is unread).
- kqueue is edge-triggered and the handshake stops reading once the request is
  complete: what waits in the socket behind it is read when more arrives
  (`LeftBehind` in `InputIsRead`).
- Under kqueue a batch of `accept()` that ends with an error forgets the backlog until
  another peer connects: `EMFILE`, also after a descriptor is free again, or
  `ECONNABORTED` (`Forgotten` in `ConnectionsAccepted`). A full batch does not, because
  `WEBSOCKET_ACCEPT_BATCH_LIMIT` is no less than `WEBSOCKET_LISTEN_BACKLOG` (both 1024);
  a system that queues more than it was asked for would need a larger batch.
- Under poll and select a connection is not read while an entry in front of it is always
  ready: a peer that sends for ever, or a listener whose backlog finds no descriptor
  (`HiddenBehind` in `InputIsRead`).
- A descriptor from `FD_SETSIZE` on makes `accept_connection()` throw and ends the
  server, below `maxConnections` (`AcceptThrows` of `DriverLoop`).
- `encode()` checks only texts: it makes control frames above 125 bytes; and `encode()`
  and `pack()` take any string as the payload of a Close frame, one byte or a reason that
  is not UTF-8 included. `unpack()` refuses these frames and no others (`Unchecked` in
  `RoundTrip`).
- Bytes behind a request count towards its limit: a valid request gets 400 when too
  many frames come with it (`Fits` in `AnswerFitsRequest`).
- `stop()` clears the flag that `subprotocols()` asks for while `run()` is still on
  the stack (`Stop`, `Subprotocols` of `Lifecycle`).
- The handler given to `onError()` is stored and never called.

## 4. Proofs

The theorems hold for every value of the constants that satisfies the assumptions
named in the modules. Each component has one inductive invariant; a lemma per action
shows that the action keeps it, a theorem `...Invariance` is the induction, and the
properties the runs check follow from it. Facts about operators (what `SendFrame`,
`TimersOf`, `FindHeaderEnd` return) are lemmas of their own, and the actions cite them.

| Theorem | Property |
| --- | --- |
| `WriteQueueProofs`: `TypeCorrect`, `StreamIntact`, `QueueIsExact`, `WatchIsExact`, `SilentAfterClose`, `DrainedOnClose`, `StreamRefinement` | `TypeOK`, `WireIntact`, `QueueAccounting`, `WatchFollowsQueue`, `NothingAfterClose`, `DrainsCompletely`, `ImplementsByteStream` |
| `ServerProofs`: `TypesHold`, `CallbacksInOrder`, `DescriptorOwnership`, `SocketIsHeld`, `WaitForgetsNothing`, `ExitIsClean`, `ClosedForGood` | `TypeOK`, `CallbackOrder`, `DescriptorsOwned`, `SocketHeld`, `WaitsForEverything`, `CleanExit`, `ClosedStaysClosed` |
| `FrameReaderProofs`: `MemoryIsBounded`, `MessagesAreDelivered`, `CodesAreDeserved` | `BoundedMemory`, `DeliversMessages`, `CloseCodeDeserved` |
| `HttpUpgradeProofs`: `NothingIsLost`, `OneAnswer`, `AnswersFit`, `HandlersSeeRequests` | `StreamIsKept`, `AnsweredOnce`, `AnswerFitsRequest`, `HandlerSeesRequest` |
| `TimersProofs`: `NobodyIsClosedEarly`, `NobodyOverstays`, `DrainsEnd`, `AnswersCount` | `NotClosedEarly`, `SilentPeersGo`, `DrainingIsBounded`, `AnsweringPeersStay` |
| `DriverLoopProofs`: `WatchedAsAsked`, `DriversImplement` | the invariant itself, `ImplementsDriver` |
| `ApiProofs`, server objects: `ListenerLifetime`, `RunStaysPossible` | `ListenerFollowsLoop`, `RunIsPossible` |
| `ApiProofs`, validator: `ValidatorExact`, `TextsExact` | (for every sequence of bytes), `ValidatorIsExact` |
| `ApiProofs`, codec: `WireIsRfc`, `StaysInBuffer`, `RoundTrips` | `WireFormat`, `UnpackStaysInBuffer`, `RoundTrip` |

The library's induction theorems take an operator as a parameter, which the provers
cannot instantiate. Where a proof has to follow a fold or a recursive function, it
takes the least counterexample instead (`LeastNat`, `InductionUpTo` of
`SequenceFacts`) and refutes it with the equation the function satisfies
(`Recursion`). So the models write recursion as recursive functions.

**The write path.** None of the invariants is inductive alone. That no frame is torn
depends on the queue being contiguous and ending where the accepted stream ends; that
`queued_bytes` is exact needs the sum over the queue, which is expressed by
positions (first byte not yet written, last byte accepted) instead of a sum, so no
induction over sequences is needed; that a draining connection has work depends on
the write interest; and after `close()` the argument needs that `closing` leaves
the connection either draining or not open. The invariant
`IInv` joins these facts. It is stated on the record (`ConnInv`, `Settled`), so each
operator of `Connection` gets one lemma about what it preserves. Assumptions:
`QueueAssumption` (the limit is at least 1, frames are not empty, `send()` does not
report `ENOBUFS`, the code's own signal for a full queue). On systems where `send()`
does report it, a partly written frame would stay on an open connection
(`websocket_connection.c:356`).

**Its refinement.** The stream's status is a function of the connection
(`StatusOf`). Most operations are `send_frame()` followed by what the caller does
with a failure or a close: `SendFrameStatus` says what the call does to the status,
`Continues` what a caller may do after it, and `CallIsStep` that the two together are
one step of `ByteStream`. `QueueTellsRest` links an empty queue to a stream that has
delivered everything, which is when a draining stream may close.

**The loop.** `ServerInv` has a part about the data (the array has no duplicates and
nothing that was not accepted; each object's interest, queue and flags fit together;
one owner per descriptor; an opened connection leaves the array only reported) and a
part about the control: what holds at each `loop.pc` of the connection being served.
The second is where re-entrancy is settled. A callback may close any connection, so
`SocketHeld` needs that `defer_close` is set while `on_open` runs, and that before it
the connection is open and unknown to the application (`ServedInv`); a second
`on_handshake` is excluded because a connection that has seen one is in the middle of it
or given up (`HandshakeInv`); the sweep's index must still name its connection after a
callback (`PlaceInv`); `CallbackOrder` needs that the history of callbacks agrees
with `upgraded`, `close_notified` and `open` of the object (`LifeFits`); and
`WaitsForEverything` needs that nothing is left in the buffer of a connection the
sweep has passed, while others are still being served (`QuietInv`). Every action
lemma shows `StepOK`, the invariant and at once that no closed connection came back,
so the action property needs no second pass.

**The reader.** The memory: the buffer is bounded because it begins where a frame begins and a
`recv()` is only made when what is there and a full chunk fit in the read limit. That
`consumed` is a frame boundary is said with `ends`, the bookkeeping of where each
frame ends, in place of a sum over the frames. The meaning: `MeaningInv` adds that the
fragment in memory is the part of the unfinished message in the frames handled so far
(`Unfinished`, `Payload`: definitions on the sequence of frames, without any state),
and that what was delivered are the messages that end among them. A handled frame
either extends the unfinished message, ends one, or is no data; each case is one
lemma about the definitions and one about the code. A code that is sent is compared
with what the frame at `handled + 1` deserves after the ones before it.

**The handshake.** The parser searches `CR LF CR LF` in whatever has arrived.
`HeaderEnd` shows that it finds the end of the request and nothing before it: with a
unit per line, CR and LF, the CRs and LFs that end the lines are at the positions 2 and
0 modulo 3, and any four consecutive units before the empty line have one of them in
the wrong place, whatever the lines hold; and the buffer is, at every moment, the
beginning of the stream. `StreamIsKept` then follows by moving pieces
between socket, buffer and what is unsent (`MoveOver`, `DropHead`). For the answer,
`ReadHeaders` is followed line by line: an invariant of the headers read so far says
that each name has the values of its lines, joined in their order, whence the parsed
request is a function of the whole request and not of its pieces. `GrantedInv` carries
that over `on_handshake`: what waits to be accepted was granted by the whole request.
The server's own 400 is told from a rejection with status 400 by the handler, which
may reject any request.

**The timers.** `ClockInv` holds for any clock: the clock shows no more time since
the last read than has really passed (`NotAhead`), hence nobody is closed early even
when `gettimeofday()` is set back. `SweepInv` is about a monotonic clock: it shows no
less either (`NotBehind`), and at the stamp of the pass no timer of a connection that
the sweep has visited was due (`Served`). At the end of the sweep that is everyone.
The theorems have the hypothesis `NoWrap`, that no option overflows 64 bits when it
is converted to microseconds; without it they are false, and the code does not check
it (`websocket_server_runtime.c:681`).

`AnsweringPeersStay` is about the order of the heartbeat and the reads of a pass, and
has its own invariant: while callbacks take no time, an answered ping has its pong in
the socket, it came in time, and the ping was sent when it was due (`PromptInv`). The
peer can then lose against the pong timeout for no options, and against the idle
timeout only if that is shorter than the ping interval and the pong timeout together
(`Patient`): with such options the code closes a peer that answers as asked.

**The drivers.** The table of a driver has one entry per descriptor, and it agrees with
what the server asked for, except that a closed connection may stay in it until the
purge at the end of the turn (`Agreed`); a pending activation of kqueue belongs to a
filter that is installed (`ActiveWatched`). The lemmas about `watch_read`,
`watch_write`, `unwatch_write` and `unwatch` say what each does to the entries of its
own descriptor and of the others, for adding and for replacing masks. With the
invariant each change of the table is the abstract driver's change, what `Reportable`
allows is wanted and ready, and `wait()` returns with nothing only when nothing is
ready, except for the edges of kqueue. Who is reported in the end is a question of
fairness, and stays with TLC.

**The validator.** An encoding is a sequence of one to four bytes, and each of them is
recognised by its ranges (`TailOf`) exactly when decoding and encoding give it back:
shown by arithmetic for each length. The validator's acceptance and the definition of a
well-formed text are then both "the end is reached from the start by encodings", and a
text on which they differ has a first position where they do.

**The codec.** A packed frame has a layout: two bytes, the length form, the key, the
payload. `UnpackPacked` says what `unpack()` makes of any buffer that agrees with a
packed frame as far as it goes: null while the frame is incomplete, otherwise that frame
and the rest. `Carries` says that buffer and wire together are the frames still to be
returned, one after the other; reading a piece and returning a frame keep it.
What `unpack()` does with a whole frame, return it or throw, is decided by the
frame alone (`InterpretPacked`), and for each maker the checks that were made before
packing leave open exactly what `Unchecked` names (`PackTold`, `CloseTold`,
`EncodeTold`): hence a refusal is always of an unchecked frame, and a returned frame was
never unchecked. `StaysInBuffer` is for foreign bytes: no announced length, with its sum
computed in the width of `size_t`, passes the checks and reaches beyond the buffer,
because the first check keeps the sum from wrapping (`SizeSumIs`). `WireIsRfc` takes the
first two bytes apart (`RightBits`) and follows the layout for the rest. Assumptions:
`XorAssumption` and `CodecAssumption` (strings fit in memory together with a header, keys
are four bytes).

**The life of a server.** While `run()` is on the stack its server exists and is the
only one marked as running (`StackInv`); at each point of `run()` the listener and
the driver's table are known (`ListenerInv`). A fatal error leaves the flag set until
the request ends, so that a shutdown function cannot start a second loop.

Some definitions have the form the provers need. Stream and its search are functions
of positions, not recursive; chains of conditions whose guards overlap are `IF`s,
because TLA+ leaves the choice of a `CASE` open; and `Server` asks for a frame of some
size (`FrameSizes # {}`), since a ping or a close always has one.

Only model-checked: liveness, since fairness and ENABLED are out of the prover's
reach. These are `ClosingCloses`, `StopStops`, `ClosedIsRemoved`,
`FramesAreHandled`, `InputIsRead`, `ConnectionsAccepted`, `RequestIsAnswered` and
`StopEndsRun`. That the loop does *not* keep the three promises under Findings is shown
by counterexamples.

## 5. Not modelled

- Argument checks of constructors and setters (they are assumptions on the
  constants), remote addresses, reason phrases, `phpinfo`, class registration,
  generated code: no state the properties depend on. `reusable_connection` is never
  set by the code.
- The source of random masks and SHA-1: a mask is any key of a set, an accept key is
  paired with its key.
- A clock that fails: `now_usec()` returns 0 when both clocks fail and the timers
  then do nothing.
- Header values with NUL bytes, which the joining of repeated headers cuts
  (`websocket_http.c:289`): the units of `HttpUpgrade` have no bytes inside.
- `DriverLoop` reads all that is there in one step. A peer that sends faster than
  its frames are handled would keep `process_frame_reads()` from coming to its end;
  that depends on speeds the models do not have. For the same reason nothing says how
  long an entry of poll or select may hide those behind it.

## 6. What could follow

Every safety property and refinement that a run checks is now a theorem. What is left
is in the list of hazards without a property: speeds of peers
(`process_frame_reads()` that never comes to an end) and `ENOBUFS` from `send()` itself.
They need a model of rates or of another operating system.
