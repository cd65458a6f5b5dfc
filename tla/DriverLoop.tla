----------------------------- MODULE DriverLoop -----------------------------
(***************************************************************************)
(* The event loop over each of the drivers: who is reported, and who is    *)
(* kept waiting.  The loop of module Server is reduced to what it asks of  *)
(* the driver: one reported descriptor is served per turn, then the sweep  *)
(* reads handshakes, flushes and expires, and the purge closes.            *)
(*                                                                         *)
(* Input is counted in chunks of recv().  The sockets' conditions are      *)
(* those of module Drivers: there is input, there is room for output.      *)
(* Output of an open connection that waits in its queue is left out: the   *)
(* sweep flushes it at every turn, whatever is reported.                   *)
(***************************************************************************)
EXTENDS Drivers, FiniteSets, FiniteSetsExt

CONSTANTS
  Configs,         \* the configurations, one of which the server runs with:
                   \*   kind, fdSetSize, maxConnections (the option),
                   \*   chatty (descriptors whose peers send for ever),
                   \*   supply (bound: chunks that the others send, per descriptor;
                   \*   for the listener, attempts to connect)
  BatchLimit,      \* WEBSOCKET_ACCEPT_BATCH_LIMIT
  ListenBacklog,   \* WEBSOCKET_LISTEN_BACKLOG
  MaxChunks        \* bound: chunks in a socket

ASSUME DriverLoopAssumption ==
  /\ \A c \in Configs :
       /\ c.kind \in Kinds /\ c.fdSetSize \in Nat
       /\ c.maxConnections \in Nat \ {0} /\ c.chatty \subseteq Fds
       /\ c.supply \in [Fds -> Nat]
  /\ BatchLimit \in Nat \ {0} /\ ListenBacklog \in 1..BatchLimit
  /\ MaxChunks \in Nat

VARIABLES
  loop,  \* control: pc, cur (the reported descriptor), n (taken off the backlog in
         \* this batch), missed (the last batch ended by an error of accept() and
         \* left some), due (the connections the sweep has still to visit)
  st,    \* per descriptor: free, handshake, upgraded (open, and not read since the
         \* handshake), open, draining, closed
  rx,    \* per descriptor: chunks of input; connections in the listener's backlog
  room,  \* per descriptor: send() takes bytes
  left   \* per descriptor: what peers may still send

vars == <<driverVars, loop, st, rx, room, left>>

Listener == 1
ConnFds == Fds \ {Listener}
Open(fd) == st[fd] \in {"upgraded", "open"}
Live(fd) == Open(fd) \/ st[fd] \in {"handshake", "draining"}

At(pc) == loop.pc = pc
Goto(pc) == loop' = [loop EXCEPT !.pc = pc]

\* The sweep is to visit the connections there are after this step.
Due == {fd \in ConnFds : Live(fd)}
BeginSweep == loop' = [loop EXCEPT !.pc = "sweep", !.due = Due']

\* The conditions of the sockets, and the driver's view of them.
Kernel(t, arrived) ==
  /\ table' = t
  /\ cond' = [fd \in Fds |-> (IF rx'[fd] > 0 THEN {"read"} ELSE {})
                               \cup (IF room'[fd] THEN {"write"} ELSE {})]
  /\ active' = Activated(t, cond', arrived)
  /\ UNCHANGED config

Init ==
  /\ config \in Configs
  /\ table = <<[fd |-> Listener, events |-> {"read"}]>>
  /\ cond = [fd \in Fds |-> {"write"}]
  /\ active = {} /\ report = 0
  /\ loop = [pc |-> "wait", cur |-> 0, n |-> 0, missed |-> FALSE,
             due |-> {}]
  /\ st = [fd \in Fds |-> IF fd = Listener THEN "listening" ELSE "free"]
  /\ rx = [fd \in Fds |-> 0]
  /\ room = [fd \in Fds |-> TRUE]
  /\ left = config.supply

-----------------------------------------------------------------------------
(* Peers. *)

PeerSends(fd) ==
  /\ Live(fd) \/ fd = Listener
  /\ rx[fd] < IF fd = Listener THEN ListenBacklog ELSE MaxChunks
  /\ left[fd] > 0 \/ fd \in config.chatty
  /\ rx' = [rx EXCEPT ![fd] = @ + 1]
  /\ left' = [left EXCEPT ![fd] = IF fd \in config.chatty THEN @ ELSE @ - 1]
  /\ UNCHANGED <<loop, st, room, report>>
  /\ Kernel(table, {<<fd, "read">>})

PeerReads(fd) ==
  /\ ~room[fd]
  /\ room' = [room EXCEPT ![fd] = TRUE]
  /\ UNCHANGED <<loop, st, rx, left, report>>
  /\ Kernel(table, {<<fd, "write">>})

-----------------------------------------------------------------------------
(* One turn of runtime_run(). *)

Reports(fd) ==
  /\ At("wait")
  /\ WaitReports(fd)
  /\ loop' = [loop EXCEPT !.pc = "serve", !.cur = fd, !.n = 0,
                          !.missed = @ /\ fd # Listener]
  /\ UNCHANGED <<st, rx, room, left>>

TimesOut ==
  /\ At("wait")
  /\ WaitTimesOut
  /\ UNCHANGED <<st, rx, room, left>>
  /\ loop' = [loop EXCEPT !.pc = "sweep", !.cur = 0, !.n = 0, !.due = Due]

Serving(fd) == At("serve") /\ loop.cur = fd
Free == {fd \in ConnFds : st[fd] = "free"}
CountOk == Cardinality(ConnFds \ Free) < config.maxConnections

\* accept_pending() calls accept(), which takes the lowest free descriptor.
Accepting == Serving(Listener) /\ rx[Listener] > 0 /\ loop.n < BatchLimit /\ Free # {}
Taken == rx' = [rx EXCEPT ![Listener] = @ - 1]

\* Mutant: one connection is accepted per report, however many are waiting.
AcceptOnce ==
  /\ Accepting /\ CountOk /\ CanWatch(Min(Free))
  /\ Taken
  /\ st' = [st EXCEPT ![Min(Free)] = "handshake"]
  /\ loop' = [loop EXCEPT !.n = BatchLimit]
  /\ UNCHANGED <<room, left, report>>
  /\ Kernel(WatchRead(table, Min(Free)), {})

\* accept_connection() watches the input of the new connection.
Accept ==
  /\ Accepting /\ CountOk /\ CanWatch(Min(Free))
  /\ Taken
  /\ st' = [st EXCEPT ![Min(Free)] = "handshake"]
  /\ loop' = [loop EXCEPT !.n = @ + 1]
  /\ UNCHANGED <<room, left, report>>
  /\ Kernel(WatchRead(table, Min(Free)), {})

\* Above the limit the socket is answered and closed.
AcceptRejects ==
  /\ Accepting /\ ~CountOk
  /\ Taken
  /\ loop' = [loop EXCEPT !.n = @ + 1]
  /\ UNCHANGED <<st, room, left, report>>
  /\ Kernel(table, {})

\* watch_read() fails: accept_connection() throws and the loop is left.
AcceptThrows ==
  /\ Accepting /\ CountOk /\ ~CanWatch(Min(Free))
  /\ Taken
  /\ Goto("failed")
  /\ UNCHANGED <<st, room, left, report>>
  /\ Kernel(table, {})

\* ECONNABORTED and its like: the connection is gone, and with it the batch.
AcceptFails ==
  /\ Accepting
  /\ Taken
  /\ loop' = [loop EXCEPT !.pc = "sweep", !.due = Due, !.n = @ + 1,
                          !.missed = rx[Listener] > 1]
  /\ UNCHANGED <<st, room, left, report>>
  /\ Kernel(table, {})

\* The batch is full, or accept() says EAGAIN or, before it looks, EMFILE.
AcceptEnds ==
  /\ Serving(Listener)
  /\ ~Accepting
  /\ loop' = [loop EXCEPT !.pc = "sweep", !.due = Due,
                          !.missed = rx[Listener] > 0 /\ loop.n < BatchLimit]
  /\ UNCHANGED <<driverVars, st, rx, room, left>>

-----------------------------------------------------------------------------
(* Where a visit leaves a connection: its state and its unread chunks.  A  *)
(* connection that drains could not send all of its close frame.           *)

Left(states, chunks) == [st : states, rx : chunks]

\* process_handshake() reads until the request is complete and leaves what comes
\* behind it; frames in the request's last chunk are handled at once.  A timer
\* that has run out closes the connection unread.
HandshakeLeft(fd) ==
  Left({"handshake"}, {0}) \cup Left({"upgraded", "draining", "closed"}, 0..(rx[fd] - 1))
    \cup Left({"closed"}, {rx[fd]})

\* Mutant: process_frame_reads() calls recv() once.
OpenLeftOnce(fd) ==
  Left({"open"}, {IF rx[fd] = 0 THEN 0 ELSE rx[fd] - 1}) \cup Left({"draining", "closed"}, 0..rx[fd])

\* process_frame_reads() reads until EAGAIN, or until a frame, the timer or a
\* failure closes the connection.
OpenLeft(fd) == Left({"open"}, {0}) \cup Left({"draining", "closed"}, 0..rx[fd])

\* A draining connection is flushed and not read, and closed when its timer has
\* run out.
DrainingLeft(fd) == Left({IF room[fd] THEN "closed" ELSE "draining", "closed"}, {rx[fd]})

\* What is watched follows the state: a closed socket is unwatched at once or
\* left to the purge.
Rewatched(fd, state) ==
  CASE state = "draining" -> {WatchWrite(table, fd)}
    [] state = "closed" -> {table, Unwatch(UnwatchWrite(table, fd), fd)}
    [] OTHER -> {table}

Leaves(fd, ends) ==
  /\ \E to \in ends :
       /\ st' = [st EXCEPT ![fd] = to.st]
       /\ rx' = [rx EXCEPT ![fd] = to.rx]
       /\ room' = [room EXCEPT ![fd] = @ /\ to.st # "draining"]
       /\ \E t \in Rewatched(fd, to.st) : Kernel(t, {})
  /\ UNCHANGED <<left, report>>

\* process_connection_fd() for the reported descriptor.
ServeHandshake(fd) ==
  Serving(fd) /\ st[fd] = "handshake" /\ Leaves(fd, HandshakeLeft(fd)) /\ BeginSweep

ServeOpen(fd) ==
  Serving(fd) /\ Open(fd) /\ Leaves(fd, OpenLeft(fd)) /\ BeginSweep

ServeDraining(fd) ==
  Serving(fd) /\ st[fd] = "draining" /\ Leaves(fd, DrainingLeft(fd)) /\ BeginSweep

\* process_connections(), one visit: a handshake is read, a draining connection
\* flushed, an open one is only closed, by its timer or a failing write.
SweepVisits(fd, ends) ==
  /\ At("sweep") /\ loop.due # {} /\ fd = Min(loop.due)
  /\ Leaves(fd, ends)
  /\ loop' = [loop EXCEPT !.due = @ \ {fd}]

SweepHandshake(fd) == st[fd] = "handshake" /\ SweepVisits(fd, HandshakeLeft(fd))
SweepOpen(fd) ==
  Open(fd) /\ SweepVisits(fd, Left({st[fd], "draining", "closed"}, {rx[fd]}))
SweepDraining(fd) == st[fd] = "draining" /\ SweepVisits(fd, DrainingLeft(fd))

\* unwatch() for one descriptor after the other.
Purged(t, gone) ==
  LET after[n \in 0..NumFds] ==
        IF n = 0 THEN t
        ELSE IF n \in gone THEN Unwatch(after[n - 1], n) ELSE after[n - 1]
  IN  after[NumFds]

\* purge_closed_connections() ends the turn.
Purge ==
  /\ At("sweep") /\ loop.due = {}
  /\ LET gone == {fd \in ConnFds : st[fd] = "closed"}
     IN  /\ st' = [fd \in Fds |-> IF fd \in gone THEN "free" ELSE st[fd]]
         /\ rx' = [fd \in Fds |-> IF fd \in gone THEN 0 ELSE rx[fd]]
         /\ room' = [fd \in Fds |-> room[fd] \/ fd \in gone]
         /\ UNCHANGED <<left, report>>
         /\ Kernel(Purged(table, gone), {})
  /\ Goto("wait")

-----------------------------------------------------------------------------

Turn ==
  \/ \E fd \in Fds : \/ Reports(fd) \/ ServeHandshake(fd) \/ ServeOpen(fd)
                     \/ ServeDraining(fd) \/ SweepHandshake(fd) \/ SweepOpen(fd)
                     \/ SweepDraining(fd)
  \/ TimesOut \/ Purge
  \/ Accept \/ AcceptRejects \/ AcceptThrows \/ AcceptFails \/ AcceptEnds

Next ==
  \/ \E fd \in Fds : PeerSends(fd) \/ PeerReads(fd)
  \/ Turn

\* The idle timer of a connection that is no longer read.
ExpireDraining(fd) ==
  st[fd] = "draining" /\ SweepVisits(fd, Left({"closed"}, {rx[fd]}))

\* The loop goes on; a descriptor that wait() may report again and again is
\* reported (epoll and kqueue keep a queue; with poll and select no peer is
\* faster than the call for ever); the idle timer of a draining connection fires.
Fairness ==
  /\ WF_vars(Turn)
  /\ \A fd \in Fds : SF_vars(Reports(fd))
  /\ \A fd \in ConnFds : SF_vars(ExpireDraining(fd))

Spec == Init /\ [][Next]_vars
FairSpec == Spec /\ Fairness

-----------------------------------------------------------------------------
(* Properties. *)

\* poll and select return the first ready entry of their array: behind a peer that
\* never stops sending, or a listener that waits for a descriptor, an entry is
\* not seen.
HiddenBehind(fd) ==
  \E i \in 1..(Index(table, fd) - 1) :
    /\ Holding(table, cond, table[i].fd) # {}
    /\ table[i].fd \in config.chatty \/ (table[i].fd = Listener /\ Free = {})

\* kqueue announces what arrives: input that arrived with the request and was
\* left behind it is not announced again.
LeftBehind(fd) == st[fd] = "upgraded" /\ <<fd, "read">> \notin active

Hidden(fd) ==
  CASE kind = "epoll" -> FALSE
    [] kind \in {"poll", "select"} -> HiddenBehind(fd)
    [] kind = "kqueue" -> LeftBehind(fd)

\* Input of an open connection that is never read is hidden in one of these two
\* ways for ever: nobody waits for good behind a draining connection or behind
\* peers that come to rest, and a visit of an open connection leaves nothing
\* that an edge-triggered driver would not announce.
InputIsRead ==
  \A fd \in ConnFds :
    <>[](Open(fd) /\ rx[fd] > 0 /\ ~At("failed")) => <>[](At("wait") => Hidden(fd))

\* A batch that an error of accept() ended leaves connections that kqueue will not
\* announce before another one arrives.
Forgotten ==
  kind = "kqueue" /\ loop.missed /\ <<Listener, "read">> \notin active

\* While connections wait, one after the other is taken, to be served, to be told
\* that there are too many, or because its peer gave it up: neither a full batch
\* nor the limit forgets the backlog.  What does is a failing accept(): without a
\* descriptor nothing can be taken, and with kqueue the rest waits for another
\* arrival.
ConnectionsAccepted ==
  (rx[Listener] > 0) ~>
    \/ rx[Listener] = 0 \/ (loop.cur = Listener /\ loop.n > 0)
    \/ Free = {} \/ Forgotten \/ At("failed")

\* What the server asked for: input of the listener and of live connections,
\* and output of those that drain.
Wanted(fd) ==
  CASE st[fd] \in {"listening", "handshake", "upgraded", "open"} -> {"read"}
    [] st[fd] = "draining" -> {"read", "write"}
    [] OTHER -> {}

\* The four drivers are one to the server: whatever the array looks like, wait()
\* reports a descriptor with a condition the server asked for, and times out
\* only when there is none (kqueue: or when it has been reported).
Abstract == INSTANCE Driver WITH
  edge <- kind = "kqueue", interest <- [fd \in Fds |-> Wanted(fd)]
ImplementsDriver == Abstract!Spec
=============================================================================
