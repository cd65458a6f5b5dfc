------------------------------- MODULE Timers -------------------------------
(***************************************************************************)
(* The server's timers (websocket_server_runtime.c): the handshake and     *)
(* idle timeouts, the heartbeat's pings and the pong timeout, and the      *)
(* clock they read.  Each pass over the connections stamps the clock once, *)
(* at its start; reads stamp it afresh; callbacks take time in between.    *)
(*                                                                         *)
(* The unit of time is the driver's timeout, WEBSOCKET_LOOP_TIMEOUT_USEC.  *)
(* What travels in frames and what waits in the write queue are the        *)
(* business of the modules FrameReader and WriteQueue.                     *)
(***************************************************************************)
EXTENDS Integers, Sequences

CONSTANTS
  Setups,        \* what the server may run with:
                 \*   options (in ms; a value the code replaces is <= 0),
                 \*   monotonic (the clock is CLOCK_MONOTONIC, not gettimeofday()),
                 \*   callback_time (bound: time the callbacks of one recv() may take),
                 \*   conns, units (bounds: connections, units of input of each)
  Defaults,      \* WEBSOCKET_DEFAULT_..._MS
  UsecPerMs,     \* 1000 in the code
  WordSize,      \* 2^64 in the code
  Horizon        \* bound: time

Names == {"handshake", "idle", "ping", "pong"}

ASSUME TimersAssumption ==
  /\ Setups \subseteq [options : [Names -> Int], monotonic : BOOLEAN,
                      callback_time : Nat, conns : Nat \ {0}, units : Nat]
  /\ Defaults \in [Names -> Nat] /\ \A n \in Names \ {"ping"} : Defaults[n] > 0
  /\ UsecPerMs \in Nat \ {0} /\ WordSize \in Nat \ {0}
  /\ Horizon \in Nat \ {0} /\ Horizon < WordSize

VARIABLES
  setup,  \* the setup, which does not change
  clock,  \* websocket_server_now_usec()
  loop,   \* control: pc, from (who visits), cur (connection), now (the pass's stamp)
  conn,   \* per connection: status, upgraded, the stamps, awaiting_pong, why it was closed
  inbox,  \* per connection: units in the socket, units the peer may still send
  since   \* history, in real time: since the last read, ping, and begin of draining,
          \* and whether the peer answered the ping in time

vars == <<setup, clock, loop, conn, inbox, since>>

Ids == 1..setup.conns
Units == {"piece", "request", "message", "pong"}

Unborn == [status |-> "none", upgraded |-> FALSE, last_activity |-> 0,
           last_ping |-> 0, awaiting_pong |-> FALSE, why |-> "none"]
Nothing == [read |-> 0, ping |-> 0, drain |-> 0, answered |-> FALSE]

Init ==
  /\ setup \in Setups
  /\ clock = 1
  /\ loop = [pc |-> "wait", from |-> "sweep", cur |-> 0, now |-> 1]
  /\ conn = [c \in Ids |-> Unborn]
  /\ inbox = [c \in Ids |-> [rx |-> <<>>, left |-> setup.units]]
  /\ since = [c \in Ids |-> Nothing]

-----------------------------------------------------------------------------
(* Options and the 64-bit arithmetic on them. *)

PositiveOption(n) == IF setup.options[n] <= 0 THEN Defaults[n] ELSE setup.options[n]
NonnegativeOption(n) == IF setup.options[n] < 0 THEN Defaults[n] ELSE setup.options[n]

OptionMs(n) == IF n = "ping" THEN NonnegativeOption(n) ELSE PositiveOption(n)

\* (uint64_t) option * 1000u
Timeout(n) == (OptionMs(n) * UsecPerMs) % WordSize

\* What the option's value means.
Declared(n) == OptionMs(n) * UsecPerMs

\* now_usec - last, unsigned.
Minus(now, last) == (now - last) % WordSize

-----------------------------------------------------------------------------
(* The two timers. *)

Live(o) == o.status \in {"open", "draining"}

\* Mutant: the unsigned difference is taken of a clock that went back.
ExpiredUnguarded(o, now) ==
  LET timeout == Timeout(IF o.upgraded THEN "idle" ELSE "handshake")
  IN  timeout > 0 /\ Minus(now, o.last_activity) >= timeout

\* websocket_server_connection_expired()
Expired(o, now) ==
  LET timeout == Timeout(IF o.upgraded THEN "idle" ELSE "handshake")
  IN  /\ o.last_activity > 0 /\ now >= o.last_activity
      /\ timeout > 0 /\ Minus(now, o.last_activity) >= timeout

Closed(o, why) == [o EXCEPT !.status = "closed", !.why = why]

\* close_with_code(): the close frame goes out, or waits in the queue, or is
\* refused; a connection that already drains refuses it and is closed.
CloseWithCode(o, why) ==
  {Closed(o, why)} \cup
    IF o.status = "open" THEN {[o EXCEPT !.status = "draining", !.why = why]} ELSE {}

CloseExpired(o) ==
  IF o.upgraded THEN CloseWithCode(o, "idle timeout") ELSE {Closed(o, "handshake timeout")}

PongLate(o, now) ==
  o.last_ping > 0 /\ now >= o.last_ping /\ Minus(now, o.last_ping) >= Timeout("pong")

PingDue(o, now) ==
  /\ o.last_activity > 0 /\ now >= o.last_activity
  /\ Minus(now, o.last_activity) >= Timeout("ping")

HasHeartbeat(o) == Timeout("ping") > 0 /\ o.status = "open" /\ o.upgraded

Pinged(o, now) == [o EXCEPT !.awaiting_pong = TRUE, !.last_ping = now]

\* websocket_server_process_heartbeat(): the pong timeout, or a ping, whose
\* sending may fail.
Heartbeat(o, now) ==
  IF ~HasHeartbeat(o) THEN {o}
  ELSE IF o.awaiting_pong
  THEN IF PongLate(o, now) THEN CloseWithCode(o, "pong timeout") ELSE {o}
  ELSE IF PingDue(o, now)
  THEN {Pinged(o, now)} \cup CloseWithCode(o, "heartbeat failed")
  ELSE {o}

\* Pending writes are flushed: what drains may be done, and is closed.
Flush(o) == {o} \cup IF o.status = "draining" THEN {Closed(o, o.why)} ELSE {}

\* Mutant: the expiry is not tested for a connection that drains.
TimersSparingDrains(o, now) ==
  IF o.status = "open" /\ Expired(o, now) THEN CloseExpired(o)
  ELSE UNION {Flush(p) : p \in Heartbeat(o, now)}

\* The head of a visit, the same in process_connection_fd() and in
\* process_connections().
TimersOf(o, now) ==
  IF Expired(o, now) THEN CloseExpired(o)
  ELSE UNION {Flush(p) : p \in Heartbeat(o, now)}

-----------------------------------------------------------------------------
(* Time. *)

\* History, counted up to the horizon: d units pass for what is still there.
Later(t, d) == IF t + d > Horizon THEN Horizon ELSE t + d

Aged(s, o, d) ==
  IF ~Live(o) THEN Nothing
  ELSE [read |-> Later(s.read, d),
        ping |-> IF o.awaiting_pong THEN Later(s.ping, d) ELSE 0,
        drain |-> IF o.status = "draining" THEN Later(s.drain, d) ELSE 0,
        answered |-> s.answered /\ o.awaiting_pong]

Elapse(d, before) ==
  /\ clock + d <= Horizon
  /\ clock' = clock + d
  /\ since' = [c \in Ids |-> Aged(before[c], conn'[c], d)]

\* gettimeofday() is set back.
ClockSetBack ==
  /\ ~setup.monotonic
  /\ loop.pc = "wait" /\ clock > 1
  /\ clock' = clock - 1
  /\ UNCHANGED <<loop, conn, inbox, since>>

-----------------------------------------------------------------------------
(* Peers: a unit arrives in the socket whatever the loop is doing. *)

PeerSends(c) ==
  /\ Live(conn[c]) /\ inbox[c].left > 0
  /\ \E u \in Units :
       /\ inbox' = [inbox EXCEPT ![c] = [rx |-> Append(@.rx, u), left |-> @.left - 1]]
       /\ since' = [since EXCEPT ![c].answered =
                      @ \/ (/\ u = "pong" /\ conn[c].awaiting_pong
                            /\ since[c].ping < Declared("pong"))]
       \* A request comes first and once, frames after it.
       /\ (u \in {"message", "pong"}) = (conn[c].upgraded \/ \E k \in DOMAIN inbox[c].rx :
                                           inbox[c].rx[k] = "request")
  /\ UNCHANGED <<clock, loop, conn>>

-----------------------------------------------------------------------------
(* The loop. *)

Sweep(stamp) == [pc |-> "visit", from |-> "sweep", cur |-> 1, now |-> stamp]

\* After a visit of process_connection_fd() comes the sweep, with a new stamp;
\* after the last visit of the sweep the loop waits.
AfterVisit ==
  IF loop.from = "fd" THEN Sweep(clock')
  ELSE IF loop.cur = setup.conns THEN [loop EXCEPT !.pc = "wait"]
  ELSE [loop EXCEPT !.pc = "visit", !.cur = @ + 1]

Ready(c) == conn[c].status = "open" /\ inbox[c].rx # <<>>

\* driver->wait() times out.
WaitTimesOut ==
  /\ loop.pc = "wait"
  /\ \A c \in Ids : ~Ready(c)
  /\ UNCHANGED <<conn, inbox>>
  /\ Elapse(1, since)
  /\ loop' = Sweep(clock')

\* Mutant: accept does not stamp last_activity.
WaitAcceptsUnstamped(c) ==
  /\ loop.pc = "wait"
  /\ conn[c].status = "none" /\ \A e \in 1..(c - 1) : conn[e].status # "none"
  /\ conn' = [conn EXCEPT ![c].status = "open"]
  /\ since' = [since EXCEPT ![c] = Nothing]
  /\ loop' = Sweep(clock)
  /\ UNCHANGED <<clock, inbox>>

\* The listener is ready: accept_connection() stamps accepted_at and last_activity.
WaitAccepts(c) ==
  /\ loop.pc = "wait"
  /\ conn[c].status = "none" /\ \A e \in 1..(c - 1) : conn[e].status # "none"
  /\ conn' = [conn EXCEPT ![c].status = "open", ![c].last_activity = clock]
  /\ since' = [since EXCEPT ![c] = Nothing]
  /\ loop' = Sweep(clock)
  /\ UNCHANGED <<clock, inbox>>

\* A connection is ready: process_connection_fd() stamps the clock.  (One that
\* drains is not read: its visit is the one the sweep pays it right after.)
WaitReports(c) ==
  /\ loop.pc = "wait"
  /\ Ready(c)
  /\ loop' = [pc |-> "visit", from |-> "fd", cur |-> c, now |-> clock]
  /\ UNCHANGED <<clock, conn, inbox, since>>

\* The timers of one connection, then on to its reads: all of them for the
\* ready descriptor, only the handshake's in the sweep.
Visit ==
  /\ loop.pc = "visit"
  /\ \E o \in IF Live(conn[loop.cur]) THEN TimersOf(conn[loop.cur], loop.now)
              ELSE {conn[loop.cur]} :
       /\ conn' = [conn EXCEPT ![loop.cur] = o]
       /\ Elapse(0, since)
       /\ loop' = IF o.status = "open" /\ (loop.from = "fd" \/ ~o.upgraded)
                  THEN [loop EXCEPT !.pc = "read"] ELSE AfterVisit
  /\ UNCHANGED inbox

\* recv() has nothing more.
ReadEnds ==
  /\ loop.pc = "read"
  /\ inbox[loop.cur].rx = <<>>
  /\ UNCHANGED <<clock, conn, inbox, since>>
  /\ loop' = AfterVisit

\* Mutant: a pong is read but not taken as the answer.
ReceivedIgnoringPongs(o, u) ==
  [o EXCEPT !.last_activity = clock, !.upgraded = @ \/ u = "request"]

\* What a unit does to the connection; recv() stamps the clock first.
Received(o, u) ==
  [o EXCEPT !.last_activity = clock,
            !.upgraded = @ \/ u = "request",
            !.awaiting_pong = @ /\ u # "pong",
            !.last_ping = IF u = "pong" THEN 0 ELSE @]

\* It may be the last: a request is refused; a callback closes the connection, or a
\* close frame or a bad one does, among the frames behind a request too.
Ended(o, u) ==
  IF u = "pong" THEN {}
  ELSE IF o.upgraded THEN CloseWithCode(o, "read") ELSE {Closed(o, "read")}

\* recv(), and the callbacks of what it returned, which take their time.
\* The handshake returns once it has upgraded; frames are read to the end, or to
\* the end of the connection.
ReadUnit ==
  /\ loop.pc = "read"
  /\ inbox[loop.cur].rx # <<>>
  /\ LET u == Head(inbox[loop.cur].rx)
         r == Received(conn[loop.cur], u)
     IN  \E o \in {r} \cup Ended(r, u) :
           /\ conn' = [conn EXCEPT ![loop.cur] = o]
           /\ inbox' = [inbox EXCEPT ![loop.cur].rx = Tail(@)]
           /\ \E d \in 0..(IF u \in {"request", "message"} THEN setup.callback_time ELSE 0) :
                Elapse(d, [since EXCEPT ![loop.cur].read = 0])
           /\ loop' = IF u = "request" \/ o.status # "open" THEN AfterVisit ELSE loop

Next ==
  /\ \/ ClockSetBack
     \/ \E c \in Ids : PeerSends(c) \/ WaitAccepts(c) \/ WaitReports(c)
     \/ WaitTimesOut \/ Visit \/ ReadEnds \/ ReadUnit
  /\ UNCHANGED setup

Spec == Init /\ [][Next]_vars

-----------------------------------------------------------------------------
(* Properties. *)

ClosedBy(c, why) == conn[c].why = "none" /\ conn'[c].why = why

\* A connection is closed for idleness only when nothing was read from it for as
\* long as its option says, also when the clock is set back or callbacks make the
\* stamp of the pass old (connection_expired()).
NotClosedEarly ==
  [][\A c \in Ids :
       /\ ClosedBy(c, "handshake timeout") => since[c].read >= Declared("handshake")
       /\ ClosedBy(c, "idle timeout") => since[c].read >= Declared("idle")]_vars

\* A peer whose pong reached the socket within the pong timeout is not closed
\* by a timer.
PongsCount ==
  [][\A c \in Ids : since[c].answered =>
       ~ClosedBy(c, "pong timeout") /\ ~ClosedBy(c, "idle timeout")]_vars

\* The idle timeout leaves room for a ping and its answer.
Patient == Declared("idle") >= Declared("ping") + Declared("pong")

\* The same while callbacks take no time: the heartbeat and the reads of a pass
\* are in the right order, no pong is lost between them, and an idle timeout that
\* leaves room for the answer does not come before it.
AnsweringPeersStay ==
  [][\A c \in Ids : since[c].answered /\ setup.callback_time = 0 =>
       /\ ~ClosedBy(c, "pong timeout")
       /\ Patient => ~ClosedBy(c, "idle timeout")]_vars

\* The time that callbacks took since the stamp of the sweep.
Lag == clock - loop.now

\* With a clock that is not set back, whenever the loop waits: nobody has been quiet past its timeout, nobody is
\* quiet for the ping interval without a ping, and no ping is unanswered past
\* the pong timeout, but for the time callbacks took in the last sweep.
SilentPeersGo ==
  setup.monotonic /\ loop.pc = "wait" => \A c \in Ids : conn[c].status = "open" =>
    /\ since[c].read - Lag < Declared(IF conn[c].upgraded THEN "idle" ELSE "handshake")
    /\ conn[c].upgraded /\ Declared("ping") > 0 =>
         IF conn[c].awaiting_pong THEN since[c].ping - Lag < Declared("pong")
         ELSE since[c].read - Lag < Declared("ping")

\* A peer that does not take its close frame holds its connection no longer than
\* the idle timeout (same clock): one that drains beyond it began to drain in the last pass.
DrainingIsBounded ==
  setup.monotonic /\ loop.pc = "wait" => \A c \in Ids : conn[c].status = "draining" =>
    since[c].read - Lag < Declared("idle") \/ since[c].drain <= Lag
=============================================================================
