---------------------------- MODULE TimersProofs ----------------------------
(***************************************************************************)
(* The timers keep their promises for every option, every number of        *)
(* connections and every duration of the callbacks, as long as no timeout  *)
(* overflows the 64 bits in which it is counted.                           *)
(***************************************************************************)
EXTENDS Timers, TLAPS

\* No option, in microseconds, wraps around.
NoWrap == \A n \in Names : Declared(n) < WordSize

\* The timeouts of this server.
Limits == [n \in Names |-> Declared(n)]

Times == 0..Horizon
ConnType == [status : {"none", "open", "draining", "closed"}, upgraded : BOOLEAN,
             last_activity : Times, last_ping : Times, awaiting_pong : BOOLEAN,
             why : {"none", "handshake timeout", "idle timeout", "pong timeout", "heartbeat failed",
                    "read"}]
SinceType == [read : Times, ping : Times, drain : Times, answered : BOOLEAN]
LoopType == [pc : {"wait", "visit", "read"}, from : {"fd", "sweep"},
             cur : 0..setup.conns, now : 1..Horizon]

\* What the fields of a connection have to do with each other.
ConnOK(o) ==
  /\ o \in ConnType
  /\ o.status = "none" => o = Unborn
  /\ Live(o) => o.last_activity >= 1
  /\ o.awaiting_pong => o.last_ping >= 1 /\ o.upgraded
  /\ o.status = "draining" => o.upgraded

\* Nothing is counted of what does not happen.
SinceOK(o, s) ==
  /\ s \in SinceType
  /\ ~o.awaiting_pong => s.ping = 0
  /\ o.status # "draining" => s.drain = 0

\* The clock shows no more time since the last read than has passed.
NotAhead(o, s, t) == Live(o) => t - o.last_activity <= s.read

\* A clock that is not set back shows no less.
NotBehind(o, s, t) ==
  Live(o) => /\ o.last_activity <= t /\ s.read <= t - o.last_activity
             /\ o.awaiting_pong => o.last_ping <= t /\ s.ping <= t - o.last_ping

\* At the stamp of the pass no timer of the connection was due.
Fresh(o, now, limits) ==
  /\ now - o.last_activity < limits[IF o.upgraded THEN "idle" ELSE "handshake"]
  /\ o.upgraded /\ limits["ping"] > 0 =>
       IF o.awaiting_pong THEN now - o.last_ping < limits["pong"]
       ELSE now - o.last_activity < limits["ping"]

\* What a visit leaves behind.
Served(o, s, t, now, limits) ==
  /\ o.status = "open" => Fresh(o, now, limits)
  /\ o.status = "draining" => now - o.last_activity < limits["idle"] \/ s.drain <= t - now

\* The sweep has been at c.
Passed(c) ==
  loop.pc = "wait" \/ (loop.from = "sweep" /\ (c < loop.cur \/ (c = loop.cur /\ loop.pc = "read")))

\* Any clock.
ClockInv ==
  /\ setup \in Setups /\ NoWrap
  /\ clock \in 1..Horizon
  /\ loop \in LoopType
  /\ loop.pc # "wait" => loop.cur \in Ids /\ loop.now <= clock
  /\ loop.pc = "read" => conn[loop.cur].status = "open"
  /\ conn \in [Ids -> ConnType] /\ since \in [Ids -> SinceType]
  /\ \A c \in Ids : ConnOK(conn[c]) /\ SinceOK(conn[c], since[c]) /\ NotAhead(conn[c], since[c], clock)

\* A clock that is not set back.
SweepInv ==
  setup.monotonic =>
    /\ loop.now <= clock
    /\ \A c \in Ids : NotBehind(conn[c], since[c], clock)
    /\ \A c \in Ids : Passed(c) => Served(conn[c], since[c], clock, loop.now, Limits)

TimersInv == ClockInv /\ SweepInv

\* A pong waits in the socket.
PongWaits(rx) == \E i \in DOMAIN rx : rx[i] = "pong"

\* The heartbeat of a connection on a server whose callbacks take no time: an
\* answer waits to be read and came in time, no more time shows since the ping
\* than has passed, and the ping was sent as soon as it was due.
Prompt(o, s, rx, t, limits) ==
  o.status = "open" =>
    /\ s.answered => o.awaiting_pong /\ PongWaits(rx) /\ s.ping < limits["pong"]
    /\ o.awaiting_pong => /\ t - o.last_ping <= s.ping
                          /\ t - o.last_activity <= s.ping + limits["ping"]
    /\ o.upgraded /\ ~o.awaiting_pong /\ limits["ping"] > 0 =>
         t - o.last_activity <= limits["ping"]

\* No ping is due.
Unhurried(o, t, limits) ==
  o.status = "open" /\ o.upgraded /\ ~o.awaiting_pong /\ limits["ping"] > 0 =>
    t - o.last_activity < limits["ping"]

InboxType == [rx : Seq(Units), left : Nat]

\* The heartbeat, with any clock.
PromptInv ==
  /\ inbox \in [Ids -> InboxType]
  /\ \A c \in Ids : conn[c].status = "draining" => conn[c].why # "none"
  /\ setup.callback_time = 0 =>
       /\ loop.pc # "wait" => loop.now = clock
       /\ \A c \in Ids : Prompt(conn[c], since[c], inbox[c].rx, clock, Limits)
       /\ \A c \in Ids : Passed(c) => Unhurried(conn[c], clock, Limits)

-----------------------------------------------------------------------------
(* Options. *)

\* The product of two positive numbers is positive.
LEMMA Products ==
  ASSUME NEW a \in Nat, NEW b \in Nat
  PROVE  a * b \in Nat /\ (a > 0 /\ b > 0 => a * b > 0)
  OBVIOUS

\* A timeout is what the option says, and only the ping interval may be 0.
LEMMA LimitFacts ==
  ASSUME setup \in Setups, NoWrap
  PROVE  /\ Limits \in [Names -> Nat]
         /\ \A n \in Names : Timeout(n) = Limits[n] /\ Declared(n) = Limits[n]
         /\ Limits["idle"] > 0 /\ Limits["handshake"] > 0 /\ Limits["pong"] > 0
<1>1. /\ setup.options \in [Names -> Int] /\ Defaults \in [Names -> Nat]
      /\ \A n \in Names \ {"ping"} : Defaults[n] > 0
      /\ UsecPerMs \in Nat /\ UsecPerMs > 0 /\ WordSize \in Nat
  BY TimersAssumption
<1>2. ASSUME NEW n \in Names
      PROVE  OptionMs(n) \in Nat /\ (n # "ping" => OptionMs(n) > 0)
  <2>1. setup.options[n] \in Int /\ Defaults[n] \in Nat /\ (n # "ping" => Defaults[n] > 0)
    BY <1>1
  <2> QED
    BY <2>1 DEF OptionMs, NonnegativeOption, PositiveOption
<1>3. ASSUME NEW n \in Names
      PROVE  Declared(n) \in Nat /\ (n # "ping" => Declared(n) > 0)
  BY <1>1, <1>2, Products DEF Declared
<1>4. ASSUME NEW n \in Names
      PROVE  Timeout(n) = Declared(n)
  <2>1. Declared(n) < WordSize /\ Timeout(n) = Declared(n) % WordSize
    BY DEF NoWrap, Timeout, Declared
  <2> QED
    BY <1>1, <1>3, <2>1
<1>5. {"idle", "handshake", "pong", "ping"} \subseteq Names
  BY DEF Names
<1> QED
  BY <1>3, <1>4, <1>5 DEF Limits

\* Differences of times do not wrap.
LEMMA Differences ==
  ASSUME NEW now \in Times, NEW last \in Times, now >= last
  PROVE  Minus(now, last) = now - last
<1>1. Horizon \in Nat /\ WordSize \in Nat /\ Horizon < WordSize
  BY TimersAssumption
<1>2. now - last \in 0..Horizon
  BY <1>1 DEF Times
<1> QED
  BY <1>1, <1>2 DEF Minus

-----------------------------------------------------------------------------
(* A visit. *)

Reasons == {"none", "handshake timeout", "idle timeout", "pong timeout", "heartbeat failed", "read"}

EndedAs(o, st, w) == [o EXCEPT !.status = st, !.why = w]

\* What the timers make of a live connection.
LEMMA TimersServe ==
  ASSUME setup \in Setups, NoWrap, NEW o, ConnOK(o), Live(o), NEW now \in 1..Horizon,
         NEW p \in TimersOf(o, now)
  PROVE  /\ ConnOK(p) /\ p.status \in {"open", "draining", "closed"}
         /\ p.last_activity = o.last_activity /\ p.upgraded = o.upgraded
         /\ p.awaiting_pong => \/ o.awaiting_pong /\ p.last_ping = o.last_ping
                               \/ ~o.awaiting_pong /\ p.last_ping = now
         /\ p.status = "open" => Fresh(p, now, Limits)
         /\ p.status = "draining" => o.status = "open" \/ now - o.last_activity < Limits["idle"]
         /\ o.why = "none" /\ p.why = "handshake timeout" =>
              now - o.last_activity >= Limits["handshake"]
         /\ o.why = "none" /\ p.why = "idle timeout" => now - o.last_activity >= Limits["idle"]
<1> DEFINE name == IF o.upgraded THEN "idle" ELSE "handshake"
           la == o.last_activity
<1>1. /\ Limits \in [Names -> Nat] /\ Limits["idle"] > 0 /\ Limits["handshake"] > 0 /\ Limits["pong"] > 0
      /\ \A n \in Names : Timeout(n) = Limits[n]
  BY LimitFacts
<1>2. /\ o \in ConnType /\ la \in Times /\ la >= 1 /\ o.status \in {"open", "draining"}
      /\ o.last_ping \in Times /\ o.upgraded \in BOOLEAN /\ o.awaiting_pong \in BOOLEAN
      /\ o.awaiting_pong => o.last_ping >= 1 /\ o.upgraded
      /\ o.status = "draining" => o.upgraded
  BY DEF ConnOK, Live, ConnType
<1>3. now \in Times /\ now >= 1 /\ now \in Int /\ Horizon \in Nat
  BY TimersAssumption DEF Times
<1>4. name \in Names /\ {"idle", "handshake", "ping", "pong"} \subseteq Names
  BY DEF Names
<1>5. Expired(o, now) <=> now - la >= Limits[name]
  <2>1. Timeout(name) = Limits[name] /\ Limits[name] > 0 /\ Limits[name] \in Nat
    BY <1>1, <1>4
  <2>2. CASE now >= la
    <3>1. Minus(now, la) = now - la
      BY <1>2, <1>3, <2>2, Differences
    <3> QED
      BY <1>2, <1>3, <2>1, <2>2, <3>1 DEF Expired, Times
  <2>3. CASE ~(now >= la)
    BY <1>2, <1>3, <2>1, <2>3 DEF Expired, Times
  <2> QED
    BY <2>2, <2>3
<1>6. CASE Expired(o, now)
  <2>1. p \in CloseExpired(o)
    BY <1>6 DEF TimersOf
  <2>2. \/ /\ o.upgraded /\ p = Closed(o, "idle timeout")
        \/ /\ o.upgraded /\ o.status = "open"
           /\ p = [o EXCEPT !.status = "draining", !.why = "idle timeout"]
        \/ /\ ~o.upgraded /\ p = Closed(o, "handshake timeout")
    BY <2>1 DEF CloseExpired, CloseWithCode
  <2>3. PICK st \in {"draining", "closed"}, w \in {"idle timeout", "handshake timeout"} :
          /\ p = EndedAs(o, st, w)
          /\ st = "draining" => o.status = "open" /\ o.upgraded
          /\ (w = "idle timeout") = o.upgraded
    BY <1>2, <2>2 DEF Closed, EndedAs
  <2>4. /\ p \in ConnType /\ p.status = st /\ p.why = w
        /\ p.last_activity = la /\ p.upgraded = o.upgraded
        /\ p.awaiting_pong = o.awaiting_pong /\ p.last_ping = o.last_ping
    <3>1. st \in {"draining", "closed"} /\ w \in Reasons /\ o \in ConnType
      BY <1>2 DEF Reasons
    <3> QED
      BY <2>3, <3>1 DEF EndedAs, ConnType, Reasons
  <2>5. ConnOK(p)
    BY <1>2, <2>3, <2>4 DEF ConnOK, Live
  <2>6. (w = "idle timeout" => now - la >= Limits["idle"])
        /\ (w = "handshake timeout" => now - la >= Limits["handshake"])
    BY <1>2, <1>5, <1>6, <2>3
  <2> QED
    BY <2>3, <2>4, <2>5, <2>6
<1>7. CASE ~Expired(o, now)
  <2>1. PICK q \in Heartbeat(o, now) : p \in Flush(q)
    BY <1>7 DEF TimersOf
  <2>2. now - la < Limits[name]
    <3>1. Limits[name] \in Nat
      BY <1>1, <1>4
    <3> QED
      BY <1>2, <1>3, <1>5, <1>7, <3>1 DEF Times
  <2>3. \/ q = o
        \/ q = Pinged(o, now) /\ ~o.awaiting_pong /\ HasHeartbeat(o)
        \/ /\ o.status = "open" /\ o.upgraded
           /\ q \in CloseWithCode(o, "pong timeout") \cup CloseWithCode(o, "heartbeat failed")
    BY DEF Heartbeat, HasHeartbeat
  <2>4. ASSUME q = o, o.status = "open", o.upgraded, Limits["ping"] > 0
        PROVE  IF o.awaiting_pong THEN now - o.last_ping < Limits["pong"]
               ELSE now - la < Limits["ping"]
    <3>1. HasHeartbeat(o)
      BY <1>1, <1>4, <2>4 DEF HasHeartbeat
    <3>2. CASE o.awaiting_pong
      <4>1. ~PongLate(o, now)
        <5>1. CASE PongLate(o, now)
          <6>1. q \in CloseWithCode(o, "pong timeout")
            BY <3>1, <3>2, <5>1 DEF Heartbeat
          <6>2. q.status # "open"
            BY <1>2, <6>1 DEF CloseWithCode, Closed, ConnType
          <6> QED
            BY <2>4, <6>2
        <5> QED
          BY <5>1
      <4>2. Timeout("pong") = Limits["pong"] /\ Limits["pong"] \in Nat
        BY <1>1, <1>4
      <4>3. CASE now >= o.last_ping
        <5>1. Minus(now, o.last_ping) = now - o.last_ping
          BY <1>2, <1>3, <4>3, Differences
        <5> QED
          BY <1>2, <1>3, <3>2, <4>1, <4>2, <4>3, <5>1 DEF PongLate, Times
      <4>4. CASE ~(now >= o.last_ping)
        BY <1>1, <1>2, <1>3, <3>2, <4>2, <4>4 DEF Times
      <4> QED
        BY <4>3, <4>4
    <3>3. CASE ~o.awaiting_pong
      <4>1. ~PingDue(o, now)
        <5>1. CASE PingDue(o, now)
          <6>1. q \in {Pinged(o, now)} \cup CloseWithCode(o, "heartbeat failed")
            BY <3>1, <3>3, <5>1 DEF Heartbeat
          <6>2. q.status # "open" \/ q.awaiting_pong
            BY <1>2, <6>1 DEF CloseWithCode, Closed, Pinged, ConnType
          <6> QED
            BY <2>4, <3>3, <6>2
        <5> QED
          BY <5>1
      <4>2. Timeout("ping") = Limits["ping"] /\ Limits["ping"] \in Nat
        BY <1>1, <1>4
      <4>3. CASE now >= la
        <5>1. Minus(now, la) = now - la
          BY <1>2, <1>3, <4>3, Differences
        <5> QED
          BY <1>2, <1>3, <3>3, <4>1, <4>2, <4>3, <5>1 DEF PingDue, Times
      <4>4. CASE ~(now >= la)
        BY <1>2, <1>3, <2>4, <3>3, <4>2, <4>4 DEF Times
      <4> QED
        BY <4>3, <4>4
    <3> QED
      BY <1>2, <3>2, <3>3
  <2>5. CASE q = o
    <3>1. p = o \/ (o.status = "draining" /\ p = Closed(o, o.why))
      BY <2>1, <2>5 DEF Flush
    <3>2. CASE p = o
      <4>1. o.status = "open" => Fresh(o, now, Limits)
        BY <2>2, <2>4, <2>5 DEF Fresh
      <4>2. o.status = "draining" => now - la < Limits["idle"]
        BY <1>2, <2>2
      <4> QED
        BY <1>2, <3>2, <4>1, <4>2
    <3>3. CASE o.status = "draining" /\ p = Closed(o, o.why)
      BY <1>2, <3>3 DEF Closed, ConnOK, ConnType, Live
    <3> QED
      BY <3>1, <3>2, <3>3
  <2>6. CASE q = Pinged(o, now) /\ ~o.awaiting_pong /\ HasHeartbeat(o)
    <3>1. o.status = "open" /\ o.upgraded
      BY <2>6 DEF HasHeartbeat
    <3>2. p = Pinged(o, now)
      BY <1>2, <2>1, <2>6, <3>1 DEF Flush, Pinged, ConnType
    <3>3. /\ p \in ConnType /\ p.status = "open" /\ p.upgraded /\ p.awaiting_pong
          /\ p.last_activity = la /\ p.last_ping = now /\ p.why = o.why
      BY <1>2, <1>3, <3>1, <3>2 DEF Pinged, ConnType
    <3>4. ConnOK(p)
      BY <1>2, <1>3, <3>3 DEF ConnOK, Live
    <3>5. now - now < Limits["pong"]
      BY <1>1, <1>3, <1>4
    <3>6. Fresh(p, now, Limits)
      BY <2>2, <3>1, <3>3, <3>5 DEF Fresh
    <3> QED
      BY <2>6, <3>1, <3>3, <3>4, <3>6
  <2>7. CASE /\ o.status = "open" /\ o.upgraded
             /\ q \in CloseWithCode(o, "pong timeout") \cup CloseWithCode(o, "heartbeat failed")
    <3>1. PICK w \in {"pong timeout", "heartbeat failed"} :
            q = EndedAs(o, "closed", w) \/ q = EndedAs(o, "draining", w)
      BY <2>7 DEF CloseWithCode, Closed, EndedAs
    <3>2. p = q \/ p = Closed(q, q.why)
      BY <2>1 DEF Flush
    <3>3. w \in Reasons
      BY DEF Reasons
    <3>4. q.why = w /\ Closed(q, w) = EndedAs(o, "closed", w)
      BY <1>2, <3>1, <3>3 DEF EndedAs, ConnType, Reasons, Closed
    <3>5. p = EndedAs(o, "closed", w) \/ p = EndedAs(o, "draining", w)
      BY <3>1, <3>2, <3>4
    <3>6. /\ p \in ConnType /\ p.status \in {"draining", "closed"} /\ p.why = w
          /\ p.last_activity = la /\ p.upgraded = o.upgraded
          /\ p.awaiting_pong = o.awaiting_pong /\ p.last_ping = o.last_ping
      BY <1>2, <3>3, <3>5 DEF EndedAs, ConnType, Reasons
    <3>7. ConnOK(p)
      BY <1>2, <2>7, <3>6 DEF ConnOK, Live
    <3> QED
      BY <2>7, <3>6, <3>7
  <2> QED
    BY <2>3, <2>5, <2>6, <2>7
<1> QED
  BY <1>6, <1>7

-----------------------------------------------------------------------------
(* Time passes. *)

\* The history that d units of time leave of one connection.
LEMMA AgedFacts ==
  ASSUME NEW o, ConnOK(o), NEW s \in SinceType, NEW t \in 1..Horizon, NEW d \in Nat,
         t + d <= Horizon, NotAhead(o, s, t), NEW r, r = Aged(s, o, d)
  PROVE  /\ SinceOK(o, r) /\ NotAhead(o, r, t + d)
         /\ NotBehind(o, s, t) => NotBehind(o, r, t + d)
         /\ \A now \in 1..Horizon, limits \in [Names -> Nat] :
              Served(o, s, t, now, limits) => Served(o, r, t + d, now, limits)
<1>1. /\ o \in ConnType /\ o.last_activity \in Times /\ o.last_ping \in Times
      /\ o.awaiting_pong \in BOOLEAN /\ Horizon \in Nat
      /\ Live(o) => o.last_activity >= 1
      /\ o.awaiting_pong => o.last_ping >= 1
  BY TimersAssumption DEF ConnOK, ConnType
<1>2. s.read \in Times /\ s.ping \in Times /\ s.drain \in Times /\ s.answered \in BOOLEAN
  BY DEF SinceType
<1>3. CASE ~Live(o)
  <2>1. r = Nothing
    BY <1>3 DEF Aged
  <2>2. o.status # "open" /\ o.status # "draining"
    BY <1>3 DEF Live
  <2>3. SinceOK(o, r)
    BY <1>1, <2>1 DEF SinceOK, SinceType, Nothing, Times
  <2> QED
    BY <1>3, <2>2, <2>3 DEF NotAhead, NotBehind, Served
<1>4. CASE Live(o)
  <2>1. \A x \in Times : /\ Later(x, d) \in Times /\ Later(x, d) <= x + d
                        /\ (Later(x, d) = x + d \/ Later(x, d) = Horizon)
    BY <1>1 DEF Later, Times
  <2>2. /\ r.read = Later(s.read, d)
        /\ r.ping = IF o.awaiting_pong THEN Later(s.ping, d) ELSE 0
        /\ r.drain = IF o.status = "draining" THEN Later(s.drain, d) ELSE 0
        /\ r.answered = (s.answered /\ o.awaiting_pong)
        /\ r = [read |-> r.read, ping |-> r.ping, drain |-> r.drain, answered |-> r.answered]
    BY <1>4 DEF Aged
  <2>3. SinceOK(o, r)
    <3>1. 0 \in Times
      BY <1>1 DEF Times
    <3>2. r.read \in Times /\ r.ping \in Times /\ r.drain \in Times
      BY <1>2, <2>1, <2>2, <3>1
    <3>3. r.answered \in BOOLEAN
      BY <2>2
    <3>4. r \in SinceType
      BY <2>2, <3>2, <3>3 DEF SinceType
    <3> QED
      BY <2>2, <3>4 DEF SinceOK
  <2>4. NotAhead(o, r, t + d)
    <3>1. t - o.last_activity <= s.read /\ o.last_activity >= 1
      BY <1>1, <1>4 DEF NotAhead
    <3>2. r.read = s.read + d \/ r.read = Horizon
      BY <1>2, <2>1, <2>2
    <3>3. (t + d) - o.last_activity <= r.read
      BY <1>1, <1>2, <3>1, <3>2 DEF Times
    <3> QED
      BY <3>3 DEF NotAhead
  <2>5. ASSUME NotBehind(o, s, t)
        PROVE  NotBehind(o, r, t + d)
    <3>1. /\ o.last_activity <= t /\ s.read <= t - o.last_activity
          /\ o.awaiting_pong => o.last_ping <= t /\ s.ping <= t - o.last_ping
      BY <1>4, <2>5 DEF NotBehind
    <3>2. r.read <= s.read + d /\ r.read \in Times
      BY <1>2, <2>1, <2>2
    <3>3. o.last_activity <= t + d /\ r.read <= (t + d) - o.last_activity
      BY <1>1, <1>2, <3>1, <3>2 DEF Times
    <3>4. ASSUME o.awaiting_pong
          PROVE  o.last_ping <= t + d /\ r.ping <= (t + d) - o.last_ping
      <4>1. r.ping <= s.ping + d /\ r.ping \in Times
        BY <1>2, <2>1, <2>2, <3>4
      <4> QED
        BY <1>1, <1>2, <3>1, <3>4, <4>1 DEF Times
    <3> QED
      BY <3>3, <3>4 DEF NotBehind
  <2>6. ASSUME NEW now \in 1..Horizon, NEW limits \in [Names -> Nat], Served(o, s, t, now, limits)
        PROVE  Served(o, r, t + d, now, limits)
    <3>1. ASSUME o.status = "draining", s.drain <= t - now
          PROVE  r.drain <= (t + d) - now
      <4>1. r.drain <= s.drain + d /\ r.drain \in Times
        BY <1>2, <2>1, <2>2, <3>1
      <4> QED
        BY <1>1, <1>2, <3>1, <4>1 DEF Times
    <3> QED
      BY <2>6, <3>1 DEF Served
  <2> QED
    BY <2>3, <2>4, <2>5, <2>6
<1> QED
  BY <1>3, <1>4

\* The same for all connections, in a step that takes d units of time.
LEMMA ElapseStep ==
  ASSUME setup \in Setups, NoWrap, clock \in 1..Horizon, NEW d \in Nat,
         NEW before, before \in [Ids -> SinceType], Elapse(d, before),
         \A c \in Ids : ConnOK(conn'[c]) /\ NotAhead(conn'[c], before[c], clock)
  PROVE  /\ clock' = clock + d /\ clock' \in 1..Horizon
         /\ since' \in [Ids -> SinceType]
         /\ \A c \in Ids :
              /\ SinceOK(conn'[c], since'[c]) /\ NotAhead(conn'[c], since'[c], clock')
              /\ NotBehind(conn'[c], before[c], clock) => NotBehind(conn'[c], since'[c], clock')
              /\ \A now \in 1..Horizon :
                   Served(conn'[c], before[c], clock, now, Limits)
                   => Served(conn'[c], since'[c], clock', now, Limits)
<1>1. clock + d <= Horizon /\ clock' = clock + d /\ since' = [c \in Ids |-> Aged(before[c], conn'[c], d)]
  BY DEF Elapse
<1>2. clock' \in 1..Horizon
  BY <1>1, TimersAssumption
<1>3. Limits \in [Names -> Nat]
  BY LimitFacts
<1>4. ASSUME NEW c \in Ids
      PROVE  /\ SinceOK(conn'[c], since'[c]) /\ NotAhead(conn'[c], since'[c], clock')
             /\ NotBehind(conn'[c], before[c], clock) => NotBehind(conn'[c], since'[c], clock')
             /\ \A now \in 1..Horizon :
                  Served(conn'[c], before[c], clock, now, Limits)
                  => Served(conn'[c], since'[c], clock', now, Limits)
  <2>1. since'[c] = Aged(before[c], conn'[c], d) /\ before[c] \in SinceType
    BY <1>1
  <2>2. ConnOK(conn'[c]) /\ NotAhead(conn'[c], before[c], clock)
    OBVIOUS
  <2> QED
    BY <1>1, <1>3, <2>1, <2>2, AgedFacts
<1>5. \A c \in Ids : since'[c] \in SinceType
  BY <1>4 DEF SinceOK
<1>6. since' \in [Ids -> SinceType]
  BY <1>1, <1>5
<1> QED
  BY <1>1, <1>2, <1>4, <1>6

-----------------------------------------------------------------------------
(* The loop's control. *)

\* The setup is the same after a step, and so is what depends on it alone.
LEMMA SetupKept ==
  ASSUME setup' = setup
  PROVE  /\ Ids' = Ids /\ Limits' = Limits /\ LoopType' = LoopType /\ NoWrap' = NoWrap
<1>1. \A n \in Names : Declared(n)' = Declared(n)
  BY DEF Declared, OptionMs, PositiveOption, NonnegativeOption
<1> QED
  BY <1>1 DEF Ids, Limits, LoopType, NoWrap

\* Where the loop goes after a visit, and whom the sweep has then been at.
LEMMA AfterVisitFacts ==
  ASSUME setup \in Setups, setup' = setup, loop \in LoopType, loop.cur \in Ids, loop.pc # "wait",
         clock' \in 1..Horizon, clock \in 1..Horizon, loop.now <= clock, clock <= clock',
         loop' = AfterVisit
  PROVE  /\ loop' \in LoopType /\ loop'.now <= clock' /\ loop'.pc # "read"
         /\ loop'.pc # "wait" => loop'.cur \in Ids
         /\ \A c \in Ids : Passed(c)' => loop'.now = loop.now /\ (c = loop.cur \/ Passed(c)) /\ loop.from = "sweep"
<1>1. setup.conns \in Nat /\ setup.conns > 0
  BY TimersAssumption
<1>2. /\ loop.cur \in 1..setup.conns /\ loop.from \in {"fd", "sweep"} /\ loop.now \in 1..Horizon
      /\ loop.pc \in {"visit", "read"}
  BY DEF LoopType, Ids
<1>3. CASE loop.from = "fd"
  <2>1. loop' = [pc |-> "visit", from |-> "sweep", cur |-> 1, now |-> clock']
    BY <1>3 DEF AfterVisit, Sweep
  <2>2. loop'.pc = "visit" /\ loop'.cur = 1 /\ loop'.now = clock'
    BY <2>1
  <2>3. loop' \in LoopType
    BY <1>1, <2>1 DEF LoopType
  <2> QED
    BY <1>1, <2>2, <2>3 DEF Passed, Ids
<1>4. CASE loop.from = "sweep" /\ loop.cur = setup.conns
  <2>1. loop' = [loop EXCEPT !.pc = "wait"]
    BY <1>4 DEF AfterVisit
  <2>2. loop'.pc = "wait" /\ loop'.now = loop.now /\ loop' \in LoopType
    BY <2>1 DEF LoopType
  <2>3. \A c \in Ids : c = loop.cur \/ c < loop.cur
    BY <1>1, <1>4 DEF Ids
  <2> QED
    BY <1>2, <1>4, <2>2, <2>3 DEF Passed
<1>5. CASE loop.from = "sweep" /\ loop.cur # setup.conns
  <2>1. loop' = [loop EXCEPT !.pc = "visit", !.cur = loop.cur + 1]
    BY <1>5 DEF AfterVisit
  <2>2. /\ loop'.pc = "visit" /\ loop'.now = loop.now /\ loop'.from = loop.from
        /\ loop'.cur = loop.cur + 1
    BY <2>1 DEF LoopType
  <2>3. loop'.cur \in 1..setup.conns /\ loop.cur + 1 \in 0..setup.conns
    BY <1>1, <1>2, <1>5, <2>2
  <2>4. loop' \in LoopType
    BY <2>1, <2>3 DEF LoopType
  <2>5. \A c \in Ids : c < loop.cur + 1 => c = loop.cur \/ c < loop.cur
    BY <1>1, <1>2 DEF Ids
  <2> QED
    BY <1>2, <1>5, <2>2, <2>3, <2>4, <2>5 DEF Passed, Ids
<1> QED
  BY <1>2, <1>3, <1>4, <1>5

-----------------------------------------------------------------------------
(* One lemma per action. *)

\* What there is to show of a step.
LEMMA Assemble ==
  ASSUME ClockInv, setup' = setup, clock' \in 1..Horizon, loop' \in LoopType,
         loop'.pc # "wait" => loop'.cur \in Ids /\ loop'.now <= clock',
         loop'.pc = "read" => conn'[loop'.cur].status = "open",
         conn' \in [Ids -> ConnType], since' \in [Ids -> SinceType],
         \A c \in Ids : /\ ConnOK(conn'[c]) /\ SinceOK(conn'[c], since'[c])
                        /\ NotAhead(conn'[c], since'[c], clock'),
         setup.monotonic => loop'.now <= clock',
         \A c \in Ids : setup.monotonic =>
            /\ NotBehind(conn'[c], since'[c], clock')
            /\ Passed(c)' => Served(conn'[c], since'[c], clock', loop'.now, Limits)
  PROVE  TimersInv'
<1>1. Ids' = Ids /\ Limits' = Limits /\ LoopType' = LoopType /\ NoWrap' = NoWrap
  BY SetupKept
<1>2. setup' \in Setups /\ NoWrap'
  BY <1>1 DEF ClockInv
<1>3. ClockInv'
  BY <1>1, <1>2 DEF ClockInv
<1>4. SweepInv'
  BY <1>1 DEF SweepInv
<1> QED
  BY <1>3, <1>4 DEF TimersInv

\* What a step starts from.
LEMMA Before ==
  ASSUME TimersInv
  PROVE  /\ ClockInv /\ setup \in Setups /\ NoWrap /\ clock \in 1..Horizon /\ loop \in LoopType
         /\ loop.pc # "wait" => loop.cur \in Ids /\ loop.now <= clock
         /\ loop.pc = "read" => conn[loop.cur].status = "open"
         /\ conn \in [Ids -> ConnType] /\ since \in [Ids -> SinceType]
         /\ \A c \in Ids : /\ ConnOK(conn[c]) /\ SinceOK(conn[c], since[c])
                            /\ NotAhead(conn[c], since[c], clock)
         /\ setup.monotonic => loop.now <= clock
         /\ \A c \in Ids : setup.monotonic =>
               /\ NotBehind(conn[c], since[c], clock)
               /\ Passed(c) => Served(conn[c], since[c], clock, loop.now, Limits)
  BY DEF TimersInv, ClockInv, SweepInv

\* Initially nothing has happened.
LEMMA InitTimersInv ==
  ASSUME Init, NoWrap
  PROVE  TimersInv
<1>1. setup \in Setups /\ setup.conns \in Nat /\ Horizon \in Nat \ {0}
  BY TimersAssumption DEF Init
<1>2. /\ clock = 1 /\ loop = [pc |-> "wait", from |-> "sweep", cur |-> 0, now |-> 1]
      /\ \A c \in Ids : conn[c] = Unborn /\ since[c] = Nothing
  BY DEF Init
<1>3. ConnOK(Unborn) /\ SinceOK(Unborn, Nothing) /\ ~Live(Unborn) /\ Unborn.status = "none"
  BY <1>1 DEF ConnOK, SinceOK, Unborn, Nothing, ConnType, SinceType, Live, Times
<1>4. Unborn \in ConnType /\ Nothing \in SinceType
  BY <1>3 DEF ConnOK, SinceOK
<1>5. conn \in [Ids -> ConnType] /\ since \in [Ids -> SinceType]
  BY <1>4 DEF Init
<1>6. loop \in LoopType /\ loop.pc = "wait" /\ loop.now = 1
  BY <1>1, <1>2 DEF LoopType
<1>7. ClockInv
  BY <1>1, <1>2, <1>3, <1>5, <1>6 DEF ClockInv, NotAhead
<1>8. SweepInv
  BY <1>2, <1>3, <1>6 DEF SweepInv, NotBehind, Served
<1> QED
  BY <1>7, <1>8 DEF TimersInv

\* A clock that is set back shows less time.
LEMMA ClockSetBackStep ==
  ASSUME TimersInv, ClockSetBack, setup' = setup
  PROVE  TimersInv'
<1>1. /\ ~setup.monotonic /\ loop.pc = "wait" /\ clock > 1 /\ clock' = clock - 1
      /\ loop' = loop /\ conn' = conn /\ since' = since
  BY DEF ClockSetBack
<1>2. clock \in 1..Horizon /\ clock' \in 1..Horizon
  BY <1>1, Before, TimersAssumption
<1>3. ASSUME NEW c \in Ids
      PROVE  NotAhead(conn[c], since[c], clock')
  <2>1. /\ conn[c] \in ConnType /\ since[c] \in SinceType /\ NotAhead(conn[c], since[c], clock)
    BY Before
  <2>2. conn[c].last_activity \in Times /\ since[c].read \in Times
    BY <2>1 DEF ConnType, SinceType
  <2>3. Live(conn[c]) => clock - conn[c].last_activity <= since[c].read
    BY <2>1 DEF NotAhead
  <2>4. Live(conn[c]) => clock' - conn[c].last_activity <= since[c].read
    BY <1>1, <1>2, <2>2, <2>3, TimersAssumption DEF Times
  <2> QED
    BY <2>4 DEF NotAhead
<1> QED
  BY <1>1, <1>2, <1>3, Before, Assemble

\* What arrives changes no timer.
LEMMA PeerSendsStep ==
  ASSUME TimersInv, NEW c \in Ids, PeerSends(c), setup' = setup
  PROVE  TimersInv'
<1>1. /\ clock' = clock /\ loop' = loop /\ conn' = conn
      /\ \E b : since' = [since EXCEPT ![c].answered = since[c].answered \/ b]
  BY DEF PeerSends
<1>0. clock' = clock /\ loop' = loop /\ conn' = conn
  BY <1>1
<1>2. PICK b : since' = [since EXCEPT ![c].answered = since[c].answered \/ b]
  BY <1>1
<1>3. since \in [Ids -> SinceType]
  BY Before
<1>4. ASSUME NEW e \in Ids
      PROVE  /\ since'[e] \in SinceType /\ since'[e].read = since[e].read
             /\ since'[e].ping = since[e].ping /\ since'[e].drain = since[e].drain
  BY <1>2, <1>3 DEF SinceType
<1>5. since' \in [Ids -> SinceType]
  <2>1. DOMAIN since' = Ids /\ since' = [e \in Ids |-> since'[e]]
    BY <1>2, <1>3
  <2> QED
    BY <1>4, <2>1
<1>6. ASSUME NEW e \in Ids
      PROVE  /\ SinceOK(conn[e], since'[e]) /\ NotAhead(conn[e], since'[e], clock)
             /\ setup.monotonic =>
                  /\ NotBehind(conn[e], since'[e], clock)
                  /\ Passed(e) => Served(conn[e], since'[e], clock, loop.now, Limits)
  <2>1. SinceOK(conn[e], since'[e])
    <3>1. SinceOK(conn[e], since[e])
      BY Before
    <3> QED
      BY <1>4, <3>1 DEF SinceOK
  <2>2. NotAhead(conn[e], since'[e], clock)
    <3>1. NotAhead(conn[e], since[e], clock)
      BY Before
    <3> QED
      BY <1>4, <3>1 DEF NotAhead
  <2>3. ASSUME setup.monotonic
        PROVE  NotBehind(conn[e], since'[e], clock)
    <3>1. NotBehind(conn[e], since[e], clock)
      BY <2>3, Before
    <3> QED
      BY <1>4, <3>1 DEF NotBehind
  <2>4. ASSUME setup.monotonic, Passed(e)
        PROVE  Served(conn[e], since'[e], clock, loop.now, Limits)
    <3>1. Served(conn[e], since[e], clock, loop.now, Limits)
      BY <2>4, Before
    <3> QED
      BY <1>4, <3>1 DEF Served
  <2> QED
    BY <2>1, <2>2, <2>3, <2>4
<1>7. \A e \in Ids : Passed(e)' => Passed(e)
  BY <1>0 DEF Passed
<1>8. \A e \in Ids : /\ ConnOK(conn'[e]) /\ SinceOK(conn'[e], since'[e])
                      /\ NotAhead(conn'[e], since'[e], clock')
  BY <1>0, <1>6, Before
<1>9. \A e \in Ids : setup.monotonic =>
         /\ NotBehind(conn'[e], since'[e], clock')
         /\ Passed(e)' => Served(conn'[e], since'[e], clock', loop'.now, Limits)
  BY <1>0, <1>6, <1>7
<1>10. /\ clock' \in 1..Horizon /\ loop' \in LoopType /\ conn' \in [Ids -> ConnType]
       /\ loop'.pc # "wait" => loop'.cur \in Ids /\ loop'.now <= clock'
       /\ loop'.pc = "read" => conn'[loop'.cur].status = "open"
       /\ setup.monotonic => loop'.now <= clock'
       /\ ClockInv
  BY <1>0, Before
<1> QED
  BY <1>5, <1>8, <1>9, <1>10, Assemble

\* A step that changes no connection and takes no time.
LEMMA ControlStep ==
  ASSUME TimersInv, setup' = setup, clock' = clock, conn' = conn, since' = since,
         loop' \in LoopType, loop'.cur \in Ids \/ loop'.pc = "wait", loop'.now <= clock,
         loop'.pc # "read",
         \A c \in Ids : Passed(c)' => loop'.now = loop.now /\ Passed(c)
  PROVE  TimersInv'
  BY Before, Assemble

\* A ready descriptor is visited with a stamp of its own.
LEMMA WaitReportsStep ==
  ASSUME TimersInv, NEW c \in Ids, WaitReports(c), setup' = setup
  PROVE  TimersInv'
<1>1. /\ clock' = clock /\ conn' = conn /\ since' = since
      /\ loop' = [pc |-> "visit", from |-> "fd", cur |-> c, now |-> clock]
  BY DEF WaitReports
<1>2. clock \in 1..Horizon /\ setup.conns \in Nat /\ Horizon \in Nat
  BY Before, TimersAssumption
<1>3. loop' \in LoopType /\ loop'.cur = c /\ loop'.now = clock /\ loop'.pc = "visit"
  BY <1>1, <1>2 DEF LoopType, Ids
<1>4. \A e \in Ids : ~Passed(e)'
  BY <1>1 DEF Passed
<1> QED
  BY <1>1, <1>2, <1>3, <1>4, ControlStep

\* Once there is nothing to read the visit is over.
LEMMA ReadEndsStep ==
  ASSUME TimersInv, ReadEnds, setup' = setup
  PROVE  TimersInv'
<1>1. clock' = clock /\ conn' = conn /\ since' = since /\ loop' = AfterVisit /\ loop.pc = "read"
  BY DEF ReadEnds
<1>2. /\ setup \in Setups /\ clock \in 1..Horizon /\ loop \in LoopType
      /\ loop.cur \in Ids /\ loop.now <= clock
  BY <1>1, Before
<1>3. /\ loop' \in LoopType /\ loop'.now <= clock /\ loop'.pc # "read"
      /\ loop'.pc # "wait" => loop'.cur \in Ids
      /\ \A c \in Ids : Passed(c)' => loop'.now = loop.now /\ (c = loop.cur \/ Passed(c)) /\ loop.from = "sweep"
  BY <1>1, <1>2, AfterVisitFacts
<1>4. \A c \in Ids : Passed(c)' => loop'.now = loop.now /\ Passed(c)
  BY <1>1, <1>3 DEF Passed
<1> QED
  BY <1>1, <1>3, <1>4, ControlStep

\* A sweep begins: it has been at nobody.
LEMMA SweepBegins ==
  ASSUME setup \in Setups, NEW t \in 1..Horizon, loop' = Sweep(t)
  PROVE  /\ loop' \in LoopType /\ loop'.now = t /\ loop'.pc = "visit" /\ loop'.cur \in Ids
         /\ \A c \in Ids : ~Passed(c)'
<1>1. setup.conns \in Nat /\ setup.conns > 0 /\ Horizon \in Nat
  BY TimersAssumption
<1>2. loop' = [pc |-> "visit", from |-> "sweep", cur |-> 1, now |-> t]
  BY DEF Sweep
<1>3. loop' \in LoopType
  BY <1>1, <1>2 DEF LoopType
<1>4. loop'.now = t /\ loop'.pc = "visit" /\ loop'.cur = 1 /\ 1 \in Ids
  BY <1>1, <1>2 DEF Ids
<1>5. \A c \in Ids : ~(c < 1)
  BY <1>1 DEF Ids
<1> QED
  BY <1>3, <1>4, <1>5 DEF Passed

\* A connection is stamped when it is accepted.
LEMMA WaitAcceptsStep ==
  ASSUME TimersInv, NEW c \in Ids, WaitAccepts(c), setup' = setup
  PROVE  TimersInv'
<1>1. /\ clock' = clock /\ loop' = Sweep(clock) /\ conn[c].status = "none"
      /\ conn' = [conn EXCEPT ![c] = [conn[c] EXCEPT !.status = "open", !.last_activity = clock]]
      /\ since' = [since EXCEPT ![c] = Nothing]
  BY DEF WaitAccepts
<1>2. /\ setup \in Setups /\ clock \in 1..Horizon /\ Horizon \in Nat
      /\ conn \in [Ids -> ConnType] /\ since \in [Ids -> SinceType]
      /\ ConnOK(conn[c])
  BY Before, TimersAssumption
<1>3. /\ loop' \in LoopType /\ loop'.now = clock /\ loop'.pc = "visit" /\ loop'.cur \in Ids
      /\ \A e \in Ids : ~Passed(e)'
  BY <1>1, <1>2, SweepBegins
<1>4. conn[c] = Unborn
  BY <1>1, <1>2 DEF ConnOK
<1> DEFINE o == [conn[c] EXCEPT !.status = "open", !.last_activity = clock]
<1>5. clock' = clock /\ conn' = [conn EXCEPT ![c] = o]
  BY <1>1
<1>6. o \in ConnType /\ o.status = "open" /\ o.last_activity = clock /\ ~o.awaiting_pong
  <2>1. clock \in Times /\ conn[c] \in ConnType
    BY <1>2 DEF Times
  <2>2. ~conn[c].awaiting_pong
    BY <1>4 DEF Unborn
  <2> QED
    BY <2>1, <2>2 DEF ConnType
<1>7. Nothing \in SinceType /\ Nothing.read = 0 /\ Nothing.ping = 0 /\ Nothing.drain = 0
  BY <1>2 DEF SinceType, Nothing, Times
<1> HIDE DEF o
<1>8. conn'[c] = o /\ since'[c] = Nothing
  BY <1>1, <1>2, <1>5
<1>9. \A e \in Ids \ {c} : conn'[e] = conn[e] /\ since'[e] = since[e]
  BY <1>1, <1>2, <1>5
<1>10. conn' \in [Ids -> ConnType] /\ since' \in [Ids -> SinceType]
  BY <1>1, <1>2, <1>5, <1>6, <1>7
<1>11. ConnOK(o) /\ SinceOK(o, Nothing)
  BY <1>2, <1>6, <1>7 DEF ConnOK, SinceOK
<1>12. NotAhead(o, Nothing, clock) /\ NotBehind(o, Nothing, clock)
  BY <1>2, <1>6, <1>7 DEF NotAhead, NotBehind
<1>13. ASSUME NEW e \in Ids
       PROVE  /\ ConnOK(conn'[e]) /\ SinceOK(conn'[e], since'[e])
              /\ NotAhead(conn'[e], since'[e], clock')
              /\ setup.monotonic => NotBehind(conn'[e], since'[e], clock')
  <2>1. CASE e = c
    BY <1>5, <1>8, <1>11, <1>12, <2>1
  <2>2. CASE e # c
    <3>1. conn'[e] = conn[e] /\ since'[e] = since[e] /\ clock' = clock
      BY <1>5, <1>9, <2>2
    <3> QED
      BY <3>1, Before
  <2> QED
    BY <2>1, <2>2
<1>14. /\ ClockInv /\ clock' \in 1..Horizon /\ loop'.now <= clock' /\ loop'.pc # "read"
  BY <1>2, <1>3, <1>5, Before
<1> QED
  BY <1>3, <1>10, <1>13, <1>14, Assemble

\* A turn of the loop without events takes a unit of time.
LEMMA WaitTimesOutStep ==
  ASSUME TimersInv, WaitTimesOut, setup' = setup
  PROVE  TimersInv'
<1>1. conn' = conn /\ Elapse(1, since) /\ loop' = Sweep(clock')
  BY DEF WaitTimesOut
<1>2. /\ setup \in Setups /\ NoWrap /\ clock \in 1..Horizon /\ ClockInv
      /\ conn \in [Ids -> ConnType] /\ since \in [Ids -> SinceType]
      /\ \A c \in Ids : ConnOK(conn'[c]) /\ NotAhead(conn'[c], since[c], clock)
  BY <1>1, Before
<1>3. /\ clock' \in 1..Horizon /\ since' \in [Ids -> SinceType]
      /\ \A c \in Ids :
           /\ SinceOK(conn'[c], since'[c]) /\ NotAhead(conn'[c], since'[c], clock')
           /\ NotBehind(conn'[c], since[c], clock) => NotBehind(conn'[c], since'[c], clock')
  BY <1>1, <1>2, ElapseStep
<1>4. /\ loop' \in LoopType /\ loop'.now = clock' /\ loop'.pc = "visit" /\ loop'.cur \in Ids
      /\ \A c \in Ids : ~Passed(c)'
  BY <1>1, <1>2, <1>3, SweepBegins
<1>5. loop'.now <= clock'
  BY <1>3, <1>4
<1>6. \A c \in Ids : setup.monotonic => NotBehind(conn'[c], since'[c], clock')
  BY <1>1, <1>3, Before
<1>7. conn' \in [Ids -> ConnType] /\ \A c \in Ids : ConnOK(conn'[c])
  BY <1>1, <1>2
<1> QED
  BY <1>2, <1>3, <1>4, <1>5, <1>6, <1>7, Assemble

\* What a visit makes of one connection.
LEMMA VisitOne ==
  ASSUME setup \in Setups, NoWrap, NEW o, NEW s, ConnOK(o), SinceOK(o, s),
         NEW t \in 1..Horizon, NEW now \in 1..Horizon, now <= t, NotAhead(o, s, t),
         NEW p, p \in IF Live(o) THEN TimersOf(o, now) ELSE {o}
  PROVE  /\ ConnOK(p) /\ NotAhead(p, s, t)
         /\ NotBehind(o, s, t) => NotBehind(p, s, t)
         /\ Served(p, s, t, now, Limits)
<1>1. /\ s.read \in Times /\ s.ping \in Times /\ s.drain \in Times /\ Horizon \in Nat
      /\ o.awaiting_pong \in BOOLEAN /\ o.last_activity \in Times
      /\ ~o.awaiting_pong => s.ping = 0
      /\ o.status # "draining" => s.drain = 0
  BY TimersAssumption DEF SinceOK, SinceType, ConnOK, ConnType
<1>2. CASE ~Live(o)
  <2>1. p = o
    BY <1>2
  <2>2. ~Live(p) /\ p.status # "open" /\ p.status # "draining"
    BY <1>2, <2>1 DEF Live
  <2> QED
    BY <2>1, <2>2 DEF NotAhead, NotBehind, Served
<1>3. CASE Live(o)
  <2>1. /\ ConnOK(p) /\ p.last_activity = o.last_activity
        /\ p.awaiting_pong => \/ o.awaiting_pong /\ p.last_ping = o.last_ping
                              \/ ~o.awaiting_pong /\ p.last_ping = now
        /\ p.status = "open" => Fresh(p, now, Limits)
        /\ p.status = "draining" => o.status = "open" \/ now - o.last_activity < Limits["idle"]
    BY <1>3, TimersServe, ZenonT(40)
  <2>2. NotAhead(p, s, t)
    BY <1>3, <2>1 DEF NotAhead
  <2>3. ASSUME NotBehind(o, s, t)
        PROVE  NotBehind(p, s, t)
    <3>1. /\ o.last_activity <= t /\ s.read <= t - o.last_activity
          /\ o.awaiting_pong => o.last_ping <= t /\ s.ping <= t - o.last_ping
      BY <1>3, <2>3 DEF NotBehind
    <3>2. p.last_activity <= t /\ s.read <= t - p.last_activity
      BY <2>1, <3>1
    <3>3. ASSUME p.awaiting_pong
          PROVE  p.last_ping <= t /\ s.ping <= t - p.last_ping
      <4>1. CASE o.awaiting_pong /\ p.last_ping = o.last_ping
        BY <3>1, <4>1
      <4>2. CASE ~o.awaiting_pong /\ p.last_ping = now
        BY <1>1, <4>2
      <4> QED
        BY <2>1, <3>3, <4>1, <4>2
    <3> QED
      BY <3>2, <3>3 DEF NotBehind
  <2>4. ASSUME p.status = "draining"
        PROVE  now - p.last_activity < Limits["idle"] \/ s.drain <= t - now
    <3>1. CASE o.status = "open"
      <4>1. s.drain = 0
        BY <1>1, <3>1
      <4> QED
        BY <1>1, <4>1
    <3>2. CASE now - o.last_activity < Limits["idle"]
      BY <2>1, <3>2
    <3> QED
      BY <2>1, <2>4, <3>1, <3>2
  <2>5. Served(p, s, t, now, Limits)
    BY <2>1, <2>4 DEF Served
  <2> QED
    BY <2>1, <2>2, <2>3, <2>5
<1> QED
  BY <1>2, <1>3

\* A visit tests the timers of one connection against the stamp of its pass.
LEMMA VisitStep ==
  ASSUME TimersInv, Visit, setup' = setup
  PROVE  TimersInv'
<1> DEFINE k == loop.cur
<1>1. PICK p \in IF Live(conn[k]) THEN TimersOf(conn[k], loop.now) ELSE {conn[k]} :
        /\ conn' = [conn EXCEPT ![k] = p]
        /\ Elapse(0, since)
        /\ loop' = IF p.status = "open" /\ (loop.from = "fd" \/ ~p.upgraded)
                   THEN [loop EXCEPT !.pc = "read"] ELSE AfterVisit
  BY DEF Visit
<1>2. loop.pc = "visit"
  BY DEF Visit
<1>3. /\ setup \in Setups /\ NoWrap /\ clock \in 1..Horizon /\ ClockInv /\ loop \in LoopType
      /\ conn \in [Ids -> ConnType] /\ since \in [Ids -> SinceType]
      /\ k \in Ids /\ loop.now <= clock
  BY <1>2, Before
<1>4. loop.now \in 1..Horizon
  BY <1>3 DEF LoopType
<1>5. /\ ConnOK(p) /\ NotAhead(p, since[k], clock)
      /\ NotBehind(conn[k], since[k], clock) => NotBehind(p, since[k], clock)
      /\ Served(p, since[k], clock, loop.now, Limits)
  <2>1. ConnOK(conn[k]) /\ SinceOK(conn[k], since[k]) /\ NotAhead(conn[k], since[k], clock)
    BY <1>3, Before
  <2> QED
    BY <1>1, <1>3, <1>4, <2>1, VisitOne
<1>6. conn'[k] = p /\ \A c \in Ids : c # k => conn'[c] = conn[c]
  BY <1>1, <1>3
<1>7. conn' \in [Ids -> ConnType]
  <2>1. p \in ConnType
    BY <1>5 DEF ConnOK
  <2> QED
    BY <1>1, <1>3, <2>1
<1>8. ASSUME NEW c \in Ids
      PROVE  /\ ConnOK(conn'[c]) /\ NotAhead(conn'[c], since[c], clock)
             /\ setup.monotonic => NotBehind(conn'[c], since[c], clock)
             /\ setup.monotonic /\ (c = k \/ Passed(c)) =>
                  Served(conn'[c], since[c], clock, loop.now, Limits)
  <2>1. CASE c = k
    <3>1. setup.monotonic => NotBehind(conn[k], since[k], clock)
      BY <1>3, Before
    <3> QED
      BY <1>5, <1>6, <2>1, <3>1
  <2>2. CASE c # k
    <3>1. conn'[c] = conn[c]
      BY <1>6, <2>2
    <3> QED
      BY <2>2, <3>1, Before
  <2> QED
    BY <2>1, <2>2
<1>9. /\ clock' = clock + 0 /\ clock' \in 1..Horizon /\ since' \in [Ids -> SinceType]
      /\ \A c \in Ids :
           /\ SinceOK(conn'[c], since'[c]) /\ NotAhead(conn'[c], since'[c], clock')
           /\ NotBehind(conn'[c], since[c], clock) => NotBehind(conn'[c], since'[c], clock')
           /\ \A now \in 1..Horizon :
                Served(conn'[c], since[c], clock, now, Limits)
                => Served(conn'[c], since'[c], clock', now, Limits)
  BY <1>1, <1>3, <1>8, ElapseStep
<1>10. clock <= clock' /\ loop.now <= clock'
  BY <1>3, <1>4, <1>9, TimersAssumption
<1>11. /\ loop' \in LoopType /\ loop'.now <= clock'
       /\ loop'.pc # "wait" => loop'.cur \in Ids
       /\ loop'.pc = "read" => conn'[loop'.cur].status = "open"
       /\ \A c \in Ids : Passed(c)' => loop'.now = loop.now /\ (c = k \/ Passed(c))
  <2>1. CASE p.status = "open" /\ (loop.from = "fd" \/ ~p.upgraded)
    <3>1. loop' = [loop EXCEPT !.pc = "read"]
      BY <1>1, <2>1
    <3>2. loop' \in LoopType /\ loop'.pc = "read" /\ loop'.cur = k /\ loop'.now = loop.now
          /\ loop'.from = loop.from
      BY <1>3, <3>1 DEF LoopType
    <3>3. \A c \in Ids : Passed(c)' => c = k \/ Passed(c)
      BY <3>2 DEF Passed
    <3> QED
      BY <1>3, <1>6, <1>10, <2>1, <3>2, <3>3
  <2>2. CASE ~(p.status = "open" /\ (loop.from = "fd" \/ ~p.upgraded))
    <3>1. loop' = AfterVisit
      BY <1>1, <2>2
    <3> QED
      BY <1>2, <1>3, <1>9, <1>10, <3>1, AfterVisitFacts
  <2> QED
    BY <2>1, <2>2
<1>12. ASSUME NEW c \in Ids, setup.monotonic
       PROVE  /\ NotBehind(conn'[c], since'[c], clock')
              /\ Passed(c)' => Served(conn'[c], since'[c], clock', loop'.now, Limits)
  <2>1. NotBehind(conn'[c], since'[c], clock')
    BY <1>8, <1>9, <1>12
  <2>2. ASSUME Passed(c)'
        PROVE  Served(conn'[c], since'[c], clock', loop'.now, Limits)
    <3>1. loop'.now = loop.now /\ (c = k \/ Passed(c))
      BY <1>11, <2>2
    <3>2. Served(conn'[c], since[c], clock, loop.now, Limits)
      BY <1>8, <1>12, <3>1
    <3>3. Served(conn'[c], since'[c], clock', loop.now, Limits)
      BY <1>4, <1>9, <3>2
    <3> QED
      BY <3>1, <3>3
  <2> QED
    BY <2>1, <2>2
<1>13. \A c \in Ids : /\ ConnOK(conn'[c]) /\ SinceOK(conn'[c], since'[c])
                       /\ NotAhead(conn'[c], since'[c], clock')
  BY <1>8, <1>9
<1> QED
  BY <1>3, <1>7, <1>9, <1>11, <1>12, <1>13, Assemble

\* What a unit that is read makes of an open connection.
LEMMA ReadOne ==
  ASSUME setup \in Setups, NoWrap, clock \in 1..Horizon, NEW o, NEW s, ConnOK(o), SinceOK(o, s),
         o.status = "open", NEW u, NEW p, p = Received(o, u), NEW r, r = [s EXCEPT !.read = 0]
  PROVE  /\ ConnOK(p) /\ p.status = "open" /\ r \in SinceType /\ NotAhead(p, r, clock)
         /\ NotBehind(o, s, clock) => NotBehind(p, r, clock)
         /\ \A now \in 1..Horizon : now <= clock /\ Served(o, s, clock, now, Limits) =>
              Served(p, r, clock, now, Limits)
<1>1. /\ o \in ConnType /\ s \in SinceType /\ Horizon \in Nat
      /\ o.awaiting_pong => o.last_ping >= 1 /\ o.upgraded
      /\ clock \in Times /\ clock >= 1 /\ 0 \in Times
  BY TimersAssumption DEF ConnOK, SinceOK, Times
<1>2. /\ p.status = "open" /\ p.last_activity = clock /\ p.why = o.why
      /\ o.upgraded => p.upgraded
      /\ p.awaiting_pong => o.awaiting_pong /\ p.last_ping = o.last_ping
      /\ p \in ConnType
  <2>1. /\ (o.upgraded \/ u = "request") \in BOOLEAN /\ (o.awaiting_pong /\ u # "pong") \in BOOLEAN
        /\ (IF u = "pong" THEN 0 ELSE o.last_ping) \in Times
    BY <1>1 DEF ConnType
  <2>2. p = [o EXCEPT !.last_activity = clock, !.upgraded = o.upgraded \/ u = "request",
                      !.awaiting_pong = o.awaiting_pong /\ u # "pong",
                      !.last_ping = IF u = "pong" THEN 0 ELSE o.last_ping]
    BY DEF Received
  <2>3. p \in ConnType
    BY <1>1, <2>1, <2>2 DEF ConnType
  <2>4. /\ p.status = o.status /\ p.last_activity = clock /\ p.why = o.why
        /\ p.upgraded = (o.upgraded \/ u = "request")
        /\ p.awaiting_pong = (o.awaiting_pong /\ u # "pong")
        /\ p.last_ping = IF u = "pong" THEN 0 ELSE o.last_ping
    BY <1>1, <2>2 DEF ConnType
  <2> QED
    BY <2>3, <2>4
<1>3. r \in SinceType /\ r.read = 0 /\ r.ping = s.ping /\ r.drain = s.drain
  BY <1>1 DEF SinceType
<1>4. ConnOK(p)
  BY <1>1, <1>2 DEF ConnOK, Live
<1>5. clock - clock = 0 /\ clock <= clock
  BY <1>1 DEF Times
<1>6. NotAhead(p, r, clock)
  BY <1>2, <1>3, <1>5 DEF NotAhead
<1>7. ASSUME NotBehind(o, s, clock)
      PROVE  NotBehind(p, r, clock)
  <2>1. o.awaiting_pong => o.last_ping <= clock /\ s.ping <= clock - o.last_ping
    BY <1>7 DEF NotBehind, Live
  <2>2. p.last_activity <= clock /\ r.read <= clock - p.last_activity
    BY <1>2, <1>3, <1>5
  <2>3. p.awaiting_pong => p.last_ping <= clock /\ r.ping <= clock - p.last_ping
    BY <1>2, <1>3, <2>1
  <2> QED
    BY <2>2, <2>3 DEF NotBehind
<1>8. ASSUME NEW now \in 1..Horizon, now <= clock, Served(o, s, clock, now, Limits)
      PROVE  Served(p, r, clock, now, Limits)
  <2>1. Fresh(o, now, Limits)
    BY <1>8 DEF Served
  <2>2. now - p.last_activity <= 0
    BY <1>1, <1>2, <1>8 DEF Times
  <2>3. /\ Limits \in [Names -> Nat] /\ Limits["idle"] > 0 /\ Limits["handshake"] > 0
        /\ "ping" \in Names
    BY LimitFacts DEF Names
  <2>4. now - p.last_activity < Limits["idle"] /\ now - p.last_activity < Limits["handshake"]
    <3>1. Limits["idle"] \in Nat /\ Limits["handshake"] \in Nat /\ now - p.last_activity \in Int
      BY <1>1, <1>2, <2>3 DEF Names, Times
    <3> QED
      BY <2>2, <2>3, <3>1
  <2>5. ASSUME Limits["ping"] > 0
        PROVE  now - p.last_activity < Limits["ping"]
    <3>1. Limits["ping"] \in Nat /\ now - p.last_activity \in Int
      BY <1>1, <1>2, <2>3 DEF Times
    <3> QED
      BY <2>2, <2>5, <3>1
  <2>6. ASSUME p.awaiting_pong, Limits["ping"] > 0
        PROVE  now - p.last_ping < Limits["pong"]
    <3>1. o.awaiting_pong /\ o.upgraded /\ p.last_ping = o.last_ping
      BY <1>1, <1>2, <2>6
    <3> QED
      BY <2>1, <2>6, <3>1 DEF Fresh
  <2>7. Fresh(p, now, Limits)
    BY <2>4, <2>5, <2>6 DEF Fresh
  <2> QED
    BY <1>2, <2>7 DEF Served
<1> QED
  BY <1>2, <1>3, <1>4, <1>6, <1>7, <1>8

\* A unit that ends the connection begins a drain now, or leaves nothing to wait for.
LEMMA ReadEnded ==
  ASSUME clock \in 1..Horizon, NEW o, NEW s, ConnOK(o), o.status = "open",
         s \in SinceType, s.drain = 0, NotAhead(o, s, clock),
         NEW u, NEW p \in Ended(o, u)
  PROVE  /\ ConnOK(p) /\ NotAhead(p, s, clock) /\ p.status # "open"
         /\ p.status = "draining" => p.why = "read"
         /\ p.why = "read"
         /\ NotBehind(o, s, clock) => NotBehind(p, s, clock)
         /\ \A now \in 1..Horizon : now <= clock => Served(p, s, clock, now, Limits)
<1>1. o \in ConnType /\ Horizon \in Nat
  BY TimersAssumption DEF ConnOK
<1>2. \/ p = [o EXCEPT !.status = "closed", !.why = "read"]
      \/ o.upgraded /\ p = [o EXCEPT !.status = "draining", !.why = "read"]
  BY DEF Ended, CloseWithCode, Closed
<1>3. /\ p \in ConnType /\ p.why = "read" /\ p.upgraded = o.upgraded
      /\ p.last_activity = o.last_activity /\ p.last_ping = o.last_ping
      /\ p.awaiting_pong = o.awaiting_pong
      /\ p.status = "closed" \/ (p.status = "draining" /\ o.upgraded)
  BY <1>1, <1>2 DEF ConnType
<1>4. ConnOK(p)
  BY <1>3 DEF ConnOK, Live
<1>5. NotAhead(p, s, clock) /\ (NotBehind(o, s, clock) => NotBehind(p, s, clock))
  BY <1>3 DEF NotAhead, NotBehind, Live
<1>6. ASSUME NEW now \in 1..Horizon, now <= clock
      PROVE  Served(p, s, clock, now, Limits)
  <2>1. s.drain <= clock - now
    BY <1>1, <1>6
  <2> QED
    BY <1>3, <2>1 DEF Served
<1> QED
  BY <1>3, <1>4, <1>5, <1>6

\* recv() stamps the connection before the callback takes its time.
LEMMA ReadUnitStep ==
  ASSUME TimersInv, ReadUnit, setup' = setup
  PROVE  TimersInv'
<1> DEFINE k == loop.cur
           u == Head(inbox[k].rx)
           before == [since EXCEPT ![k].read = 0]
           rec == Received(conn[k], u)
<1>0. PICK o \in {rec} \cup Ended(rec, u) :
        /\ conn' = [conn EXCEPT ![k] = o]
        /\ \E d \in 0..(IF u \in {"request", "message"} THEN setup.callback_time ELSE 0) : Elapse(d, before)
        /\ loop' = IF u = "request" \/ o.status # "open" THEN AfterVisit ELSE loop
  BY DEF ReadUnit
<1>1. /\ loop.pc = "read"
      /\ conn' = [conn EXCEPT ![k] = o]
      /\ \E d \in 0..(IF u \in {"request", "message"} THEN setup.callback_time ELSE 0) : Elapse(d, before)
      /\ loop' = IF u = "request" \/ o.status # "open" THEN AfterVisit ELSE loop
  BY <1>0 DEF ReadUnit
<1>2. PICK d \in Nat : Elapse(d, before)
  <2>1. setup.callback_time \in Nat
    BY TimersAssumption, Before
  <2> QED
    BY <1>1, <2>1
<1>3. /\ setup \in Setups /\ NoWrap /\ clock \in 1..Horizon /\ ClockInv /\ loop \in LoopType
      /\ conn \in [Ids -> ConnType] /\ since \in [Ids -> SinceType]
      /\ k \in Ids /\ loop.now <= clock /\ conn[k].status = "open"
  BY <1>1, Before
<1>4. loop.now \in 1..Horizon
  BY <1>3 DEF LoopType
<1>5. conn'[k] = o /\ \A c \in Ids : c # k => conn'[c] = conn[c]
  BY <1>1, <1>3
<1>6. before[k] = [since[k] EXCEPT !.read = 0] /\ \A c \in Ids : c # k => before[c] = since[c]
  BY <1>3
<1>7. before = [since EXCEPT ![k] = before[k]]
  BY <1>3
<1> HIDE DEF before, u, rec
<1>8. /\ ConnOK(conn'[k]) /\ before[k] \in SinceType
      /\ NotAhead(conn'[k], before[k], clock)
      /\ NotBehind(conn[k], since[k], clock) => NotBehind(conn'[k], before[k], clock)
      /\ \A now \in 1..Horizon : now <= clock /\ Served(conn[k], since[k], clock, now, Limits) =>
           Served(conn'[k], before[k], clock, now, Limits)
  <2>1. ConnOK(conn[k]) /\ SinceOK(conn[k], since[k])
    BY <1>3, Before
  <2>2. /\ ConnOK(rec) /\ rec.status = "open" /\ before[k] \in SinceType
        /\ NotAhead(rec, before[k], clock)
        /\ NotBehind(conn[k], since[k], clock) => NotBehind(rec, before[k], clock)
        /\ \A now \in 1..Horizon : now <= clock /\ Served(conn[k], since[k], clock, now, Limits) =>
             Served(rec, before[k], clock, now, Limits)
    BY <1>3, <1>6, <2>1, ReadOne DEF rec
  <2>3. CASE o = rec
    BY <1>5, <2>2, <2>3
  <2>4. CASE o \in Ended(rec, u)
    <3>1. before[k].drain = 0
      BY <1>3, <1>6, <2>1 DEF SinceOK, SinceType
    <3>2. /\ ConnOK(o) /\ NotAhead(o, before[k], clock)
          /\ NotBehind(rec, before[k], clock) => NotBehind(o, before[k], clock)
          /\ \A now \in 1..Horizon : now <= clock => Served(o, before[k], clock, now, Limits)
      BY <1>3, <2>2, <2>4, <3>1, ReadEnded
    <3> QED
      BY <1>5, <2>2, <3>2
  <2> QED
    BY <1>0, <2>3, <2>4
<1>9. conn' \in [Ids -> ConnType] /\ before \in [Ids -> SinceType]
  <2>1. conn'[k] \in ConnType
    BY <1>8 DEF ConnOK
  <2>2. conn' = [conn EXCEPT ![k] = conn'[k]]
    BY <1>1, <1>5
  <2> QED
    BY <1>3, <1>7, <1>8, <2>1, <2>2
<1>10. ASSUME NEW c \in Ids
       PROVE  /\ ConnOK(conn'[c]) /\ NotAhead(conn'[c], before[c], clock)
              /\ setup.monotonic => NotBehind(conn'[c], before[c], clock)
              /\ setup.monotonic /\ Passed(c) =>
                   Served(conn'[c], before[c], clock, loop.now, Limits)
  <2>1. CASE c = k
    <3>1. /\ setup.monotonic => NotBehind(conn[k], since[k], clock)
          /\ setup.monotonic /\ Passed(k) => Served(conn[k], since[k], clock, loop.now, Limits)
      BY <1>3, Before
    <3> QED
      BY <1>3, <1>4, <1>8, <2>1, <3>1
  <2>2. CASE c # k
    <3>1. conn'[c] = conn[c] /\ before[c] = since[c]
      BY <1>5, <1>6, <2>2
    <3> QED
      BY <3>1, Before
  <2> QED
    BY <2>1, <2>2
<1>11. /\ clock' = clock + d /\ clock' \in 1..Horizon /\ since' \in [Ids -> SinceType]
       /\ \A c \in Ids :
            /\ SinceOK(conn'[c], since'[c]) /\ NotAhead(conn'[c], since'[c], clock')
            /\ NotBehind(conn'[c], before[c], clock) => NotBehind(conn'[c], since'[c], clock')
            /\ \A now \in 1..Horizon :
                 Served(conn'[c], before[c], clock, now, Limits)
                 => Served(conn'[c], since'[c], clock', now, Limits)
  BY <1>2, <1>3, <1>9, <1>10, ElapseStep
<1>12. clock <= clock' /\ loop.now <= clock'
  BY <1>3, <1>4, <1>11, TimersAssumption
<1>13. /\ loop' \in LoopType /\ loop'.now <= clock'
       /\ loop'.pc # "wait" => loop'.cur \in Ids
       /\ loop'.pc = "read" => conn'[loop'.cur].status = "open"
       /\ \A c \in Ids : Passed(c)' => loop'.now = loop.now /\ Passed(c)
  <2>1. CASE loop' = AfterVisit
    <3>1. /\ loop' \in LoopType /\ loop'.now <= clock' /\ loop'.pc # "read"
          /\ loop'.pc # "wait" => loop'.cur \in Ids
          /\ \A c \in Ids : Passed(c)' => loop'.now = loop.now /\ (c = k \/ Passed(c)) /\ loop.from = "sweep"
      BY <1>1, <1>3, <1>11, <1>12, <2>1, AfterVisitFacts
    <3>2. loop.from = "sweep" => Passed(k)
      BY <1>1 DEF Passed
    <3> QED
      BY <3>1, <3>2
  <2>2. CASE loop' = loop
    <3>1. \A c \in Ids : Passed(c)' => Passed(c)
      BY <2>2 DEF Passed
    <3>2. CASE loop' = AfterVisit
      BY <2>1, <3>2
    <3>3. CASE conn'[k].status = "open"
      BY <1>3, <1>8, <1>12, <2>2, <3>1, <3>3
    <3> QED
      BY <1>1, <1>5, <3>2, <3>3
  <2> QED
    BY <1>1, <2>1, <2>2
<1>14. ASSUME NEW c \in Ids, setup.monotonic
       PROVE  /\ NotBehind(conn'[c], since'[c], clock')
              /\ Passed(c)' => Served(conn'[c], since'[c], clock', loop'.now, Limits)
  <2>1. NotBehind(conn'[c], since'[c], clock')
    BY <1>10, <1>11, <1>14
  <2>2. ASSUME Passed(c)'
        PROVE  Served(conn'[c], since'[c], clock', loop'.now, Limits)
    <3>1. loop'.now = loop.now /\ Passed(c)
      BY <1>13, <2>2
    <3>2. Served(conn'[c], before[c], clock, loop.now, Limits)
      BY <1>10, <1>14, <3>1
    <3>3. Served(conn'[c], since'[c], clock', loop.now, Limits)
      BY <1>4, <1>11, <3>2
    <3> QED
      BY <3>1, <3>3
  <2> QED
    BY <2>1, <2>2
<1>15. \A c \in Ids : /\ ConnOK(conn'[c]) /\ SinceOK(conn'[c], since'[c])
                       /\ NotAhead(conn'[c], since'[c], clock')
  BY <1>10, <1>11
<1> QED
  BY <1>3, <1>9, <1>11, <1>13, <1>14, <1>15, Assemble

-----------------------------------------------------------------------------
(* Answers count. *)

\* What there is to show of a step.
LEMMA AssemblePrompt ==
  ASSUME setup' = setup, inbox' \in [Ids -> InboxType],
         \A c \in Ids : conn'[c].status = "draining" => conn'[c].why # "none",
         setup.callback_time = 0 /\ loop'.pc # "wait" => loop'.now = clock',
         \A c \in Ids : setup.callback_time = 0 =>
            /\ Prompt(conn'[c], since'[c], inbox'[c].rx, clock', Limits)
            /\ Passed(c)' => Unhurried(conn'[c], clock', Limits)
  PROVE  PromptInv'
<1>1. Ids' = Ids /\ Limits' = Limits
  BY SetupKept
<1>2. setup'.callback_time = 0 => setup.callback_time = 0
  OBVIOUS
<1> QED
  BY <1>1, <1>2 DEF PromptInv

\* What a step starts from.
LEMMA BeforePrompt ==
  ASSUME PromptInv
  PROVE  /\ inbox \in [Ids -> InboxType]
         /\ \A c \in Ids : conn[c].status = "draining" => conn[c].why # "none"
         /\ setup.callback_time = 0 /\ loop.pc # "wait" => loop.now = clock
         /\ \A c \in Ids : setup.callback_time = 0 =>
               /\ Prompt(conn[c], since[c], inbox[c].rx, clock, Limits)
               /\ Passed(c) => Unhurried(conn[c], clock, Limits)
  BY DEF PromptInv

\* The fields of a connection that count here.
LEMMA Fields ==
  ASSUME NEW o, ConnOK(o), NEW s \in SinceType
  PROVE  /\ o.last_activity \in Int /\ o.last_ping \in Int /\ s.ping \in Int /\ s.ping >= 0
         /\ s.ping <= Horizon /\ Horizon \in Nat
         /\ o.awaiting_pong \in BOOLEAN /\ o.upgraded \in BOOLEAN /\ s.answered \in BOOLEAN
         /\ Live(o) => o.last_activity >= 1
         /\ o.awaiting_pong => o.last_ping >= 1
<1>1. Horizon \in Nat /\ Times \subseteq Int /\ \A x \in Times : x >= 0 /\ x <= Horizon
  BY TimersAssumption DEF Times
<1>2. o \in ConnType
  BY DEF ConnOK
<1>3. /\ o.last_activity \in Times /\ o.last_ping \in Times /\ s.ping \in Times
      /\ o.awaiting_pong \in BOOLEAN /\ o.upgraded \in BOOLEAN /\ s.answered \in BOOLEAN
  BY <1>2 DEF ConnType, SinceType
<1>4. (Live(o) => o.last_activity >= 1) /\ (o.awaiting_pong => o.last_ping >= 1)
  BY DEF ConnOK
<1> QED
  BY <1>1, <1>3, <1>4

\* A unit of time passes while no open connection has anything to read.
LEMMA PromptAges ==
  ASSUME NEW o, ConnOK(o), NEW s \in SinceType, NEW t \in 1..Horizon, NEW d \in Nat,
         t + d <= Horizon, NEW rx, NEW limits \in [Names -> Nat], Prompt(o, s, rx, t, limits),
         NEW r, r = Aged(s, o, d),
         d = 0 \/ ((o.status = "open" => ~PongWaits(rx)) /\ Unhurried(o, t, limits) /\ d = 1)
  PROVE  Prompt(o, r, rx, t + d, limits)
<1> SUFFICES ASSUME o.status = "open"
             PROVE  Prompt(o, r, rx, t + d, limits)
  BY DEF Prompt
<1>1. /\ o.last_activity \in Int /\ o.last_ping \in Int /\ s.ping \in Int /\ s.ping >= 0
      /\ s.ping <= Horizon /\ Horizon \in Nat
      /\ o.awaiting_pong \in BOOLEAN /\ o.upgraded \in BOOLEAN /\ s.answered \in BOOLEAN
      /\ o.last_activity >= 1 /\ (o.awaiting_pong => o.last_ping >= 1)
  BY Fields DEF Live
<1>2. r.answered => s.answered /\ o.awaiting_pong
  BY DEF Aged, Live
<1>3. o.awaiting_pong => r.ping = Later(s.ping, d)
  BY DEF Aged, Live
<1>4. Later(s.ping, d) = s.ping + d \/ (Later(s.ping, d) = Horizon /\ s.ping + d > Horizon)
  BY <1>1 DEF Later
<1>5. limits["ping"] \in Nat /\ limits["pong"] \in Nat
  BY DEF Names
<1>6. ASSUME r.answered
      PROVE  o.awaiting_pong /\ PongWaits(rx) /\ r.ping < limits["pong"]
  <2>1. o.awaiting_pong /\ PongWaits(rx) /\ s.ping < limits["pong"]
    BY <1>2, <1>6 DEF Prompt
  <2>2. d = 0
    BY <2>1
  <2>3. r.ping = s.ping
    BY <1>1, <1>3, <1>4, <2>1, <2>2
  <2> QED
    BY <2>1, <2>3
<1>7. ASSUME o.awaiting_pong
      PROVE  /\ (t + d) - o.last_ping <= r.ping
             /\ (t + d) - o.last_activity <= r.ping + limits["ping"]
  <2>1. t - o.last_ping <= s.ping /\ t - o.last_activity <= s.ping + limits["ping"]
    BY <1>7 DEF Prompt
  <2> QED
    BY <1>1, <1>3, <1>4, <1>5, <1>7, <2>1
<1>8. ASSUME o.upgraded, ~o.awaiting_pong, limits["ping"] > 0
      PROVE  (t + d) - o.last_activity <= limits["ping"]
  <2>1. CASE d = 0
    BY <1>1, <1>8, <2>1 DEF Prompt
  <2>2. CASE d = 1 /\ Unhurried(o, t, limits)
    <3>1. t - o.last_activity < limits["ping"]
      BY <1>8, <2>2 DEF Unhurried
    <3> QED
      BY <1>1, <1>5, <2>2, <3>1
  <2> QED
    BY <2>1, <2>2
<1> QED
  BY <1>6, <1>7, <1>8 DEF Prompt

\* Nothing is due at an earlier time that is not due later.
LEMMA PutOff ==
  ASSUME NEW o, ConnOK(o), NEW s \in SinceType, NEW rx, NEW limits \in [Names -> Nat],
         NEW t \in Int, NEW t2 \in Int, t2 <= t
  PROVE  /\ Prompt(o, s, rx, t, limits) => Prompt(o, s, rx, t2, limits)
         /\ Unhurried(o, t, limits) => Unhurried(o, t2, limits)
<1>1. o.last_activity \in Int /\ o.last_ping \in Int /\ s.ping \in Int
  BY Fields
<1>2. limits["ping"] \in Nat /\ limits["pong"] \in Nat
  BY DEF Names
<1>3. \A b \in Int : /\ t - o.last_ping <= b => t2 - o.last_ping <= b
                     /\ t - o.last_activity <= b => t2 - o.last_activity <= b
                     /\ t - o.last_activity < b => t2 - o.last_activity < b
  BY <1>1
<1>4. s.ping \in Int /\ s.ping + limits["ping"] \in Int /\ limits["ping"] \in Int
  BY <1>1, <1>2
<1>5. Prompt(o, s, rx, t, limits) => Prompt(o, s, rx, t2, limits)
  BY <1>3, <1>4 DEF Prompt
<1>6. Unhurried(o, t, limits) => Unhurried(o, t2, limits)
  BY <1>3, <1>4 DEF Unhurried
<1> QED
  BY <1>5, <1>6

\* A clock that is set back puts every timer off.
LEMMA ClockSetBackPrompt ==
  ASSUME TimersInv, PromptInv, ClockSetBack, setup' = setup
  PROVE  PromptInv'
<1>1. /\ loop.pc = "wait" /\ clock' = clock - 1
      /\ loop' = loop /\ conn' = conn /\ inbox' = inbox /\ since' = since
  BY DEF ClockSetBack
<1>2. clock \in Int /\ Limits \in [Names -> Nat]
  BY Before, LimitFacts
<1>3. ASSUME setup.callback_time = 0, NEW c \in Ids
      PROVE  Prompt(conn[c], since[c], inbox[c].rx, clock', Limits) /\ Unhurried(conn[c], clock', Limits)
  <2>1. Prompt(conn[c], since[c], inbox[c].rx, clock, Limits) /\ Unhurried(conn[c], clock, Limits)
    BY <1>1, <1>3, BeforePrompt DEF Passed
  <2>2. ConnOK(conn[c]) /\ since[c] \in SinceType /\ clock' \in Int /\ clock' <= clock
    BY <1>1, <1>2, Before
  <2> QED
    BY <1>2, <2>1, <2>2, PutOff
<1> QED
  BY <1>1, <1>3, BeforePrompt, AssemblePrompt

\* A pong that arrives in time is an answer, and waits in the socket.
LEMMA PeerSendsPrompt ==
  ASSUME TimersInv, PromptInv, NEW c \in Ids, PeerSends(c), setup' = setup
  PROVE  PromptInv'
<1>1. PICK u \in Units :
        /\ inbox' = [inbox EXCEPT ![c] = [rx |-> Append(inbox[c].rx, u), left |-> inbox[c].left - 1]]
        /\ since' = [since EXCEPT ![c].answered =
                       since[c].answered \/ (/\ u = "pong" /\ conn[c].awaiting_pong
                                             /\ since[c].ping < Declared("pong"))]
  BY DEF PeerSends
<1>2. clock' = clock /\ loop' = loop /\ conn' = conn /\ inbox[c].left > 0
  BY DEF PeerSends
<1>3. /\ inbox \in [Ids -> InboxType] /\ since \in [Ids -> SinceType]
      /\ setup \in Setups /\ NoWrap
  BY Before, BeforePrompt
<1>4. inbox[c].rx \in Seq(Units) /\ inbox[c].left \in Nat
  BY <1>3 DEF InboxType
<1> DEFINE box == [rx |-> Append(inbox[c].rx, u), left |-> inbox[c].left - 1]
<1>5. box \in InboxType
  <2>1. Append(inbox[c].rx, u) \in Seq(Units) /\ inbox[c].left - 1 \in Nat
    BY <1>2, <1>4
  <2> QED
    BY <2>1 DEF InboxType
<1>6. inbox' \in [Ids -> InboxType] /\ inbox'[c] = box /\ \A e \in Ids \ {c} : inbox'[e] = inbox[e]
  <2>1. inbox' = [inbox EXCEPT ![c] = box]
    BY <1>1
  <2> QED
    BY <1>3, <1>5, <2>1
<1>7. /\ \A e \in Ids \ {c} : since'[e] = since[e]
      /\ since'[c].ping = since[c].ping
      /\ since'[c].answered => since[c].answered \/ (/\ u = "pong" /\ conn[c].awaiting_pong
                                                     /\ since[c].ping < Declared("pong"))
  BY <1>1, <1>3 DEF SinceType
<1>8. PongWaits(inbox[c].rx) \/ u = "pong" => PongWaits(inbox'[c].rx)
  <2>1. /\ inbox'[c].rx = Append(inbox[c].rx, u)
        /\ DOMAIN inbox'[c].rx = 1..(Len(inbox[c].rx) + 1) /\ Len(inbox[c].rx) \in Nat
        /\ inbox'[c].rx[Len(inbox[c].rx) + 1] = u
        /\ DOMAIN inbox[c].rx = 1..Len(inbox[c].rx)
        /\ \A i \in 1..Len(inbox[c].rx) : inbox'[c].rx[i] = inbox[c].rx[i]
    BY <1>4, <1>6
  <2>2. CASE u = "pong"
    <3>1. Len(inbox[c].rx) + 1 \in DOMAIN inbox'[c].rx
      BY <2>1
    <3> QED
      BY <2>1, <2>2, <3>1 DEF PongWaits
  <2>3. CASE PongWaits(inbox[c].rx)
    <3>1. PICK i \in DOMAIN inbox[c].rx : inbox[c].rx[i] = "pong"
      BY <2>3 DEF PongWaits
    <3>2. i \in DOMAIN inbox'[c].rx /\ inbox'[c].rx[i] = "pong"
      BY <2>1, <3>1
    <3> QED
      BY <3>2 DEF PongWaits
  <2> QED
    BY <2>2, <2>3
<1>9. Declared("pong") = Limits["pong"]
  BY <1>3, LimitFacts DEF Names
<1>10. ASSUME setup.callback_time = 0, NEW e \in Ids
       PROVE  Prompt(conn[e], since'[e], inbox'[e].rx, clock, Limits)
  <2>1. Prompt(conn[e], since[e], inbox[e].rx, clock, Limits)
    BY <1>10, BeforePrompt
  <2>2. CASE e # c
    BY <1>6, <1>7, <2>1, <2>2
  <2>3. CASE e = c
    <3>1. ASSUME conn[c].status = "open", since'[c].answered
          PROVE  conn[c].awaiting_pong /\ PongWaits(inbox'[c].rx) /\ since'[c].ping < Limits["pong"]
      <4>1. CASE since[c].answered
        BY <1>7, <1>8, <2>1, <2>3, <3>1, <4>1 DEF Prompt
      <4>2. CASE /\ u = "pong" /\ conn[c].awaiting_pong /\ since[c].ping < Declared("pong")
        BY <1>7, <1>8, <1>9, <4>2
      <4> QED
        BY <1>7, <3>1, <4>1, <4>2
    <3> QED
      BY <1>7, <2>1, <2>3, <3>1 DEF Prompt
  <2> QED
    BY <2>2, <2>3
<1>11. \A e \in Ids : Passed(e)' => Passed(e)
  BY <1>2 DEF Passed
<1> QED
  BY <1>2, <1>6, <1>10, <1>11, BeforePrompt, AssemblePrompt

\* What the timers leave open they left alone or pinged, and why they close.
LEMMA TimersReasons ==
  ASSUME setup \in Setups, NoWrap, NEW o, ConnOK(o), Live(o), NEW now \in 1..Horizon,
         NEW p \in TimersOf(o, now)
  PROVE  /\ p.status = "open" => /\ o.status = "open"
                                 /\ \/ p = o
                                    \/ p = Pinged(o, now) /\ ~o.awaiting_pong /\ Limits["ping"] > 0
         /\ p.status = "draining" => p = o \/ p.why # "none"
         /\ o.why = "none" /\ p.why = "pong timeout" =>
              o.awaiting_pong /\ now - o.last_ping >= Limits["pong"]
<1>1. Timeout("ping") = Limits["ping"] /\ Timeout("pong") = Limits["pong"] /\ Limits["pong"] \in Nat
  BY LimitFacts DEF Names
<1>2. o \in ConnType /\ o.status \in {"open", "draining"} /\ o.last_ping \in Times
  BY DEF ConnOK, ConnType, Live
<1>3. CASE Expired(o, now)
  <2>1. PICK st \in {"draining", "closed"}, w \in {"idle timeout", "handshake timeout"} :
          p = EndedAs(o, st, w)
    BY <1>3 DEF TimersOf, CloseExpired, CloseWithCode, Closed, EndedAs
  <2>2. p.status = st /\ p.why = w
    BY <1>2, <2>1 DEF EndedAs, ConnType
  <2> QED
    BY <2>2
<1>4. CASE ~Expired(o, now)
  <2>1. PICK q \in Heartbeat(o, now) : p \in Flush(q)
    BY <1>4 DEF TimersOf
  <2>2. CASE q = o
    <3>1. p = o \/ (o.status = "draining" /\ p = Closed(o, o.why))
      BY <2>1, <2>2 DEF Flush
    <3>2. p = Closed(o, o.why) => p.status = "closed" /\ p.why = o.why
      BY <1>2 DEF Closed, ConnType
    <3> QED
      BY <3>1, <3>2
  <2>3. CASE q = Pinged(o, now) /\ ~o.awaiting_pong /\ HasHeartbeat(o)
    <3>1. o.status = "open" /\ Limits["ping"] > 0
      BY <1>1, <2>3 DEF HasHeartbeat
    <3>2. q.status = "open" /\ q.why = o.why
      BY <1>2, <2>3, <3>1 DEF Pinged, ConnType
    <3>3. p = q
      BY <2>1, <3>2 DEF Flush
    <3> QED
      BY <2>3, <3>1, <3>2, <3>3
  <2>4. ASSUME NEW w \in {"pong timeout", "heartbeat failed"}, q \in CloseWithCode(o, w)
        PROVE  p.status \in {"draining", "closed"} /\ p.why = w
    <3>1. q.status \in {"draining", "closed"} /\ q.why = w /\ q \in ConnType
      BY <1>2, <2>4 DEF CloseWithCode, Closed, ConnType
    <3>2. p = q \/ p = Closed(q, w)
      BY <2>1, <3>1 DEF Flush
    <3> QED
      BY <3>1, <3>2 DEF Closed, ConnType
  <2>5. CASE q \in CloseWithCode(o, "heartbeat failed")
    BY <2>4, <2>5
  <2>6. CASE q \in CloseWithCode(o, "pong timeout") /\ o.awaiting_pong /\ PongLate(o, now)
    <3>0. now \in Times
      BY TimersAssumption DEF Times
    <3>1. Minus(now, o.last_ping) >= Limits["pong"] /\ now >= o.last_ping /\ now \in Times
      BY <1>1, <2>6, <3>0 DEF PongLate
    <3>2. now - o.last_ping >= Limits["pong"]
      BY <1>2, <3>1, Differences
    <3> QED
      BY <2>4, <2>6, <3>2
  <2> QED
    BY <2>2, <2>3, <2>5, <2>6 DEF Heartbeat
<1> QED
  BY <1>3, <1>4

\* The heartbeat pings in time, and closes nobody whose answer waits.
LEMMA PromptVisit ==
  ASSUME setup \in Setups, NoWrap, NEW o, NEW s, ConnOK(o), SinceOK(o, s), NEW rx,
         NEW t \in 1..Horizon, Prompt(o, s, rx, t, Limits),
         NEW p, p \in IF Live(o) THEN TimersOf(o, t) ELSE {o}
  PROVE  Prompt(p, s, rx, t, Limits) /\ Unhurried(p, t, Limits)
<1> SUFFICES ASSUME p.status = "open"
             PROVE  Prompt(p, s, rx, t, Limits) /\ Unhurried(p, t, Limits)
  BY DEF Prompt, Unhurried
<1>1. Live(o)
  BY DEF Live
<1>2. p \in TimersOf(o, t)
  BY <1>1
<1>3. /\ o.status = "open"
      /\ \/ p = o
         \/ p = Pinged(o, t) /\ ~o.awaiting_pong /\ Limits["ping"] > 0
  BY <1>1, <1>2, TimersReasons
<1>4. Fresh(p, t, Limits) /\ ConnOK(p)
  BY <1>1, <1>2, TimersServe
<1>5. Unhurried(p, t, Limits)
  BY <1>4 DEF Fresh, Unhurried
<1>6. Prompt(p, s, rx, t, Limits)
  <2>1. CASE p = o
    BY <2>1
  <2>2. CASE p = Pinged(o, t) /\ ~o.awaiting_pong /\ Limits["ping"] > 0
    <3>1. o \in ConnType /\ t \in Int /\ s.ping = 0
      BY <2>2 DEF ConnOK, SinceOK
    <3>2. p.awaiting_pong /\ p.last_ping = t /\ p.last_activity = o.last_activity /\ p.upgraded = o.upgraded
      BY <2>2, <3>1 DEF Pinged, ConnType
    <3>3. o.upgraded
      BY <1>4, <3>2 DEF ConnOK
    <3>4. ~s.answered /\ t - o.last_activity <= Limits["ping"]
      BY <1>3, <2>2, <3>3 DEF Prompt
    <3>5. o.last_activity \in Int /\ Limits["ping"] \in Int
      <4>1. Limits["ping"] \in Nat
        BY LimitFacts DEF Names
      <4>2. s \in SinceType
        BY DEF SinceOK
      <4> QED
        BY <4>1, <4>2, Fields
    <3>6. t - p.last_ping <= s.ping /\ t - p.last_activity <= s.ping + Limits["ping"]
      BY <3>1, <3>2, <3>4, <3>5
    <3> QED
      BY <3>2, <3>4, <3>6 DEF Prompt
  <2> QED
    BY <1>3, <2>1, <2>2
<1> QED
  BY <1>5, <1>6

\* A unit is read: the answer is taken, or still waits.
LEMMA PromptRead ==
  ASSUME setup \in Setups, NoWrap, clock \in 1..Horizon, NEW o, NEW s, ConnOK(o), SinceOK(o, s),
         o.status = "open", NEW rx \in Seq(Units), rx # <<>>, Prompt(o, s, rx, clock, Limits),
         NEW p, p = Received(o, Head(rx)), NEW r, r = Aged([s EXCEPT !.read = 0], p, 0)
  PROVE  Prompt(p, r, Tail(rx), clock, Limits) /\ Unhurried(p, clock, Limits)
<1> DEFINE u == Head(rx)
<1>1. /\ o \in ConnType /\ s \in SinceType /\ s.ping \in Int /\ s.ping >= 0 /\ s.ping <= Horizon
      /\ Horizon \in Nat /\ o.last_ping \in Int /\ o.awaiting_pong \in BOOLEAN
  BY Fields DEF ConnOK, SinceOK
<1>2. /\ p.status = "open" /\ p.last_activity = clock
      /\ p.last_ping = IF u = "pong" THEN 0 ELSE o.last_ping
  BY <1>1 DEF Received, ConnType
<1>3. p.awaiting_pong = (o.awaiting_pong /\ u # "pong")
  BY <1>1 DEF Received, ConnType
<1>4. [s EXCEPT !.read = 0].ping = s.ping /\ [s EXCEPT !.read = 0].answered = s.answered
  BY <1>1 DEF SinceType
<1>5. Live(p)
  BY <1>2 DEF Live
<1>6. p.awaiting_pong => r.ping = s.ping
  <2>1. p.awaiting_pong => r.ping = Later(s.ping, 0)
    BY <1>4, <1>5 DEF Aged
  <2> QED
    BY <1>1, <2>1 DEF Later
<1>7. r.answered => s.answered /\ p.awaiting_pong
  BY <1>4, <1>5 DEF Aged
<1>8. Limits["ping"] \in Nat /\ clock - clock = 0
  BY LimitFacts DEF Names
<1>9. ASSUME r.answered
      PROVE  p.awaiting_pong /\ PongWaits(Tail(rx)) /\ r.ping < Limits["pong"]
  <2>1. p.awaiting_pong /\ s.answered /\ u # "pong"
    BY <1>3, <1>7, <1>9
  <2>2. PongWaits(rx) /\ s.ping < Limits["pong"]
    BY <2>1 DEF Prompt
  <2>3. PICK i \in DOMAIN rx : rx[i] = "pong"
    BY <2>2 DEF PongWaits
  <2>4. Len(rx) \in Nat /\ DOMAIN rx = 1..Len(rx) /\ rx[1] = u
    OBVIOUS
  <2>5. i # 1 /\ i \in 1..Len(rx)
    BY <2>1, <2>3, <2>4
  <2>6. DOMAIN Tail(rx) = 1..(Len(rx) - 1) /\ \A j \in 1..(Len(rx) - 1) : Tail(rx)[j] = rx[j + 1]
    OBVIOUS
  <2>7. i - 1 \in DOMAIN Tail(rx) /\ Tail(rx)[i - 1] = "pong"
    BY <2>3, <2>4, <2>5, <2>6
  <2> QED
    BY <1>6, <2>1, <2>2, <2>7 DEF PongWaits
<1>10. ASSUME p.awaiting_pong
       PROVE  clock - p.last_ping <= r.ping /\ clock - p.last_activity <= r.ping + Limits["ping"]
  <2>1. o.awaiting_pong /\ p.last_ping = o.last_ping
    BY <1>2, <1>3, <1>10
  <2>2. clock - o.last_ping <= s.ping
    BY <2>1 DEF Prompt
  <2> QED
    BY <1>1, <1>2, <1>6, <1>8, <1>10, <2>1, <2>2
<1>11. Prompt(p, r, Tail(rx), clock, Limits)
  BY <1>2, <1>8, <1>9, <1>10 DEF Prompt
<1>12. Unhurried(p, clock, Limits)
  BY <1>2, <1>8 DEF Unhurried
<1> QED
  BY <1>11, <1>12

\* After a visit the stamp is the clock's, if no time has passed.
LEMMA AfterVisitStamp ==
  ASSUME loop \in LoopType, loop.now = clock, clock' = clock, loop' = AfterVisit
  PROVE  loop'.now = clock'
<1>1. CASE loop.from = "fd"
  BY <1>1 DEF AfterVisit, Sweep
<1>2. CASE loop.from # "fd"
  BY <1>2 DEF AfterVisit, LoopType
<1> QED
  BY <1>1, <1>2

\* A ready descriptor is visited at once.
LEMMA WaitReportsPrompt ==
  ASSUME TimersInv, PromptInv, NEW c \in Ids, WaitReports(c), setup' = setup
  PROVE  PromptInv'
<1>1. /\ clock' = clock /\ conn' = conn /\ inbox' = inbox /\ since' = since
      /\ loop' = [pc |-> "visit", from |-> "fd", cur |-> c, now |-> clock]
  BY DEF WaitReports
<1>2. loop'.now = clock /\ \A e \in Ids : ~Passed(e)'
  BY <1>1 DEF Passed
<1> QED
  BY <1>1, <1>2, BeforePrompt, AssemblePrompt

\* The end of a read is the end of the visit, and nothing is left in the socket.
LEMMA ReadEndsPrompt ==
  ASSUME TimersInv, PromptInv, ReadEnds, setup' = setup
  PROVE  PromptInv'
<1>1. /\ clock' = clock /\ conn' = conn /\ inbox' = inbox /\ since' = since
      /\ loop' = AfterVisit /\ loop.pc = "read"
  BY DEF ReadEnds
<1>2. /\ setup \in Setups /\ clock \in 1..Horizon /\ loop \in LoopType
      /\ loop.cur \in Ids /\ loop.now <= clock
  BY <1>1, Before
<1>3. \A c \in Ids : Passed(c)' => (c = loop.cur \/ Passed(c)) /\ loop.from = "sweep"
  BY <1>1, <1>2, AfterVisitFacts
<1>4. \A c \in Ids : Passed(c)' => Passed(c)
  BY <1>1, <1>3 DEF Passed
<1>5. setup.callback_time = 0 => loop'.now = clock'
  BY <1>1, <1>2, AfterVisitStamp, BeforePrompt
<1> QED
  BY <1>1, <1>4, <1>5, BeforePrompt, AssemblePrompt

\* A connection that was just accepted has nothing to answer.
LEMMA WaitAcceptsPrompt ==
  ASSUME TimersInv, PromptInv, NEW c \in Ids, WaitAccepts(c), setup' = setup
  PROVE  PromptInv'
<1>1. /\ clock' = clock /\ inbox' = inbox /\ loop' = Sweep(clock) /\ conn[c].status = "none"
      /\ conn' = [conn EXCEPT ![c] = [conn[c] EXCEPT !.status = "open", !.last_activity = clock]]
      /\ since' = [since EXCEPT ![c] = Nothing]
  BY DEF WaitAccepts
<1>2. /\ setup \in Setups /\ clock \in 1..Horizon /\ ConnOK(conn[c])
      /\ conn \in [Ids -> ConnType] /\ since \in [Ids -> SinceType]
  BY Before
<1>3. loop'.now = clock /\ \A e \in Ids : ~Passed(e)'
  BY <1>1, <1>2, SweepBegins
<1>4. conn[c] = Unborn
  BY <1>1, <1>2 DEF ConnOK
<1>5. /\ conn'[c] = [Unborn EXCEPT !.status = "open", !.last_activity = clock]
      /\ since'[c] = Nothing
      /\ \A e \in Ids \ {c} : conn'[e] = conn[e] /\ since'[e] = since[e]
  BY <1>1, <1>2, <1>4
<1>6. /\ conn'[c].status = "open" /\ ~conn'[c].upgraded /\ ~conn'[c].awaiting_pong
      /\ ~since'[c].answered
  BY <1>5 DEF Unborn, Nothing
<1>7. Prompt(conn'[c], since'[c], inbox'[c].rx, clock', Limits)
  BY <1>6 DEF Prompt
<1>8. ASSUME NEW e \in Ids
      PROVE  /\ conn'[e].status = "draining" => conn'[e].why # "none"
             /\ setup.callback_time = 0 => Prompt(conn'[e], since'[e], inbox'[e].rx, clock', Limits)
  <2>1. CASE e = c
    BY <1>6, <1>7, <2>1
  <2>2. CASE e # c
    <3>1. conn'[e] = conn[e] /\ since'[e] = since[e] /\ inbox' = inbox /\ clock' = clock
      BY <1>1, <1>5, <2>2
    <3> QED
      BY <3>1, BeforePrompt
  <2> QED
    BY <2>1, <2>2
<1>9. inbox' \in [Ids -> InboxType] /\ loop'.now = clock'
  BY <1>1, <1>3, BeforePrompt
<1> QED
  BY <1>3, <1>8, <1>9, AssemblePrompt

\* The wait times out only when no open connection has anything to read.
LEMMA WaitTimesOutPrompt ==
  ASSUME TimersInv, PromptInv, WaitTimesOut, setup' = setup
  PROVE  PromptInv'
<1>1. /\ loop.pc = "wait" /\ \A c \in Ids : ~Ready(c)
      /\ conn' = conn /\ inbox' = inbox /\ Elapse(1, since) /\ loop' = Sweep(clock')
  BY DEF WaitTimesOut
<1>2. /\ clock + 1 <= Horizon /\ clock' = clock + 1
      /\ since' = [c \in Ids |-> Aged(since[c], conn[c], 1)]
  BY <1>1 DEF Elapse
<1>3. /\ setup \in Setups /\ NoWrap /\ clock \in 1..Horizon /\ since \in [Ids -> SinceType]
      /\ clock' \in 1..Horizon /\ Limits \in [Names -> Nat]
  BY <1>2, Before, LimitFacts, TimersAssumption
<1>4. loop'.now = clock' /\ \A e \in Ids : ~Passed(e)'
  BY <1>1, <1>3, SweepBegins
<1>5. ASSUME setup.callback_time = 0, NEW c \in Ids
      PROVE  Prompt(conn'[c], since'[c], inbox'[c].rx, clock', Limits)
  <2>1. /\ Prompt(conn[c], since[c], inbox[c].rx, clock, Limits)
        /\ Unhurried(conn[c], clock, Limits)
    BY <1>1, <1>5, BeforePrompt DEF Passed
  <2>2. conn[c].status = "open" => ~PongWaits(inbox[c].rx)
    BY <1>1 DEF Ready, PongWaits
  <2>3. ConnOK(conn[c]) /\ since[c] \in SinceType /\ since'[c] = Aged(since[c], conn[c], 1)
    BY <1>2, Before
  <2>4. Prompt(conn[c], since'[c], inbox[c].rx, clock + 1, Limits)
    BY <1>2, <1>3, <2>1, <2>2, <2>3, PromptAges
  <2> QED
    BY <1>1, <1>2, <2>4
<1> QED
  BY <1>1, <1>4, <1>5, BeforePrompt, AssemblePrompt

\* The timers of a visit are tested at the time it is made.
LEMMA VisitPrompt ==
  ASSUME TimersInv, PromptInv, Visit, setup' = setup
  PROVE  PromptInv'
<1> DEFINE k == loop.cur
<1>1. PICK p \in IF Live(conn[k]) THEN TimersOf(conn[k], loop.now) ELSE {conn[k]} :
        /\ conn' = [conn EXCEPT ![k] = p]
        /\ Elapse(0, since)
        /\ loop' = IF p.status = "open" /\ (loop.from = "fd" \/ ~p.upgraded)
                   THEN [loop EXCEPT !.pc = "read"] ELSE AfterVisit
  BY DEF Visit
<1>2. loop.pc = "visit" /\ inbox' = inbox
  BY DEF Visit
<1>3. /\ setup \in Setups /\ NoWrap /\ clock \in 1..Horizon /\ loop \in LoopType
      /\ conn \in [Ids -> ConnType] /\ since \in [Ids -> SinceType]
      /\ k \in Ids /\ loop.now <= clock /\ loop.now \in 1..Horizon
      /\ ConnOK(conn[k]) /\ SinceOK(conn[k], since[k]) /\ Limits \in [Names -> Nat]
  BY <1>2, Before, LimitFacts DEF LoopType
<1>4. clock' = clock /\ since' = [c \in Ids |-> Aged(since[c], conn'[c], 0)]
  BY <1>1, <1>3, TimersAssumption DEF Elapse
<1>5. conn'[k] = p /\ \A c \in Ids : c # k => conn'[c] = conn[c]
  BY <1>1, <1>3
<1>6. ASSUME NEW c \in Ids
      PROVE  conn'[c].status = "draining" => conn'[c].why # "none"
  <2>1. CASE c # k \/ ~Live(conn[k])
    <3>1. conn'[c] = conn[c]
      BY <1>1, <1>5, <2>1
    <3> QED
      BY <3>1, BeforePrompt
  <2>2. CASE c = k /\ Live(conn[k])
    <3>1. p \in TimersOf(conn[k], loop.now)
      BY <2>2
    <3>2. p.status = "draining" => p = conn[k] \/ p.why # "none"
      BY <1>3, <2>2, <3>1, TimersReasons
    <3>3. conn[k].status = "draining" => conn[k].why # "none"
      BY <1>3, BeforePrompt
    <3> QED
      BY <1>5, <2>2, <3>2, <3>3
  <2> QED
    BY <2>1, <2>2
<1>7. setup.callback_time = 0 => loop'.now = clock'
  <2>1. CASE loop' = AfterVisit
    BY <1>2, <1>3, <1>4, <2>1, AfterVisitStamp, BeforePrompt
  <2>2. CASE loop' = [loop EXCEPT !.pc = "read"]
    <3>1. loop'.now = loop.now
      BY <1>3, <2>2 DEF LoopType
    <3> QED
      BY <1>2, <1>4, <3>1, BeforePrompt
  <2> QED
    BY <1>1, <2>1, <2>2
<1>8. \A c \in Ids : Passed(c)' => c = k \/ Passed(c)
  <2>1. CASE loop' = AfterVisit
    <3>1. clock' \in 1..Horizon /\ clock <= clock'
      BY <1>3, <1>4
    <3> QED
      BY <1>2, <1>3, <2>1, <3>1, AfterVisitFacts
  <2>2. CASE loop' = [loop EXCEPT !.pc = "read"]
    <3>1. loop'.pc = "read" /\ loop'.from = loop.from /\ loop'.cur = k
      BY <1>3, <2>2 DEF LoopType
    <3> QED
      BY <3>1 DEF Passed
  <2> QED
    BY <1>1, <2>1, <2>2
<1>9. ASSUME setup.callback_time = 0, NEW c \in Ids
      PROVE  /\ Prompt(conn'[c], since'[c], inbox'[c].rx, clock', Limits)
             /\ Passed(c)' => Unhurried(conn'[c], clock', Limits)
  <2>1. loop.now = clock /\ Prompt(conn[c], since[c], inbox[c].rx, clock, Limits)
    BY <1>2, <1>9, BeforePrompt
  <2>2. /\ Prompt(conn'[c], since[c], inbox[c].rx, clock, Limits)
        /\ c = k \/ Passed(c) => Unhurried(conn'[c], clock, Limits)
    <3>1. CASE c = k
      <4>1. p \in IF Live(conn[k]) THEN TimersOf(conn[k], clock) ELSE {conn[k]}
        BY <2>1
      <4>2. Prompt(p, since[k], inbox[k].rx, clock, Limits) /\ Unhurried(p, clock, Limits)
        BY <1>3, <2>1, <3>1, <4>1, PromptVisit
      <4> QED
        BY <1>5, <3>1, <4>2
    <3>2. CASE c # k
      BY <1>5, <1>9, <2>1, <3>2, BeforePrompt
    <3> QED
      BY <3>1, <3>2
  <2>3. ConnOK(conn'[c])
    <3>1. TimersInv'
      BY VisitStep
    <3> QED
      BY <3>1, SetupKept DEF TimersInv, ClockInv
  <2>4. since[c] \in SinceType /\ since'[c] = Aged(since[c], conn'[c], 0) /\ clock + 0 = clock
    BY <1>3, <1>4
  <2>5. Prompt(conn'[c], since'[c], inbox[c].rx, clock + 0, Limits)
    BY <1>3, <2>2, <2>3, <2>4, PromptAges
  <2> QED
    BY <1>2, <1>4, <1>8, <2>2, <2>4, <2>5
<1>10. inbox' \in [Ids -> InboxType]
  BY <1>2, BeforePrompt
<1> QED
  BY <1>6, <1>7, <1>9, <1>10, AssemblePrompt

\* recv() takes the next unit: the answer, or one before it.
LEMMA ReadUnitPrompt ==
  ASSUME TimersInv, PromptInv, ReadUnit, setup' = setup
  PROVE  PromptInv'
<1> DEFINE k == loop.cur
           rx == inbox[k].rx
           u == Head(rx)
           before == [since EXCEPT ![k].read = 0]
           rec == Received(conn[k], u)
<1>0. PICK o \in {rec} \cup Ended(rec, u) :
        /\ conn' = [conn EXCEPT ![k] = o]
        /\ inbox' = [inbox EXCEPT ![k].rx = Tail(rx)]
        /\ \E d \in 0..(IF u \in {"request", "message"} THEN setup.callback_time ELSE 0) : Elapse(d, before)
        /\ loop' = IF u = "request" \/ o.status # "open" THEN AfterVisit ELSE loop
  BY DEF ReadUnit
<1>1. /\ loop.pc = "read" /\ rx # <<>>
      /\ conn' = [conn EXCEPT ![k] = o]
      /\ inbox' = [inbox EXCEPT ![k].rx = Tail(rx)]
      /\ \E d \in 0..(IF u \in {"request", "message"} THEN setup.callback_time ELSE 0) : Elapse(d, before)
      /\ loop' = AfterVisit \/ loop' = loop
  BY <1>0 DEF ReadUnit
<1>2. /\ setup \in Setups /\ NoWrap /\ clock \in 1..Horizon /\ loop \in LoopType
      /\ conn \in [Ids -> ConnType] /\ since \in [Ids -> SinceType]
      /\ k \in Ids /\ loop.now <= clock /\ conn[k].status = "open"
      /\ ConnOK(conn[k]) /\ SinceOK(conn[k], since[k]) /\ Limits \in [Names -> Nat]
  BY <1>1, Before, LimitFacts
<1>3. inbox \in [Ids -> InboxType] /\ rx \in Seq(Units) /\ inbox[k].left \in Nat
  BY <1>2, BeforePrompt DEF InboxType
<1>4. /\ inbox' \in [Ids -> InboxType] /\ inbox'[k].rx = Tail(rx)
      /\ \A c \in Ids : c # k => inbox'[c] = inbox[c]
  <2>1. Tail(rx) \in Seq(Units)
    BY <1>1, <1>3
  <2> HIDE DEF rx
  <2> QED
    BY <1>1, <1>2, <1>3, <2>1 DEF InboxType
<1>5. conn'[k] = o /\ \A c \in Ids : c # k => conn'[c] = conn[c]
  BY <1>1, <1>2
<1>6. before[k] = [since[k] EXCEPT !.read = 0] /\ \A c \in Ids : c # k => before[c] = since[c]
  BY <1>2
<1>7. \/ conn'[k] = rec /\ conn'[k].status = "open"
      \/ conn'[k].status # "open" /\ conn'[k].why = "read"
  <2>1. rec.status = "open" /\ rec \in ConnType
    <3>1. ConnOK(rec) /\ rec.status = "open"
      BY <1>2, ReadOne
    <3> QED
      BY <3>1 DEF ConnOK
  <2>2. CASE o = rec
    BY <1>5, <2>1, <2>2
  <2>3. CASE o \in Ended(rec, u)
    <3> HIDE DEF rec, u
    <3>1. \/ o = [rec EXCEPT !.status = "closed", !.why = "read"]
          \/ o = [rec EXCEPT !.status = "draining", !.why = "read"]
      BY <2>3 DEF Ended, CloseWithCode, Closed
    <3> QED
      BY <1>5, <2>1, <3>1 DEF ConnType
  <2> QED
    BY <1>0, <2>2, <2>3
<1>8. ASSUME NEW c \in Ids
      PROVE  conn'[c].status = "draining" => conn'[c].why # "none"
  BY <1>5, <1>7, BeforePrompt
<1>9. ASSUME setup.callback_time = 0
      PROVE  clock' = clock /\ since' = [c \in Ids |-> Aged(before[c], conn'[c], 0)]
  <2>1. Elapse(0, before)
    BY <1>1, <1>9
  <2> QED
    BY <1>2, <2>1 DEF Elapse
<1>10. ASSUME setup.callback_time = 0
       PROVE  /\ loop'.now = clock'
              /\ \A c \in Ids : Passed(c)' => c = k \/ Passed(c)
  <2>1. clock' = clock /\ loop.now = clock
    BY <1>1, <1>9, <1>10, BeforePrompt
  <2>2. CASE loop' = AfterVisit
    <3>1. clock' \in 1..Horizon /\ clock <= clock'
      BY <1>2, <2>1
    <3> QED
      BY <1>1, <1>2, <2>1, <2>2, <3>1, AfterVisitFacts, AfterVisitStamp
  <2>3. CASE loop' = loop
    BY <2>1, <2>3 DEF Passed
  <2> QED
    BY <1>1, <2>2, <2>3
<1> HIDE DEF before
<1>11. ASSUME setup.callback_time = 0, NEW c \in Ids
       PROVE  /\ Prompt(conn'[c], since'[c], inbox'[c].rx, clock', Limits)
              /\ Passed(c)' => Unhurried(conn'[c], clock', Limits)
  <2>1. Prompt(conn[c], since[c], inbox[c].rx, clock, Limits)
    BY <1>11, BeforePrompt
  <2>2. clock' = clock /\ since'[c] = Aged(before[c], conn'[c], 0)
    BY <1>9, <1>11
  <2>3. CASE c = k
    <3>1. since'[c] = Aged([since[k] EXCEPT !.read = 0], conn'[k], 0)
      BY <1>6, <2>2, <2>3
    <3>2. Prompt(conn'[k], since'[k], Tail(rx), clock, Limits) /\ Unhurried(conn'[k], clock, Limits)
      <4>1. CASE conn'[k] = rec
        BY <1>1, <1>2, <1>3, <2>1, <2>3, <3>1, <4>1, PromptRead
      <4>2. CASE conn'[k].status # "open"
        BY <4>2 DEF Prompt, Unhurried
      <4> QED
        BY <1>7, <4>1, <4>2
    <3> QED
      BY <1>4, <2>2, <2>3, <3>2
  <2>4. CASE c # k
    <3>1. conn'[c] = conn[c] /\ before[c] = since[c] /\ inbox'[c] = inbox[c]
      BY <1>4, <1>5, <1>6, <2>4
    <3>2. ConnOK(conn[c]) /\ since[c] \in SinceType /\ since'[c] = Aged(since[c], conn[c], 0)
          /\ clock + 0 = clock /\ clock + 0 <= Horizon
      BY <1>2, <2>2, <3>1, Before, TimersAssumption
    <3>3. Prompt(conn[c], since'[c], inbox[c].rx, clock + 0, Limits)
      BY <1>2, <2>1, <3>2, PromptAges
    <3>4. Passed(c)' => Unhurried(conn[c], clock, Limits)
      BY <1>10, <1>11, <2>4, BeforePrompt
    <3> QED
      BY <2>2, <3>1, <3>2, <3>3, <3>4
  <2> QED
    BY <2>3, <2>4
<1> QED
  BY <1>4, <1>8, <1>10, <1>11, AssemblePrompt

\* Initially nobody was pinged.
LEMMA InitPromptInv ==
  ASSUME Init
  PROVE  PromptInv
<1>1. setup \in Setups /\ setup.units \in Nat
  BY TimersAssumption DEF Init
<1>2. /\ loop.pc = "wait" /\ \A c \in Ids : conn[c] = Unborn
      /\ inbox = [c \in Ids |-> [rx |-> <<>>, left |-> setup.units]]
  BY DEF Init
<1>3. inbox \in [Ids -> InboxType]
  BY <1>1, <1>2 DEF InboxType
<1>4. Unborn.status = "none"
  BY DEF Unborn
<1> QED
  BY <1>2, <1>3, <1>4 DEF PromptInv, Prompt, Unhurried

\* A step keeps the heartbeat's invariant.
LEMMA NextPromptInv ==
  ASSUME TimersInv, PromptInv, [Next]_vars
  PROVE  PromptInv'
<1>1. CASE Next
  BY <1>1, ClockSetBackPrompt, PeerSendsPrompt, WaitAcceptsPrompt, WaitReportsPrompt,
     WaitTimesOutPrompt, VisitPrompt, ReadEndsPrompt, ReadUnitPrompt DEF Next
<1>2. CASE UNCHANGED vars
  <2>1. /\ setup' = setup /\ clock' = clock /\ loop' = loop /\ conn' = conn /\ since' = since
        /\ inbox' = inbox
    BY <1>2 DEF vars
  <2>2. \A c \in Ids : Passed(c)' => Passed(c)
    BY <2>1 DEF Passed
  <2> QED
    BY <2>1, <2>2, BeforePrompt, AssemblePrompt
<1> QED
  BY <1>1, <1>2

-----------------------------------------------------------------------------
(* The theorems. *)

\* A step keeps the invariant.
LEMMA NextTimersInv ==
  ASSUME TimersInv, [Next]_vars
  PROVE  TimersInv'
<1>1. CASE Next
  BY <1>1, ClockSetBackStep, PeerSendsStep, WaitAcceptsStep, WaitReportsStep, WaitTimesOutStep,
     VisitStep, ReadEndsStep, ReadUnitStep DEF Next
<1>2. CASE UNCHANGED vars
  <2>1. /\ setup' = setup /\ clock' = clock /\ loop' = loop /\ conn' = conn /\ since' = since
    BY <1>2 DEF vars
  <2>2. ClockInv'
    BY <2>1, SetupKept DEF TimersInv, ClockInv
  <2>3. SweepInv'
    BY <2>1, SetupKept DEF TimersInv, SweepInv, Passed
  <2> QED
    BY <2>2, <2>3 DEF TimersInv
<1> QED
  BY <1>1, <1>2

\* The invariant of the timers holds for every option that does not overflow,
\* whatever the clock does.
THEOREM TimersInvariance == Spec /\ NoWrap => []TimersInv
<1>1. Init /\ NoWrap => TimersInv
  BY InitTimersInv
<1>2. TimersInv /\ [Next]_vars => TimersInv'
  BY NextTimersInv
<1> QED
  BY <1>1, <1>2, PTL DEF Spec

\* Only a timer gives a timer's reason for closing.
LEMMA ReasonsKept ==
  ASSUME TimersInv, [Next]_vars, ~Visit, NEW c \in Ids
  PROVE  conn'[c].why \in {conn[c].why, "read"}
<1>1. conn \in [Ids -> ConnType]
  BY Before
<1>2. CASE \E e \in Ids : WaitAccepts(e)
  <2>1. PICK e \in Ids : conn' = [conn EXCEPT ![e].status = "open", ![e].last_activity = clock]
    BY <1>2 DEF WaitAccepts
  <2> QED
    BY <1>1, <2>1 DEF ConnType
<1>3. CASE ReadUnit
  <2> DEFINE rec(u) == Received(conn[loop.cur], u)
  <2>0. PICK u : \E o \in {rec(u)} \cup Ended(rec(u), u) : conn' = [conn EXCEPT ![loop.cur] = o]
    BY <1>3 DEF ReadUnit
  <2>1. PICK o \in {rec(u)} \cup Ended(rec(u), u) : conn' = [conn EXCEPT ![loop.cur] = o]
    BY <2>0
  <2>2. c # loop.cur => conn'[c] = conn[c]
    BY <1>1, <2>1
  <2>3. ASSUME c = loop.cur
        PROVE  conn'[c].why \in {conn[c].why, "read"}
    <3>1. conn'[c] = o /\ conn[c] \in ConnType
      BY <1>1, <2>1, <2>3
    <3>2. rec(u).why = conn[c].why /\ "why" \in DOMAIN rec(u) /\ rec(u) = [f \in DOMAIN rec(u) |-> rec(u)[f]]
      BY <2>3, <3>1 DEF Received, ConnType
    <3>3. CASE o = rec(u)
      BY <3>1, <3>2, <3>3
    <3>4. CASE o \in Ended(rec(u), u)
      <4> HIDE DEF rec
      <4>1. \/ o = [rec(u) EXCEPT !.status = "closed", !.why = "read"]
            \/ o = [rec(u) EXCEPT !.status = "draining", !.why = "read"]
        BY <3>4 DEF Ended, CloseWithCode, Closed
      <4>2. o.why = "read"
        BY <3>2, <4>1
      <4> QED
        BY <3>1, <4>2
    <3> QED
      BY <2>1, <3>3, <3>4
  <2> QED
    BY <2>2, <2>3
<1>4. CASE conn' = conn
  BY <1>4
<1> QED
  BY <1>2, <1>3, <1>4 DEF Next, vars, ClockSetBack, PeerSends, WaitReports, WaitTimesOut, ReadEnds

\* connection_expired() closes nobody early: for every option that does not
\* overflow, every clock and every duration of the callbacks.
THEOREM NobodyIsClosedEarly == Spec /\ NoWrap => NotClosedEarly
<1> DEFINE Early(c) == /\ ClosedBy(c, "handshake timeout") => since[c].read >= Declared("handshake")
                       /\ ClosedBy(c, "idle timeout") => since[c].read >= Declared("idle")
<1>1. ASSUME TimersInv, [Next]_vars, NEW c \in Ids
      PROVE  Early(c)
  <2>1. CASE ~Visit
    <3>1. conn'[c].why \in {conn[c].why, "read"}
      BY <1>1, <2>1, ReasonsKept
    <3> QED
      BY <3>1 DEF ClosedBy
  <2>2. CASE Visit
    <3> DEFINE k == loop.cur
    <3>1. PICK p \in IF Live(conn[k]) THEN TimersOf(conn[k], loop.now) ELSE {conn[k]} :
            conn' = [conn EXCEPT ![k] = p]
      BY <2>2 DEF Visit
    <3>2. /\ conn \in [Ids -> ConnType] /\ setup \in Setups /\ NoWrap /\ clock \in 1..Horizon
          /\ loop \in LoopType /\ k \in Ids /\ loop.now <= clock /\ since \in [Ids -> SinceType]
      BY <1>1, <2>2, Before DEF Visit
    <3>3. CASE c # k \/ ~Live(conn[k])
      <4>1. conn'[c] = conn[c]
        BY <3>1, <3>2, <3>3
      <4> QED
        BY <4>1 DEF ClosedBy
    <3>4. CASE c = k /\ Live(conn[k])
      <4>1. conn'[c] = p /\ p \in TimersOf(conn[c], loop.now)
        BY <3>1, <3>2, <3>4
      <4>2. loop.now \in 1..Horizon /\ Horizon \in Nat
        BY <3>2, TimersAssumption DEF LoopType
      <4>3. ConnOK(conn[c]) /\ NotAhead(conn[c], since[c], clock) /\ Live(conn[c])
        BY <1>1, <3>4, Before
      <4>4. /\ conn[c].why = "none" /\ p.why = "handshake timeout" =>
                  loop.now - conn[c].last_activity >= Limits["handshake"]
            /\ conn[c].why = "none" /\ p.why = "idle timeout" =>
                  loop.now - conn[c].last_activity >= Limits["idle"]
        BY <3>2, <4>1, <4>2, <4>3, TimersServe
      <4>5. /\ Declared("handshake") = Limits["handshake"] /\ Declared("idle") = Limits["idle"]
            /\ Limits["handshake"] \in Nat /\ Limits["idle"] \in Nat
        BY <3>2, LimitFacts DEF Names
      <4>6. clock - conn[c].last_activity <= since[c].read
        BY <4>3 DEF NotAhead
      <4>7. conn[c].last_activity \in Times /\ since[c].read \in Times
        BY <3>2 DEF ConnType, SinceType
      <4>8. loop.now - conn[c].last_activity <= since[c].read
        BY <3>2, <4>2, <4>6, <4>7 DEF Times
      <4>9. ASSUME NEW n \in Nat, loop.now - conn[c].last_activity >= n
            PROVE  since[c].read >= n
        BY <4>2, <4>7, <4>8, <4>9 DEF Times
      <4> QED
        BY <4>1, <4>4, <4>5, <4>9 DEF ClosedBy
    <3> QED
      BY <3>3, <3>4
  <2> QED
    BY <2>1, <2>2
<1>2. TimersInv /\ [Next]_vars => [\A c \in Ids : Early(c)]_vars
  BY <1>1
<1> QED
  BY <1>2, TimersInvariance, PTL DEF Spec, NotClosedEarly

\* What a sweep and the time since its stamp say about an open connection.
LEMMA Measured ==
  ASSUME TimersInv, setup.monotonic, NEW c \in Ids, Live(conn[c])
  PROVE  /\ since[c].read - Lag <= loop.now - conn[c].last_activity
         /\ conn[c].awaiting_pong => since[c].ping - Lag <= loop.now - conn[c].last_ping
         /\ Lag \in Int /\ since[c].read \in Int /\ since[c].ping \in Int
         /\ loop.now \in Int /\ conn[c].last_activity \in Int /\ conn[c].last_ping \in Int
<1>1. /\ clock \in 1..Horizon /\ loop \in LoopType /\ conn[c] \in ConnType /\ since[c] \in SinceType
      /\ NotBehind(conn[c], since[c], clock) /\ Horizon \in Nat
  BY Before, TimersAssumption
<1>2. /\ loop.now \in 1..Horizon /\ conn[c].last_activity \in Times /\ conn[c].last_ping \in Times
      /\ since[c].read \in Times /\ since[c].ping \in Times
  BY <1>1 DEF LoopType, ConnType, SinceType
<1>3. /\ since[c].read <= clock - conn[c].last_activity
      /\ conn[c].awaiting_pong => since[c].ping <= clock - conn[c].last_ping
  BY <1>1 DEF NotBehind
<1> QED
  BY <1>1, <1>2, <1>3 DEF Lag, Times

\* Whenever the loop waits, no open connection is past one of its timers, for
\* every option that does not overflow and any number of connections.
THEOREM NobodyOverstays == Spec /\ NoWrap => []SilentPeersGo
<1>1. ASSUME TimersInv
      PROVE  SilentPeersGo
  <2> SUFFICES ASSUME setup.monotonic, loop.pc = "wait", NEW c \in Ids, conn[c].status = "open"
               PROVE  /\ since[c].read - Lag < Declared(IF conn[c].upgraded THEN "idle" ELSE "handshake")
                      /\ conn[c].upgraded /\ Declared("ping") > 0 =>
                           IF conn[c].awaiting_pong THEN since[c].ping - Lag < Declared("pong")
                           ELSE since[c].read - Lag < Declared("ping")
    BY DEF SilentPeersGo
  <2>1. /\ Limits \in [Names -> Nat]
        /\ \A n \in Names : Declared(n) = Limits[n]
        /\ {"idle", "handshake", "ping", "pong"} \subseteq Names
    BY <1>1, Before, LimitFacts DEF Names
  <2>2. Fresh(conn[c], loop.now, Limits)
    <3>1. Served(conn[c], since[c], clock, loop.now, Limits)
      BY <1>1, Before DEF Passed
    <3> QED
      BY <3>1 DEF Served
  <2>3. /\ since[c].read - Lag <= loop.now - conn[c].last_activity
        /\ conn[c].awaiting_pong => since[c].ping - Lag <= loop.now - conn[c].last_ping
        /\ Lag \in Int /\ since[c].read \in Int /\ since[c].ping \in Int
        /\ loop.now \in Int /\ conn[c].last_activity \in Int /\ conn[c].last_ping \in Int
    BY <1>1, Measured DEF Live
  <2> DEFINE name == IF conn[c].upgraded THEN "idle" ELSE "handshake"
  <2>4. /\ Declared(name) = Limits[name] /\ Limits[name] \in Nat
        /\ Declared("ping") = Limits["ping"] /\ Limits["ping"] \in Nat
        /\ Declared("pong") = Limits["pong"] /\ Limits["pong"] \in Nat
    BY <2>1
  <2>5. /\ loop.now - conn[c].last_activity < Limits[name]
        /\ conn[c].upgraded /\ Limits["ping"] > 0 =>
             IF conn[c].awaiting_pong THEN loop.now - conn[c].last_ping < Limits["pong"]
             ELSE loop.now - conn[c].last_activity < Limits["ping"]
    BY <2>2 DEF Fresh
  <2>6. since[c].read - Lag < Declared(name)
    BY <2>3, <2>4, <2>5
  <2>7. ASSUME conn[c].upgraded, Declared("ping") > 0
        PROVE  IF conn[c].awaiting_pong THEN since[c].ping - Lag < Declared("pong")
               ELSE since[c].read - Lag < Declared("ping")
    BY <2>3, <2>4, <2>5, <2>7
  <2> QED
    BY <2>6, <2>7
<1> QED
  BY <1>1, TimersInvariance, PTL

\* A peer that never takes its close frame does not hold its connection: the
\* idle timeout ends a drain too.
THEOREM DrainsEnd == Spec /\ NoWrap => []DrainingIsBounded
<1>1. ASSUME TimersInv
      PROVE  DrainingIsBounded
  <2> SUFFICES ASSUME setup.monotonic, loop.pc = "wait", NEW c \in Ids, conn[c].status = "draining"
               PROVE  since[c].read - Lag < Declared("idle") \/ since[c].drain <= Lag
    BY DEF DrainingIsBounded
  <2>1. Limits["idle"] \in Nat /\ Declared("idle") = Limits["idle"]
    BY <1>1, Before, LimitFacts DEF Names
  <2>2. loop.now - conn[c].last_activity < Limits["idle"] \/ since[c].drain <= clock - loop.now
    <3>1. Served(conn[c], since[c], clock, loop.now, Limits)
      BY <1>1, Before DEF Passed
    <3> QED
      BY <3>1 DEF Served
  <2>3. /\ since[c].read - Lag <= loop.now - conn[c].last_activity
        /\ Lag \in Int /\ since[c].read \in Int
        /\ loop.now \in Int /\ conn[c].last_activity \in Int
    BY <1>1, Measured DEF Live
  <2> QED
    BY <2>1, <2>2, <2>3 DEF Lag
<1> QED
  BY <1>1, TimersInvariance, PTL

\* A peer that answers its pings in time stays: while callbacks take no time its
\* pong is read before the pong timeout is tested, and an idle timeout that leaves
\* room for a ping and its answer does not close it first, whatever the clock does.
THEOREM AnswersCount == Spec /\ NoWrap => AnsweringPeersStay
<1> DEFINE Stays(c) == since[c].answered /\ setup.callback_time = 0 =>
                         /\ ~ClosedBy(c, "pong timeout")
                         /\ Patient => ~ClosedBy(c, "idle timeout")
<1>1. ASSUME TimersInv, PromptInv, [Next]_vars, NEW c \in Ids
      PROVE  Stays(c)
  <2> SUFFICES ASSUME since[c].answered, setup.callback_time = 0, conn[c].why = "none"
               PROVE  conn'[c].why # "pong timeout" /\ (Patient => conn'[c].why # "idle timeout")
    BY DEF ClosedBy
  <2>1. CASE ~Visit
    <3>1. conn'[c].why \in {conn[c].why, "read"}
      BY <1>1, <2>1, ReasonsKept
    <3> QED
      BY <3>1
  <2>2. CASE Visit
    <3> DEFINE k == loop.cur
    <3>1. PICK p \in IF Live(conn[k]) THEN TimersOf(conn[k], loop.now) ELSE {conn[k]} :
            conn' = [conn EXCEPT ![k] = p]
      BY <2>2 DEF Visit
    <3>2. /\ conn \in [Ids -> ConnType] /\ setup \in Setups /\ NoWrap /\ clock \in 1..Horizon
          /\ loop \in LoopType /\ k \in Ids /\ loop.now = clock /\ since \in [Ids -> SinceType]
      BY <1>1, <2>2, Before, BeforePrompt DEF Visit
    <3>3. CASE c # k \/ ~Live(conn[k])
      <4>1. conn'[c] = conn[c]
        BY <3>1, <3>2, <3>3
      <4> QED
        BY <4>1
    <3>4. CASE c = k /\ Live(conn[k])
      <4>1. conn'[c] = p /\ p \in TimersOf(conn[c], clock) /\ ConnOK(conn[c]) /\ Live(conn[c])
        BY <1>1, <3>1, <3>2, <3>4, Before
      <4>2. conn[c].status = "open"
        BY <1>1, <4>1, BeforePrompt DEF Live
      <4>3. /\ conn[c].awaiting_pong /\ since[c].ping < Limits["pong"]
            /\ clock - conn[c].last_ping <= since[c].ping
            /\ clock - conn[c].last_activity <= since[c].ping + Limits["ping"]
        BY <1>1, <4>2, BeforePrompt DEF Prompt
      <4>4. /\ p.why = "pong timeout" => clock - conn[c].last_ping >= Limits["pong"]
            /\ p.why = "idle timeout" => clock - conn[c].last_activity >= Limits["idle"]
        <5>1. conn[c].why = "none" /\ p.why = "pong timeout" =>
                clock - conn[c].last_ping >= Limits["pong"]
          BY <3>2, <4>1, TimersReasons
        <5>2. conn[c].why = "none" /\ p.why = "idle timeout" =>
                clock - conn[c].last_activity >= Limits["idle"]
          BY <3>2, <4>1, TimersServe
        <5> QED
          BY <5>1, <5>2
      <4>5. /\ Limits["ping"] \in Nat /\ Limits["pong"] \in Nat /\ Limits["idle"] \in Nat
            /\ Patient => Limits["idle"] >= Limits["ping"] + Limits["pong"]
        BY <3>2, LimitFacts DEF Names, Patient
      <4>6. conn[c].last_activity \in Int /\ conn[c].last_ping \in Int /\ since[c].ping \in Int
        BY <3>2, <4>1, Fields
      <4>7. ~(clock - conn[c].last_ping >= Limits["pong"])
        BY <3>2, <4>3, <4>5, <4>6
      <4>8. Patient => ~(clock - conn[c].last_activity >= Limits["idle"])
        BY <3>2, <4>3, <4>5, <4>6
      <4> QED
        BY <4>1, <4>4, <4>7, <4>8
    <3> QED
      BY <3>3, <3>4
  <2> QED
    BY <2>1, <2>2
<1>2. TimersInv /\ PromptInv /\ [Next]_vars => [\A c \in Ids : Stays(c)]_vars
  BY <1>1
<1>3. Init => PromptInv
  BY InitPromptInv
<1>4. TimersInv /\ PromptInv /\ [Next]_vars => PromptInv'
  BY NextPromptInv
<1> QED
  BY <1>2, <1>3, <1>4, TimersInvariance, PTL DEF Spec, AnsweringPeersStay

=============================================================================
