---------------------------- MODULE ServerProofs ----------------------------
(***************************************************************************)
(* Proofs about module Server, for any options, any number of connections, *)
(* any input of the peers and any calls of the application.                *)
(***************************************************************************)
EXTENDS Server, FiniteSetTheorems, SequenceFacts

(* The inductive invariant. *)

\* What holds of every connection object, whoever holds it.  The offset is
\* inside the first frame, or flush() would write a negative number of bytes.
ConnOK(o) ==
  /\ o \in ServerConn
  /\ o.fd = NoFd => o.interest = {} /\ ~o.open
  /\ o.write_queue # <<>> => o.write_queue_offset < Head(o.write_queue).len
  /\ o.open => /\ "read" \in o.interest
               /\ o.write_watched <=> "write" \in o.interest
               /\ o.write_queue # <<>> => o.write_watched

\* Outside flush() an open connection is watched only for what it has queued.
Settled(o) == o.open /\ o.write_watched => o.write_queue # <<>>

\* What the application has seen of a connection fits its object.
LifeFits(l, o) ==
  /\ l # "error"
  /\ o.upgraded <=> l \in {"open", "closing", "closed"}
  /\ o.close_notified <=> l = "closed"
  /\ l = "closing" => ~o.open \/ o.close_after_write
  /\ l = "closed" => ~o.open

\* The points at which the connection Cur is being served.
Serving == {"visit", "flush", "handshake", "onHandshake", "upgrade", "onOpen",
            "reads", "frames", "onMessage"}
InVisit == loop.pc \in Serving \/ (At("onClose") /\ loop.ret = "upgrade")
InPurge == At("purge") \/ (At("onClose") /\ loop.ret = "purge")
Ending == loop.pc \in {"closing", "off"} \/ (At("onClose") /\ loop.ret = "closing")

Listed(c) == Contains(connections, c)

\* Nothing that could be processed is left in the buffer of c.
Quiet(c) ==
  obj[c].open /\ obj[c].upgraded /\ ~obj[c].close_after_write => input[c].buf = <<>>

\* The array has no duplicates, and nothing in it that was not accepted.
ArrayInv ==
  /\ net.left + net.backlog + net.accepted <= TotalConns
  /\ Len(connections) <= net.accepted
  /\ \A i, j \in 1..Len(connections) : connections[i] = connections[j] => i = j
  /\ \A c \in Ids : c > net.accepted => life[c] = "none" /\ ~Listed(c)

\* Every object is well formed and fits what the application has seen of it.
ObjectsInv ==
  /\ \A c \in Ids : ConnOK(obj[c]) /\ LifeFits(life[c], obj[c])
  /\ \A c \in Ids : ~(At("flush") /\ Cur = c) => Settled(obj[c])

\* An opened connection leaves the array only reported, unless the loop ends
\* with an exception or the application does not want to know.
ReportedInv ==
  "close" \in Handlers /\ ~exception =>
    \A c \in Ids : life[c] \in {"open", "closing"} => Listed(c)

\* Where the loop is, and what it knows of the connection it serves.
PlaceInv ==
  /\ InVisit => Cur \in Ids /\ Listed(Cur)
  /\ InVisit /\ loop.from = "sweep" =>
       loop.i \in 1..Len(connections) /\ connections[loop.i] = Cur
  /\ InPurge => loop.i \in 1..(Len(connections) + 1)
  /\ At("onClose") => /\ Cur \in Ids /\ ~obj[Cur].open
                      /\ loop.ret \in {"upgrade", "purge", "closing"}
  /\ At("off") => connections = <<>>

ServedInv ==
  /\ At("flush") => obj[Cur].open
  /\ At("handshake") => obj[Cur].open /\ life[Cur] = "none"
  /\ At("onHandshake") => obj[Cur].open /\ life[Cur] = "handshake"
  /\ At("upgrade") => obj[Cur].open /\ life[Cur] \in {"none", "handshake"}
  /\ loop.pc \in {"onHandshake", "upgrade"} => Contains(input[Cur].buf, "request")
  /\ At("onOpen") => obj[Cur].upgraded /\ obj[Cur].defer_close /\ obj[Cur].fd # NoFd

\* on_handshake is not called a second time: a connection that has seen it
\* is in the middle of it, or is given up.
HandshakeInv ==
  \A c \in Ids : life[c] = "handshake" /\ obj[c].open =>
    (loop.pc \in {"onHandshake", "upgrade"} /\ Cur = c) \/ Ending

\* The sweep leaves quiet connections behind it.
QuietInv ==
  /\ loop.pc \in {"wait", "accept"} \/ InPurge =>
       \A i \in 1..Len(connections) : Quiet(connections[i])
  /\ InVisit /\ loop.from = "sweep" =>
       \A i \in 1..(loop.i - 1) : Quiet(connections[i])

DataInv == ArrayInv /\ ObjectsInv /\ DescriptorsOwned /\ ReportedInv
ControlInv == PlaceInv /\ ServedInv /\ HandshakeInv /\ QuietInv

ServerInv == TypeOK /\ DataInv /\ ControlInv

-----------------------------------------------------------------------------
(* Sets and sequences. *)

\* More pigeons than holes.
LEMMA Pigeon ==
  ASSUME NEW n \in Nat, NEW m \in Nat, m < n, NEW f \in [1..n -> 1..m]
  PROVE  \E x, y \in 1..n : x # y /\ f[x] = f[y]
<1>1. /\ IsFiniteSet(1..n) /\ Cardinality(1..n) = n
      /\ IsFiniteSet(1..m) /\ Cardinality(1..m) = m
  BY FS_Interval
<1> QED
  BY <1>1, FS_PigeonHole

-----------------------------------------------------------------------------
(* What the functions of websocket_connection.c do to an object. *)

\* One object after another: a descriptor is kept or closed, a connection
\* does not open again or stop draining, and a closed one queues nothing.
Evolves(o, p) ==
  /\ ConnOK(p)
  /\ p.fd \in {o.fd, NoFd}
  /\ p.upgraded = o.upgraded /\ p.close_notified = o.close_notified
  /\ p.defer_close = o.defer_close
  /\ p.open => o.open /\ (o.close_after_write => p.close_after_write)
  /\ p.interest # {} => o.interest # {}
  /\ ~o.open => Len(p.write_queue) <= Len(o.write_queue)

\* The constants, in the form the proofs use.
LEMMA Bounds ==
  /\ MaxQueuedBytes \in Nat /\ MaxQueuedBytes > 0
  /\ \A s \in FrameSizes : s \in Nat /\ s > 0
  /\ AnyFrame \in [len : FrameSizes] /\ AnyFrame.len \in Nat /\ AnyFrame.len > 0
  /\ TotalConns \in Nat /\ MaxInput \in Nat /\ MaxCalls \in Nat
  /\ NoFd \notin Ids /\ NoConn \notin Ids
<1>1. MaxQueuedBytes \in Nat /\ MaxQueuedBytes > 0 /\ FrameSizes \subseteq Nat \ {0}
  BY QueueAssumption
<1>2. /\ FrameSizes # {} /\ TotalConns \in Nat /\ MaxInput \in Nat /\ MaxCalls \in Nat
  BY ServerAssumption
<1>3. AnyFrame.len \in FrameSizes /\ AnyFrame \in [len : FrameSizes]
  BY <1>2 DEF AnyFrame
<1>4. \A s \in FrameSizes : s \in Nat /\ s > 0
  BY <1>1
<1>5. NoFd \notin Ids /\ NoConn \notin Ids
  BY <1>2 DEF NoFd, NoConn, Ids
<1> QED
  BY <1>1, <1>2, <1>3, <1>4, <1>5

\* An object that does not change evolves.
LEMMA EvolvesReflexive ==
  ASSUME NEW o, ConnOK(o)
  PROVE  Evolves(o, o)
<1>1. Len(o.write_queue) \in Nat
  BY DEF ConnOK, ServerConn
<1> QED
  BY <1>1 DEF Evolves

\* One function after another.
LEMMA EvolvesTransitive ==
  ASSUME NEW o, NEW p, NEW q, ConnOK(o), Evolves(o, p), Evolves(p, q)
  PROVE  Evolves(o, q)
<1>1. /\ Len(o.write_queue) \in Nat /\ Len(p.write_queue) \in Nat /\ Len(q.write_queue) \in Nat
  BY DEF Evolves, ConnOK, ServerConn
<1> QED
  BY <1>1 DEF Evolves

\* close_socket().
LEMMA CloseSocketEvolves ==
  ASSUME NEW o, ConnOK(o)
  PROVE  LET p == CloseSocket(o)
         IN  Evolves(o, p) /\ p.fd = NoFd /\ ~p.open /\ p.interest = {} /\ Settled(p)
<1> DEFINE e == [o EXCEPT !.interest = IF o.fd # NoFd THEN {} ELSE @,
                          !.fd = NoFd, !.open = FALSE,
                          !.awaiting_pong = FALSE]
           p == ClearWriteQueue(e)
<1>0. o \in ServerConn /\ (o.fd = NoFd => o.interest = {})
  BY DEF ConnOK
<1>1. /\ e \in ServerConn /\ ~e.open /\ e.fd = NoFd /\ e.interest = {}
      /\ e.upgraded = o.upgraded /\ e.close_notified = o.close_notified
      /\ e.defer_close = o.defer_close
  BY <1>0 DEF ServerConn, Interests
<1> HIDE DEF e
<1>2. <<>> \in Seq([len : FrameSizes]) /\ 0 \in 0..MaxQueuedBytes /\ Len(<<>>) = 0
  BY Bounds
<1>3. /\ p \in ServerConn /\ ~p.open /\ p.fd = NoFd /\ p.interest = {}
      /\ p.write_queue = <<>>
      /\ p.upgraded = o.upgraded /\ p.close_notified = o.close_notified
      /\ p.defer_close = o.defer_close
  BY <1>1, <1>2 DEF ClearWriteQueue, ServerConn, Interests
<1>4. p = CloseSocket(o)
  BY DEF e, CloseSocket
<1> HIDE DEF p
<1>5. Len(o.write_queue) \in Nat /\ Len(p.write_queue) = 0
  BY <1>0, <1>2, <1>3 DEF ServerConn
<1>6. ConnOK(p)
  BY <1>3 DEF ConnOK
<1>7. Evolves(o, p) /\ Settled(p)
  BY <1>3, <1>5, <1>6 DEF Evolves, Settled
<1> QED
  BY <1>3, <1>4, <1>7

\* Giving a connection up.
LEMMA NotOpenEvolves ==
  ASSUME NEW o, ConnOK(o)
  PROVE  LET p == [o EXCEPT !.open = FALSE]
         IN  Evolves(o, p) /\ p.fd = o.fd /\ ~p.open /\ Settled(p)
<1> DEFINE p == [o EXCEPT !.open = FALSE]
<1>1. o \in ServerConn /\ Len(o.write_queue) \in Nat
  BY DEF ConnOK, ServerConn
<1>2. /\ p \in ServerConn /\ ~p.open /\ p.fd = o.fd /\ p.interest = o.interest
      /\ p.write_queue = o.write_queue /\ p.write_queue_offset = o.write_queue_offset
      /\ p.upgraded = o.upgraded /\ p.close_notified = o.close_notified
      /\ p.defer_close = o.defer_close
  BY <1>1 DEF ServerConn
<1> HIDE DEF p
<1>3. ConnOK(p)
  BY <1>2 DEF ConnOK
<1>4. Evolves(o, p) /\ Settled(p)
  BY <1>1, <1>2, <1>3 DEF Evolves, Settled
<1> QED
  BY <1>2, <1>4 DEF p

\* queue_frame() on an open connection.
LEMMA QueueFrameEvolves ==
  ASSUME NEW o, ConnOK(o), o.open, NEW n \in Nat, n < AnyFrame.len, NEW k \in Answers
  PROVE  LET q == QueueFrame(o, AnyFrame, n, k)
         IN  /\ q.c \in ServerConn /\ q.c.open
             /\ q.c.fd = o.fd /\ q.c.upgraded = o.upgraded
             /\ q.c.close_notified = o.close_notified /\ q.c.defer_close = o.defer_close
             /\ q.c.close_after_write = o.close_after_write
             /\ q.c.interest # {}
             /\ q.c.write_queue # <<>> => q.c.write_queue_offset < Head(q.c.write_queue).len
             /\ q.st \in {"ok", "ENOBUFS", "EWATCH"}
             /\ q.st = "ENOBUFS" => q.c = o
             /\ q.st = "ok" => ConnOK(q.c) /\ Settled(q.c)
<1> DEFINE f == AnyFrame
           rem == f.len - n
           q == QueueFrame(o, f, n, k)
           e == [o EXCEPT !.write_queue = Append(@, f),
                          !.write_queue_offset = IF o.write_queue = <<>> THEN n ELSE @,
                          !.queued_bytes = @ + rem]
           z == [e EXCEPT !.write_watched = TRUE, !.interest = @ \cup {"write"}]
<1>0. o \in ServerConn /\ f \in [len : FrameSizes] /\ f.len \in Nat /\ MaxQueuedBytes \in Nat
  BY Bounds DEF ConnOK
<1>1. /\ rem \in Nat /\ rem > 0 /\ o.queued_bytes \in 0..MaxQueuedBytes
      /\ o.write_queue \in Seq([len : FrameSizes]) /\ o.write_queue_offset \in Nat
      /\ o.fd # NoFd /\ "read" \in o.interest
      /\ o.write_watched <=> "write" \in o.interest
      /\ o.write_queue # <<>> => o.write_queue_offset < Head(o.write_queue).len
  BY <1>0 DEF ConnOK, ServerConn
<1>2. CASE rem > MaxQueuedBytes \/ o.queued_bytes > MaxQueuedBytes - rem
  <2>1. q = [c |-> o, st |-> "ENOBUFS"]
    BY <1>2 DEF QueueFrame
  <2> HIDE DEF q
  <2>2. o.interest # {}
    BY <1>1
  <2>3. /\ q.c = o /\ q.st = "ENOBUFS"
    BY <2>1
  <2> QED
    BY <1>0, <1>1, <2>2, <2>3 DEF q
<1>3. CASE ~(rem > MaxQueuedBytes \/ o.queued_bytes > MaxQueuedBytes - rem)
  <2>1. /\ Append(o.write_queue, f) \in Seq([len : FrameSizes])
        /\ Append(o.write_queue, f) # <<>>
        /\ Head(Append(o.write_queue, f)) = (IF o.write_queue = <<>> THEN f ELSE Head(o.write_queue))
    BY <1>0, <1>1, HeadTailAppend, AppendProperties
  <2>2. o.queued_bytes + rem \in 0..MaxQueuedBytes
    BY <1>0, <1>1, <1>3
  <2>3. (IF o.write_queue = <<>> THEN n ELSE o.write_queue_offset) \in Nat
    BY <1>1
  <2> HIDE DEF rem
  <2>4. /\ e \in ServerConn /\ e.open /\ e.fd = o.fd /\ e.upgraded = o.upgraded
        /\ e.close_notified = o.close_notified /\ e.defer_close = o.defer_close
        /\ e.close_after_write = o.close_after_write
        /\ e.interest = o.interest /\ e.write_watched = o.write_watched
        /\ e.write_queue = Append(o.write_queue, f)
        /\ e.write_queue_offset = (IF o.write_queue = <<>> THEN n ELSE o.write_queue_offset)
    BY <1>0, <2>1, <2>2, <2>3 DEF ServerConn
  <2> HIDE DEF e
  <2>5. /\ z \in ServerConn /\ z.open /\ z.fd = o.fd /\ z.upgraded = o.upgraded
        /\ z.close_notified = o.close_notified /\ z.defer_close = o.defer_close
        /\ z.close_after_write = o.close_after_write
        /\ z.interest = o.interest \cup {"write"} /\ z.write_watched
        /\ z.write_queue = e.write_queue /\ z.write_queue_offset = e.write_queue_offset
    BY <2>4 DEF ServerConn, Interests
  <2> HIDE DEF z
  <2>6. e.write_queue # <<>> /\ e.write_queue_offset < Head(e.write_queue).len
    BY <1>1, <2>1, <2>4
  <2>7. q = IF o.write_watched THEN [c |-> e, st |-> "ok"]
            ELSE IF k.watch THEN [c |-> z, st |-> "ok"] ELSE [c |-> e, st |-> "EWATCH"]
    BY <1>3 DEF QueueFrame, e, z, rem
  <2>8. o.write_watched => ConnOK(e) /\ Settled(e)
    BY <1>1, <2>4, <2>6 DEF ConnOK, Settled
  <2>9. ConnOK(z) /\ Settled(z)
    BY <1>1, <2>4, <2>5, <2>6 DEF ConnOK, Settled
  <2>10. e.interest # {} /\ z.interest # {}
    BY <1>1, <2>4, <2>5
  <2> HIDE DEF q
  <2>11. CASE o.write_watched
    BY <2>11, <2>4, <2>6, <2>7, <2>8, <2>10 DEF q
  <2>12. CASE ~o.write_watched /\ k.watch
    <3>1. q.c = z /\ q.st = "ok"
      BY <2>7, <2>12
    <3>2. z.write_queue_offset < Head(z.write_queue).len
      BY <2>5, <2>6
    <3> QED
      BY <2>5, <2>9, <2>10, <3>1, <3>2 DEF q
  <2>13. CASE ~o.write_watched /\ ~k.watch
    BY <2>13, <2>4, <2>6, <2>7, <2>10 DEF q
  <2> QED
    BY <2>11, <2>12, <2>13
<1> QED
  BY <1>2, <1>3

\* A failed connection is given up with whatever is in its queue.
LEMMA FailedEvolves ==
  ASSUME NEW o, ConnOK(o), o.open, NEW c \in ServerConn, c.fd = o.fd,
         c.upgraded = o.upgraded, c.close_notified = o.close_notified,
         c.defer_close = o.defer_close,
         c.write_queue # <<>> => c.write_queue_offset < Head(c.write_queue).len
  PROVE  LET p == [c EXCEPT !.open = FALSE]
         IN  Evolves(o, p) /\ Settled(p) /\ p.fd = o.fd /\ ~p.open
<1> DEFINE p == [c EXCEPT !.open = FALSE]
<1>1. o.fd # NoFd /\ o.interest # {}
  BY DEF ConnOK
<1>2. /\ p \in ServerConn /\ ~p.open /\ p.fd = c.fd
      /\ p.write_queue = c.write_queue /\ p.write_queue_offset = c.write_queue_offset
      /\ p.upgraded = c.upgraded /\ p.close_notified = c.close_notified
      /\ p.defer_close = c.defer_close
  BY DEF ServerConn
<1> HIDE DEF p
<1>3. ConnOK(p)
  BY <1>1, <1>2 DEF ConnOK
<1>4. Evolves(o, p) /\ Settled(p)
  BY <1>1, <1>2, <1>3 DEF Evolves, Settled
<1> QED
  BY <1>2, <1>4 DEF p

\* send_frame(), whatever the system answers.
LEMMA SendFrameEvolves ==
  ASSUME NEW o, ConnOK(o), NEW k \in Answers
  PROVE  LET s == SendFrame(o, AnyFrame, k)
         IN  /\ Evolves(o, s.c) /\ s.c.fd = o.fd /\ (Settled(o) => Settled(s.c))
             /\ s.ok \in BOOLEAN
<1> DEFINE f == AnyFrame
           s == SendFrame(o, f, k)
           w == WriteSome(f.len, k)
           n == IF o.write_queue = <<>> THEN w.n ELSE 0
           q == QueueFrame(o, f, n, k)
<1>0. f.len \in Nat /\ f.len > 0 /\ MaxQueuedBytes \in Nat
  BY Bounds
<1>1. /\ w.n \in Nat /\ w.n <= f.len /\ w.st \in {"ok"} \cup SendErrnos
      /\ w.st # "ENOBUFS"
  BY <1>0, QueueAssumption DEF Answers, KernelAnswers, WriteSome
<1>2. CASE ~CanSend(o) \/ f.len > MaxQueuedBytes
  <2>1. s = [c |-> o, ok |-> FALSE, n |-> 0]
    BY <1>2 DEF SendFrame
  <2> QED
    BY <2>1, EvolvesReflexive
<1>3. CASE CanSend(o) /\ f.len <= MaxQueuedBytes
  <2>1. s = IF o.write_queue # <<>> THEN SendResult(q.c, q.st, 0)
            ELSE IF w.st = "ok" /\ w.n < f.len THEN SendResult(q.c, q.st, w.n)
            ELSE SendResult(o, w.st, w.n)
    BY <1>0, <1>3 DEF SendFrame
  <2>2. o.open
    BY <1>3 DEF CanSend
  <2> HIDE DEF w
  <2>3. CASE o.write_queue # <<>> \/ (w.st = "ok" /\ w.n < f.len)
    <3>1. n \in Nat /\ n < f.len
      BY <1>0, <1>1, <2>3
    <3> HIDE DEF n
    <3>2. /\ q.c \in ServerConn /\ q.c.open
          /\ q.c.fd = o.fd /\ q.c.upgraded = o.upgraded
          /\ q.c.close_notified = o.close_notified /\ q.c.defer_close = o.defer_close
          /\ q.c.close_after_write = o.close_after_write
          /\ q.c.write_queue # <<>> => q.c.write_queue_offset < Head(q.c.write_queue).len
          /\ q.st \in {"ok", "ENOBUFS", "EWATCH"}
          /\ q.st = "ENOBUFS" => q.c = o
          /\ q.st = "ok" => ConnOK(q.c) /\ Settled(q.c)
      BY <2>2, <3>1, QueueFrameEvolves
    <3>3. s.c = (IF q.st \in {"ok", "ENOBUFS"} THEN q.c ELSE [q.c EXCEPT !.open = FALSE])
          /\ s.ok = (q.st = "ok")
      BY <2>1, <2>3 DEF SendResult
    <3> HIDE DEF q, s
    <3>4. CASE q.st = "ok"
      <4>1. o.interest # {}
        BY <2>2 DEF ConnOK
      <4>2. Evolves(o, q.c)
        BY <2>2, <3>2, <3>4, <4>1 DEF Evolves
      <4> QED
        BY <3>2, <3>3, <3>4, <4>2 DEF s
    <3>5. CASE q.st = "ENOBUFS"
      BY <3>2, <3>3, <3>5, EvolvesReflexive DEF s
    <3>6. CASE q.st = "EWATCH"
      <4>1. s.c = [q.c EXCEPT !.open = FALSE]
        BY <3>3, <3>6
      <4> QED
        BY <2>2, <3>2, <3>3, <4>1, FailedEvolves DEF s
    <3> QED
      BY <3>2, <3>4, <3>5, <3>6
  <2>4. CASE o.write_queue = <<>> /\ ~(w.st = "ok" /\ w.n < f.len)
    <3>1. s.c = (IF w.st = "ok" THEN o ELSE [o EXCEPT !.open = FALSE]) /\ s.ok = (w.st = "ok")
      BY <1>1, <2>1, <2>4 DEF SendResult
    <3> HIDE DEF s
    <3> QED
      BY <3>1, EvolvesReflexive, NotOpenEvolves DEF s
  <2> QED
    BY <2>3, <2>4
<1> QED
  BY <1>0, <1>2, <1>3

\* close_after_write().
LEMMA CloseAfterWriteEvolves ==
  ASSUME NEW o, ConnOK(o)
  PROVE  LET p == CloseAfterWrite(o)
         IN  Evolves(o, p) /\ (Settled(o) => Settled(p)) /\ (p.open => p.close_after_write)
<1>1. CASE ~o.open
  BY <1>1, EvolvesReflexive DEF CloseAfterWrite
<1>2. CASE o.open /\ o.write_queue = <<>>
  BY <1>2, CloseSocketEvolves DEF CloseAfterWrite
<1>3. CASE o.open /\ o.write_queue # <<>>
  <2> DEFINE p == [o EXCEPT !.close_after_write = TRUE]
  <2>1. p = CloseAfterWrite(o)
    BY <1>3 DEF CloseAfterWrite
  <2>2. o \in ServerConn /\ Len(o.write_queue) \in Nat /\ o.interest # {}
    BY <1>3 DEF ConnOK, ServerConn
  <2>3. /\ p \in ServerConn /\ p.open = o.open /\ p.fd = o.fd /\ p.interest = o.interest
        /\ p.write_queue = o.write_queue /\ p.write_queue_offset = o.write_queue_offset
        /\ p.write_watched = o.write_watched
        /\ p.upgraded = o.upgraded /\ p.close_notified = o.close_notified
        /\ p.defer_close = o.defer_close /\ p.close_after_write = TRUE
    BY <2>2 DEF ServerConn
  <2> HIDE DEF p
  <2>4. ConnOK(p)
    BY <2>3 DEF ConnOK
  <2>5. Evolves(o, p) /\ Settled(p)
    BY <1>3, <2>2, <2>3, <2>4 DEF Evolves, Settled
  <2>6. p.open => p.close_after_write
    BY <2>3
  <2> QED
    BY <2>1, <2>5, <2>6
<1> QED
  BY <1>1, <1>2, <1>3

\* The connection in a result of send_frame() that is then changed.
LEMMA ResultConn ==
  ASSUME NEW o, NEW k, NEW d
  PROVE  [SendFrame(o, AnyFrame, k) EXCEPT !.c = d].c = d
<1> DEFINE s == SendFrame(o, AnyFrame, k)
<1>1. s = [c |-> s.c, ok |-> s.ok, n |-> s.n]
  BY DEF SendFrame, SendResult
<1> HIDE DEF s
<1>2. [s EXCEPT !.c = d].c = d
  BY <1>1
<1> QED
  BY <1>2 DEF s

\* Connection::close(): with defer_close it keeps the descriptor, otherwise
\* the connection is closed or drains.
LEMMA CloseEvolves ==
  ASSUME NEW o, ConnOK(o), NEW k \in Answers
  PROVE  LET p == Close(o, AnyFrame, k).c
         IN  /\ Evolves(o, p) /\ (Settled(o) => Settled(p))
             /\ p.open => p.close_after_write
             /\ o.defer_close => p.fd = o.fd
<1> DEFINE s == SendFrame(o, AnyFrame, k)
<1>1. CASE o.defer_close
  <2>1. Close(o, AnyFrame, k).c = [o EXCEPT !.open = FALSE]
    BY <1>1 DEF Close
  <2> QED
    BY <2>1, NotOpenEvolves
<1>2. CASE ~o.defer_close
  <2>1. Close(o, AnyFrame, k).c = CloseAfterWrite(s.c)
    BY <1>2, ResultConn DEF Close
  <2>2. Evolves(o, s.c) /\ (Settled(o) => Settled(s.c)) /\ ConnOK(s.c)
    BY SendFrameEvolves DEF Evolves
  <2> HIDE DEF s
  <2>3. /\ Evolves(s.c, CloseAfterWrite(s.c)) /\ (Settled(s.c) => Settled(CloseAfterWrite(s.c)))
        /\ CloseAfterWrite(s.c).open => CloseAfterWrite(s.c).close_after_write
    BY <2>2, CloseAfterWriteEvolves
  <2>4. Evolves(o, CloseAfterWrite(s.c))
    BY <2>2, <2>3, EvolvesTransitive
  <2> QED
    BY <1>2, <2>1, <2>2, <2>3, <2>4
<1> QED
  BY <1>1, <1>2

\* close_with_code(): the connection is closed or drains.
LEMMA CloseWithCodeEvolves ==
  ASSUME NEW o, ConnOK(o), NEW k \in Answers
  PROVE  LET p == CloseWithCode(o, AnyFrame, k).c
         IN  /\ Evolves(o, p) /\ (Settled(o) => Settled(p))
             /\ p.open => p.close_after_write
<1> DEFINE s == SendFrame(o, AnyFrame, k)
           p == IF s.ok THEN CloseAfterWrite(s.c) ELSE CloseSocket(s.c)
<1>1. CloseWithCode(o, AnyFrame, k).c = p
  BY ResultConn DEF CloseWithCode
<1>2. Evolves(o, s.c) /\ (Settled(o) => Settled(s.c)) /\ ConnOK(s.c)
  BY SendFrameEvolves DEF Evolves
<1> HIDE DEF s
<1>3. /\ Evolves(s.c, p) /\ (Settled(s.c) => Settled(p))
      /\ p.open => p.close_after_write
  BY <1>2, CloseAfterWriteEvolves, CloseSocketEvolves
<1> HIDE DEF p
<1>4. Evolves(o, p)
  BY <1>2, <1>3, EvolvesTransitive
<1> QED
  BY <1>1, <1>2, <1>3, <1>4

\* The heartbeat of a visit.
LEMMA HeartbeatEvolves ==
  ASSUME NEW o, ConnOK(o), NEW k \in Answers, NEW p \in Heartbeat(o, k)
  PROVE  Evolves(o, p) /\ (Settled(o) => Settled(p))
<1> DEFINE s == SendFrame(o, AnyFrame, k)
           e == [s.c EXCEPT !.awaiting_pong = TRUE]
<1>1. Evolves(o, s.c) /\ (Settled(o) => Settled(s.c)) /\ ConnOK(s.c)
  BY SendFrameEvolves DEF Evolves
<1>2. p \in {o, CloseWithCode(o, AnyFrame, k).c,
             IF s.ok THEN e ELSE CloseWithCode(s.c, AnyFrame, k).c}
  BY DEF Heartbeat
<1> HIDE DEF s
<1>3. Evolves(s.c, e) /\ (Settled(s.c) => Settled(e))
  <2>1. s.c \in ServerConn /\ Len(s.c.write_queue) \in Nat
    BY <1>1 DEF ConnOK, ServerConn
  <2>2. /\ e \in ServerConn /\ e.open = s.c.open /\ e.fd = s.c.fd /\ e.interest = s.c.interest
        /\ e.write_queue = s.c.write_queue /\ e.write_queue_offset = s.c.write_queue_offset
        /\ e.write_watched = s.c.write_watched
        /\ e.upgraded = s.c.upgraded /\ e.close_notified = s.c.close_notified
        /\ e.defer_close = s.c.defer_close /\ e.close_after_write = s.c.close_after_write
    BY <2>1 DEF ServerConn
  <2> HIDE DEF e
  <2>3. ConnOK(e)
    BY <1>1, <2>2 DEF ConnOK
  <2> QED
    BY <2>1, <2>2, <2>3 DEF Evolves, Settled
<1>4. CASE p = o
  BY <1>4, EvolvesReflexive
<1>5. CASE p = CloseWithCode(o, AnyFrame, k).c
  BY <1>5, CloseWithCodeEvolves
<1>6. CASE p = e
  BY <1>1, <1>3, <1>6, EvolvesTransitive
<1>7. CASE p = CloseWithCode(s.c, AnyFrame, k).c
  <2>1. Evolves(s.c, p) /\ (Settled(s.c) => Settled(p))
    BY <1>1, <1>7, CloseWithCodeEvolves
  <2> QED
    BY <1>1, <2>1, EvolvesTransitive
<1> QED
  BY <1>2, <1>4, <1>5, <1>6, <1>7

\* One frame of flush().
LEMMA FlushFrameEvolves ==
  ASSUME NEW o, ConnOK(o), o.open, o.write_queue # <<>>, NEW k \in Answers
  PROVE  LET r == FlushFrame(o, k)
         IN  /\ Evolves(o, r.c) /\ r.st \in {"next", "full", "error"}
             /\ r.st = "next" => r.c.open
             /\ r.st = "full" => Settled(r.c)
             /\ r.st = "error" => ~r.c.open
<1> DEFINE r == FlushFrame(o, k)
           f == Head(o.write_queue)
           w == WriteSome(f.len - o.write_queue_offset, k)
           left == IF w.n > o.queued_bytes THEN 0 ELSE o.queued_bytes - w.n
<1>1. /\ o \in ServerConn /\ o.write_queue \in Seq([len : FrameSizes])
      /\ o.queued_bytes \in 0..MaxQueuedBytes /\ o.write_queue_offset \in Nat
      /\ o.write_queue_offset < f.len /\ o.interest # {} /\ o.fd # NoFd
  BY DEF ConnOK, ServerConn
<1>2. /\ f \in [len : FrameSizes] /\ Tail(o.write_queue) \in Seq([len : FrameSizes])
  BY <1>1, HeadTailProperties
<1>3. f.len \in Nat /\ MaxQueuedBytes \in Nat
  BY <1>2, Bounds
<1>4. w.n \in Nat /\ w.n <= f.len - o.write_queue_offset
  <2> HIDE DEF f
  <2>1. k.n \in Nat
    BY Bounds DEF Answers, KernelAnswers
  <2> QED
    BY <1>1, <1>3, <2>1 DEF WriteSome
<1>5. left \in 0..MaxQueuedBytes /\ o.write_queue_offset + w.n \in Nat
  <2> HIDE DEF w, f
  <2> QED
    BY <1>1, <1>3, <1>4
<1>6. r = IF w.st # "ok" THEN [c |-> [o EXCEPT !.open = FALSE], st |-> "error", n |-> w.n]
          ELSE IF o.write_queue_offset + w.n < f.len
          THEN [c |-> [o EXCEPT !.queued_bytes = left, !.write_queue_offset = @ + w.n],
                st |-> "full", n |-> w.n]
          ELSE [c |-> [o EXCEPT !.queued_bytes = left, !.write_queue_offset = 0,
                                !.write_queue = Tail(@)],
                st |-> "next", n |-> w.n]
  BY DEF FlushFrame
<1> HIDE DEF w, left, f, r
<1>7. CASE w.st # "ok"
  <2>1. r.c = [o EXCEPT !.open = FALSE] /\ r.st = "error"
    BY <1>6, <1>7
  <2> QED
    BY <2>1, NotOpenEvolves DEF r
<1>8. CASE w.st = "ok" /\ o.write_queue_offset + w.n < f.len
  <2> DEFINE p == [o EXCEPT !.queued_bytes = left, !.write_queue_offset = @ + w.n]
  <2>1. r.c = p /\ r.st = "full"
    BY <1>6, <1>8
  <2>2. /\ p \in ServerConn /\ p.open = o.open /\ p.fd = o.fd /\ p.interest = o.interest
        /\ p.write_queue = o.write_queue /\ p.write_queue_offset = o.write_queue_offset + w.n
        /\ p.write_watched = o.write_watched
        /\ p.upgraded = o.upgraded /\ p.close_notified = o.close_notified
        /\ p.defer_close = o.defer_close /\ p.close_after_write = o.close_after_write
    BY <1>1, <1>5 DEF ServerConn
  <2> HIDE DEF p
  <2>3. ConnOK(p)
    BY <1>8, <2>2 DEF ConnOK, f
  <2>4. Evolves(o, p) /\ Settled(p)
    BY <1>1, <2>2, <2>3 DEF Evolves, Settled
  <2> QED
    BY <2>1, <2>4 DEF r
<1>9. CASE w.st = "ok" /\ ~(o.write_queue_offset + w.n < f.len)
  <2> DEFINE p == [o EXCEPT !.queued_bytes = left, !.write_queue_offset = 0,
                            !.write_queue = Tail(@)]
  <2>1. r.c = p /\ r.st = "next"
    BY <1>6, <1>9
  <2>2. /\ p \in ServerConn /\ p.open = o.open /\ p.fd = o.fd /\ p.interest = o.interest
        /\ p.write_queue = Tail(o.write_queue) /\ p.write_queue_offset = 0
        /\ p.write_watched = o.write_watched
        /\ p.upgraded = o.upgraded /\ p.close_notified = o.close_notified
        /\ p.defer_close = o.defer_close /\ p.close_after_write = o.close_after_write
    BY <1>1, <1>2, <1>5 DEF ServerConn
  <2> HIDE DEF p
  <2>3. p.write_queue # <<>> => p.write_queue_offset < Head(p.write_queue).len
    <3> SUFFICES ASSUME p.write_queue # <<>> PROVE p.write_queue_offset < Head(p.write_queue).len
      OBVIOUS
    <3>1. Head(p.write_queue) \in [len : FrameSizes]
      BY <1>2, <2>2, HeadTailProperties
    <3> QED
      BY <2>2, <3>1, Bounds
  <2>4. ConnOK(p)
    BY <2>2, <2>3 DEF ConnOK
  <2>5. Evolves(o, p) /\ p.open
    BY <1>1, <2>2, <2>4 DEF Evolves
  <2> QED
    BY <2>1, <2>5 DEF r
<1> QED
  BY <1>7, <1>8, <1>9

\* The end of flush().
LEMMA FlushEndEvolves ==
  ASSUME NEW o, ConnOK(o), o.open, o.write_queue = <<>>
  PROVE  Evolves(o, FlushEnd(o)) /\ Settled(FlushEnd(o))
<1> DEFINE u == [o EXCEPT !.interest = IF o.write_watched THEN @ \ {"write"} ELSE @,
                          !.write_watched = FALSE]
<1>1. o \in ServerConn /\ o.interest # {} /\ o.interest \in SUBSET Interests
  BY DEF ConnOK, ServerConn
<1>2. /\ u \in ServerConn /\ u.open = o.open /\ u.fd = o.fd
      /\ u.interest = (IF o.write_watched THEN o.interest \ {"write"} ELSE o.interest)
      /\ u.write_queue = o.write_queue /\ u.write_queue_offset = o.write_queue_offset
      /\ u.write_watched = FALSE
      /\ u.upgraded = o.upgraded /\ u.close_notified = o.close_notified
      /\ u.defer_close = o.defer_close /\ u.close_after_write = o.close_after_write
  BY <1>1 DEF ServerConn, Interests
<1>3. FlushEnd(o) = IF u.close_after_write THEN CloseSocket(u) ELSE u
  BY DEF FlushEnd
<1> HIDE DEF u
<1>4. ConnOK(u)
  BY <1>2 DEF ConnOK
<1>5. Evolves(o, u) /\ Settled(u)
  BY <1>1, <1>2, <1>4 DEF Evolves, Settled
<1>6. Evolves(o, CloseSocket(u)) /\ Settled(CloseSocket(u))
  BY <1>4, <1>5, CloseSocketEvolves, EvolvesTransitive
<1> QED
  BY <1>3, <1>5, <1>6

-----------------------------------------------------------------------------
(* How a step changes the data: objects, descriptors, what has been seen. *)

\* The objects after a step, and what the application has seen of them.
DataMoves ==
  /\ obj' \in [Ids -> ServerConn] /\ life' \in [Ids -> LifeStates]
  /\ \A d \in Ids :
       /\ ConnOK(obj'[d]) /\ LifeFits(life'[d], obj'[d])
       /\ obj'[d].fd \in {obj[d].fd, NoFd}
       /\ obj'[d].interest # {} => obj[d].interest # {}
       /\ d > net.accepted => life'[d] = life[d]
       /\ life'[d] \in {"open", "closing"} => life[d] \in {"open", "closing"} \/ Listed(d)
       /\ ~obj[d].open => /\ ~obj'[d].open
                          /\ Len(obj'[d].write_queue) <= Len(obj[d].write_queue)

\* One object changes, and what the application has seen of it.
LEMMA MovesAt ==
  ASSUME ServerInv, NEW c \in Ids, NEW p, NEW l \in LifeStates,
         obj' = [obj EXCEPT ![c] = p], life' = [life EXCEPT ![c] = l],
         ConnOK(p), LifeFits(l, p), p.fd \in {obj[c].fd, NoFd},
         p.interest # {} => obj[c].interest # {},
         p.open => obj[c].open,
         ~obj[c].open => Len(p.write_queue) <= Len(obj[c].write_queue),
         l \in {"open", "closing"} => life[c] \in {"open", "closing"} \/ Listed(c),
         l # life[c] => life[c] # "none" \/ Listed(c)
  PROVE  /\ DataMoves /\ obj'[c] = p /\ life'[c] = l
         /\ \A d \in Ids \ {c} : obj'[d] = obj[d] /\ life'[d] = life[d]
<1>1. obj \in [Ids -> ServerConn] /\ life \in [Ids -> LifeStates] /\ p \in ServerConn
  BY DEF ServerInv, TypeOK, ConnOK
<1>2. /\ obj' \in [Ids -> ServerConn] /\ life' \in [Ids -> LifeStates]
      /\ obj'[c] = p /\ life'[c] = l
      /\ \A d \in Ids \ {c} : obj'[d] = obj[d] /\ life'[d] = life[d]
  BY <1>1
<1>3. \A d \in Ids : ConnOK(obj[d]) /\ LifeFits(life[d], obj[d])
  BY DEF ServerInv, DataInv, ObjectsInv
<1>4. \A d \in Ids : Len(obj[d].write_queue) \in Nat
  BY <1>1 DEF ServerConn
<1>5. c > net.accepted => life[c] = "none" /\ ~Listed(c)
  BY DEF ServerInv, DataInv, ArrayInv
<1>6. ASSUME NEW d \in Ids
      PROVE  /\ ConnOK(obj'[d]) /\ LifeFits(life'[d], obj'[d])
             /\ obj'[d].fd \in {obj[d].fd, NoFd}
             /\ obj'[d].interest # {} => obj[d].interest # {}
             /\ d > net.accepted => life'[d] = life[d]
             /\ life'[d] \in {"open", "closing"} => life[d] \in {"open", "closing"} \/ Listed(d)
             /\ ~obj[d].open => /\ ~obj'[d].open
                                /\ Len(obj'[d].write_queue) <= Len(obj[d].write_queue)
  <2>1. CASE d = c
    BY <1>2, <1>5, <2>1
  <2>2. CASE d # c
    BY <1>2, <1>3, <1>4, <2>2
  <2> QED
    BY <2>1, <2>2
<1> QED
  BY <1>2, <1>6 DEF DataMoves

\* Objects evolve and the application sees nothing.
LEMMA EvolveMoves ==
  ASSUME ServerInv, NEW c \in Ids, NEW p, Evolves(obj[c], p),
         obj' = [obj EXCEPT ![c] = p], life' = life
  PROVE  DataMoves /\ obj'[c] = p /\ \A d \in Ids \ {c} : obj'[d] = obj[d]
<1>1. life[c] \in LifeStates /\ life' = [life EXCEPT ![c] = life[c]]
  BY DEF ServerInv, TypeOK
<1>2. LifeFits(life[c], obj[c])
  BY DEF ServerInv, DataInv, ObjectsInv
<1>3. LifeFits(life[c], p)
  BY <1>2 DEF LifeFits, Evolves
<1>4. /\ ConnOK(p) /\ p.fd \in {obj[c].fd, NoFd} /\ (p.interest # {} => obj[c].interest # {})
      /\ p.open => obj[c].open
      /\ ~obj[c].open => Len(p.write_queue) <= Len(obj[c].write_queue)
  BY DEF Evolves
<1> QED
  BY <1>1, <1>3, <1>4, MovesAt

\* No object changes.
LEMMA StillMoves ==
  ASSUME ServerInv, obj' = obj, life' = life
  PROVE  DataMoves
<1>1. \A d \in Ids : ConnOK(obj[d]) /\ LifeFits(life[d], obj[d])
  BY DEF ServerInv, DataInv, ObjectsInv
<1>2. \A d \in Ids : Evolves(obj[d], obj[d])
  BY <1>1, EvolvesReflexive
<1> QED
  BY <1>1, <1>2 DEF DataMoves, ServerInv, TypeOK, Evolves

\* The data invariant after such a step, if flush() is the only place with an
\* unsettled connection and on_close the only one with an unlisted descriptor.
LEMMA DataStep ==
  ASSUME ServerInv, DataMoves, options' = options, connections' = connections,
         net' \in [left : Nat, backlog : Nat, accepted : Nat],
         net'.left + net'.backlog + net'.accepted <= TotalConns,
         net'.accepted = net.accepted,
         exception => exception',
         \A d \in Ids : Settled(obj'[d]) \/ (At("flush")' /\ Cur' = d),
         \A d \in Ids : At("onClose") /\ Cur = d /\ obj'[d].fd # NoFd =>
                          Listed(d) \/ (At("onClose")' /\ Cur' = d)
  PROVE  DataInv'
<1>1. Handlers' = Handlers /\ \A d \in Ids : Listed(d)' <=> Listed(d)
  BY DEF Handlers, Listed
<1>2. ArrayInv'
  BY <1>1 DEF ServerInv, DataInv, ArrayInv, DataMoves
<1>3. ObjectsInv'
  BY DEF DataMoves, ObjectsInv
<1>4. DescriptorsOwned'
  <2>0. NoFd \notin Ids
    BY Bounds
  <2>1. ASSUME NEW c \in Ids, obj'[c].fd # NoFd
        PROVE  /\ \A d \in Ids \ {c} : obj'[d].fd # obj'[c].fd
               /\ Contains(connections', c) \/ (At("onClose")' /\ Cur' = c)
    <3>1. obj'[c].fd = obj[c].fd /\ \A d \in Ids : obj'[d].fd \in {obj[d].fd, NoFd}
      BY <2>1 DEF DataMoves
    <3>2. /\ \A d \in Ids \ {c} : obj[d].fd # obj[c].fd
          /\ Contains(connections, c) \/ (At("onClose") /\ Cur = c)
      BY <2>1, <3>1 DEF ServerInv, DataInv, DescriptorsOwned
    <3> QED
      BY <2>1, <3>1, <3>2 DEF Listed
  <2>2. ASSUME NEW c \in Ids, obj'[c].interest # {}
        PROVE  Contains(connections', c) /\ obj'[c].fd # NoFd
    <3>1. obj[c].interest # {} /\ ConnOK(obj'[c])
      BY <2>2 DEF DataMoves
    <3>2. Contains(connections, c)
      BY <3>1 DEF ServerInv, DataInv, DescriptorsOwned
    <3> QED
      BY <2>2, <3>1, <3>2 DEF ConnOK
  <2> QED
    BY <2>1, <2>2 DEF DescriptorsOwned
<1>5. ReportedInv'
  BY <1>1 DEF ServerInv, DataInv, ReportedInv, DataMoves
<1> QED
  BY <1>2, <1>3, <1>4, <1>5 DEF DataInv

-----------------------------------------------------------------------------
(* Where a step leaves the loop. *)

\* A step that is not about the connection being served.
Others ==
  \A d \in Ids \ {Cur} : obj'[d] = obj[d] /\ life'[d] = life[d] /\ input'[d].buf = input[d].buf

\* Connection c is quiet after the step.
QuietNext(c) ==
  obj'[c].open /\ obj'[c].upgraded /\ ~obj'[c].close_after_write => input'[c].buf = <<>>

\* The loop is left.
LEMMA BreakControl ==
  ASSUME loop \in LoopType, loop' = BreakLoop
  PROVE  loop' \in LoopType /\ ControlInv' /\ ~At("flush")' /\ ~At("onClose")'
<1>1. loop' \in LoopType /\ loop'.pc = "closing"
  BY DEF LoopType, BreakLoop
<1>2. ~InVisit' /\ ~InPurge' /\ Ending'
  BY <1>1 DEF InVisit, InPurge, Ending, Serving, At
<1> QED
  BY <1>1, <1>2 DEF ControlInv, PlaceInv, ServedInv, HandshakeInv, QuietInv, At

\* The sweep goes on, or the purge begins.
LEMMA SweepControl ==
  ASSUME TypeOK, ArrayInv, connections' = connections,
         NEW i \in 1..(Len(connections) + 1), loop' = SweepFrom(i),
         \A j \in 1..(i - 1) : Quiet(connections[j])',
         \A d \in Ids : ~(life'[d] = "handshake" /\ obj'[d].open)
  PROVE  loop' \in LoopType /\ ControlInv' /\ ~At("flush")' /\ ~At("onClose")'
<1>1. /\ connections \in Seq(Ids) /\ Len(connections) \in Nat
      /\ Len(connections) <= TotalConns /\ TotalConns \in Nat
  <2>1. /\ connections \in Seq(Ids) /\ net \in [left : Nat, backlog : Nat, accepted : Nat]
    BY DEF TypeOK
  <2>2. /\ net.left \in Nat /\ net.backlog \in Nat /\ net.accepted \in Nat
    BY <2>1
  <2>3. /\ net.left + net.backlog + net.accepted <= TotalConns
        /\ Len(connections) <= net.accepted
    BY DEF ArrayInv
  <2> QED
    BY <2>1, <2>2, <2>3, Bounds
<1>2. CASE i > Len(connections)
  <2>1. loop' = [pc |-> "purge", from |-> "sweep", i |-> 1, cur |-> NoConn, ret |-> "none"]
    BY <1>2 DEF SweepFrom
  <2>2. loop' \in LoopType /\ loop'.pc = "purge" /\ loop'.i = 1
    BY <1>1, <2>1 DEF LoopType
  <2>3. ~InVisit' /\ InPurge'
    BY <2>2 DEF InVisit, InPurge, Serving, At
  <2>4. \A j \in 1..Len(connections) : Quiet(connections[j])'
    BY <1>1, <1>2
  <2>5. QuietInv'
    BY <2>3, <2>4 DEF QuietInv
  <2>6. PlaceInv'
    BY <1>1, <2>2, <2>3 DEF PlaceInv, At
  <2> QED
    BY <2>2, <2>5, <2>6 DEF ControlInv, ServedInv, HandshakeInv, At
<1>3. CASE i <= Len(connections)
  <2>1. loop' = [pc |-> "visit", from |-> "sweep", i |-> i, cur |-> connections[i], ret |-> "none"]
    BY <1>1, <1>3 DEF SweepFrom
  <2>2. i \in 1..Len(connections) /\ connections[i] \in Ids /\ i \in 0..(TotalConns + 1)
    BY <1>1, <1>3
  <2>3. /\ loop' \in LoopType /\ loop'.pc = "visit" /\ loop'.i = i /\ loop'.cur = connections[i]
        /\ loop'.ret = "none"
    BY <2>1, <2>2 DEF LoopType
  <2>4. InVisit' /\ ~InPurge'
    BY <2>3 DEF InVisit, InPurge, Serving, At
  <2>5. QuietInv'
    BY <2>3, <2>4 DEF QuietInv
  <2>6. PlaceInv'
    BY <2>2, <2>3, <2>4 DEF PlaceInv, At, Cur, Listed, Contains
  <2> QED
    BY <2>3, <2>5, <2>6 DEF ControlInv, ServedInv, HandshakeInv, At
<1> QED
  BY <1>1, <1>2, <1>3

\* Two places of the array hold two connections.
LEMMA Distinct ==
  ASSUME ServerInv, NEW i \in 1..Len(connections), NEW j \in 1..Len(connections), i # j
  PROVE  connections[i] # connections[j] /\ connections[i] \in Ids
<1>1. connections \in Seq(Ids)
  BY DEF ServerInv, TypeOK
<1> QED
  BY <1>1 DEF ServerInv, DataInv, ArrayInv

\* A visit ends.
LEMMA VisitedControl ==
  ASSUME ServerInv, InVisit, loop' = Visited, connections' = connections, Others,
         loop.from = "sweep" => QuietNext(Cur),
         ~(life'[Cur] = "handshake" /\ obj'[Cur].open)
  PROVE  loop' \in LoopType /\ ControlInv' /\ ~At("flush")' /\ ~At("onClose")'
<1>0. /\ TypeOK /\ ArrayInv /\ PlaceInv /\ QuietInv /\ HandshakeInv /\ loop \in LoopType
      /\ connections \in Seq(Ids) /\ Len(connections) \in Nat
  BY DEF ServerInv, DataInv, ControlInv, TypeOK
<1>1. \A d \in Ids : ~(life'[d] = "handshake" /\ obj'[d].open)
  <2> SUFFICES ASSUME NEW d \in Ids, d # Cur, life[d] = "handshake", obj[d].open PROVE FALSE
    BY DEF Others
  <2>1. ~Ending
    BY <1>0 DEF InVisit, Ending, Serving, At, LoopType
  <2> QED
    BY <1>0, <2>1 DEF HandshakeInv
<1>2. CASE loop.from = "fd"
  <2>1. loop' = SweepFrom(1)
    BY <1>2 DEF Visited
  <2>2. 1 \in 1..(Len(connections) + 1) /\ \A j \in 1..(1 - 1) : Quiet(connections[j])'
    BY <1>0
  <2> QED
    BY <1>0, <1>1, <2>1, <2>2, SweepControl
<1>3. CASE loop.from = "sweep"
  <2>1. loop' = SweepFrom(loop.i + 1)
    BY <1>3 DEF Visited
  <2>2. /\ loop.i \in 1..Len(connections) /\ connections[loop.i] = Cur
        /\ \A j \in 1..(loop.i - 1) : Quiet(connections[j])
    BY <1>0, <1>3 DEF PlaceInv, QuietInv
  <2>3. ASSUME NEW j \in 1..((loop.i + 1) - 1)
        PROVE  Quiet(connections[j])'
    <3>1. CASE j = loop.i
      <4>1. connections'[j] = Cur
        BY <2>2, <3>1
      <4> QED
        BY <1>3, <4>1 DEF Quiet, QuietNext
    <3>2. CASE j # loop.i
      <4>1. j \in 1..(loop.i - 1) /\ j \in 1..Len(connections)
        BY <2>2, <2>3, <3>2
      <4>2. connections[j] # Cur /\ connections[j] \in Ids
        BY <2>2, <3>2, <4>1, Distinct
      <4>3. Quiet(connections[j])
        BY <2>2, <4>1
      <4> QED
        BY <4>2, <4>3 DEF Quiet, Others
    <3> QED
      BY <3>1, <3>2
  <2>4. loop.i + 1 \in 1..(Len(connections) + 1)
    BY <1>0, <2>2
  <2> QED
    BY <1>0, <1>1, <2>1, <2>3, <2>4, SweepControl
<1> QED
  BY <1>0, <1>2, <1>3 DEF LoopType

\* A visit goes on with the same connection.
LEMMA StayControl ==
  ASSUME ServerInv, InVisit, connections' = connections, Others,
         loop' \in LoopType, loop'.from = loop.from, loop'.i = loop.i, loop'.cur = loop.cur,
         loop'.pc \in Serving \/ (loop'.pc = "onClose" /\ loop'.ret = "upgrade" /\ ~obj'[Cur].open),
         ServedInv',
         life'[Cur] = "handshake" /\ obj'[Cur].open => loop'.pc \in {"onHandshake", "upgrade"}
  PROVE  ControlInv'
<1>0. /\ PlaceInv /\ QuietInv /\ HandshakeInv /\ loop \in LoopType
      /\ connections \in Seq(Ids) /\ Len(connections) \in Nat /\ Cur' = Cur
  BY DEF ServerInv, DataInv, ControlInv, TypeOK, Cur
<1>1. InVisit' /\ ~InPurge' /\ ~Ending /\ loop'.pc \notin {"wait", "accept", "off"}
  BY <1>0 DEF InVisit, InPurge, Ending, Serving, At, LoopType
<1>2. /\ Cur \in Ids /\ Listed(Cur)
      /\ loop.from = "sweep" =>
           /\ loop.i \in 1..Len(connections) /\ connections[loop.i] = Cur
           /\ \A j \in 1..(loop.i - 1) : Quiet(connections[j])
  BY <1>0 DEF PlaceInv, QuietInv
<1>3. PlaceInv'
  BY <1>0, <1>1, <1>2 DEF PlaceInv, Listed, At, Serving
<1>4. HandshakeInv'
  BY <1>0, <1>1 DEF HandshakeInv, Others, Cur
<1>5. QuietInv'
  <2>1. ASSUME loop.from = "sweep", NEW j \in 1..(loop.i - 1)
        PROVE  Quiet(connections[j])'
    <3>1. j \in 1..Len(connections) /\ j # loop.i /\ Quiet(connections[j])
      BY <1>0, <1>2, <2>1
    <3>2. connections[j] # Cur /\ connections[j] \in Ids
      BY <1>2, <2>1, <3>1, Distinct
    <3> QED
      BY <3>1, <3>2 DEF Quiet, Others
  <2> QED
    BY <1>1, <2>1 DEF QuietInv
<1> QED
  BY <1>3, <1>4, <1>5 DEF ControlInv

\* A visit goes on at another point: pc and the return point may change.
LEMMA GotoControl ==
  ASSUME ServerInv, InVisit, connections' = connections, Others,
         NEW pc \in Serving, NEW ret \in {"none", "reads", "last", "sweep", "upgrade"},
         loop' = [loop EXCEPT !.pc = pc, !.ret = ret] \/ loop' = Goto(pc),
         ServedInv',
         life'[Cur] = "handshake" /\ obj'[Cur].open => pc \in {"onHandshake", "upgrade"}
  PROVE  /\ loop' \in LoopType /\ loop'.pc = pc /\ Cur' = Cur
         /\ ControlInv' /\ ~At("onClose")' /\ (pc # "flush" => ~At("flush")')
<1>1. loop \in LoopType
  BY DEF ServerInv, TypeOK
<1>2. /\ loop' \in LoopType /\ loop'.pc = pc /\ loop'.from = loop.from /\ loop'.i = loop.i
      /\ loop'.cur = loop.cur
  BY <1>1, ZenonT(40) DEF LoopType, Goto, Serving
<1>3. ControlInv'
  BY <1>2, StayControl
<1> QED
  BY <1>2, <1>3 DEF At, Cur, Serving

\* In a visit, outside the handshake itself, nobody is in the handshake.
LEMMA NoHandshake ==
  ASSUME ServerInv, ~Ending, loop.pc \notin {"onHandshake", "upgrade"}
  PROVE  \A d \in Ids : ~(life[d] = "handshake" /\ obj[d].open)
  BY DEF ServerInv, ControlInv, HandshakeInv

\* process_handshake() returns to the visit.
LEMMA HandshakeReturnsControl ==
  ASSUME ServerInv, InVisit, connections' = connections, Others,
         NEW o, NEW buf, loop' = HandshakeReturns(o, buf),
         ~(o.upgraded /\ buf # <<>>) => QuietNext(Cur),
         ~(life'[Cur] = "handshake" /\ obj'[Cur].open)
  PROVE  loop' \in LoopType /\ ControlInv' /\ ~At("flush")' /\ ~At("onClose")'
<1>1. CASE loop.from = "sweep" /\ o.upgraded /\ buf # <<>>
  <2>1. loop' = [loop EXCEPT !.pc = "frames", !.ret = "sweep"]
    BY <1>1 DEF HandshakeReturns
  <2>2. loop'.pc = "frames"
    BY <2>1 DEF ServerInv, TypeOK, LoopType
  <2>3. ServedInv'
    BY <2>2 DEF ServedInv, At
  <2> QED
    BY <2>1, <2>3, GotoControl DEF Serving
<1>2. CASE ~(loop.from = "sweep" /\ o.upgraded /\ buf # <<>>)
  <2>1. loop' = Visited
    BY <1>2 DEF HandshakeReturns
  <2>2. loop.from = "sweep" => QuietNext(Cur)
    BY <1>2
  <2> QED
    BY <2>1, <2>2, VisitedControl
<1> QED
  BY <1>1, <1>2

\* process_buffered_frames() returns to its caller.
LEMMA FramesReturnControl ==
  ASSUME ServerInv, At("frames"), connections' = connections, Others,
         NEW o, NEW buf, loop' = FramesReturn(o, buf),
         QuietNext(Cur), ~(life'[Cur] = "handshake" /\ obj'[Cur].open)
  PROVE  loop' \in LoopType /\ ControlInv' /\ ~At("flush")' /\ ~At("onClose")'
<1>0. InVisit
  BY DEF InVisit, Serving, At
<1>1. CASE loop.ret = "reads"
  <2>1. loop' = Goto("reads")
    BY <1>1 DEF FramesReturn
  <2>2. loop'.pc = "reads"
    BY <2>1 DEF ServerInv, TypeOK, LoopType, Goto
  <2>3. ServedInv'
    BY <2>2 DEF ServedInv, At
  <2> QED
    BY <1>0, <2>1, <2>3, GotoControl DEF Serving
<1>2. CASE loop.ret = "upgrade"
  <2>1. loop' = HandshakeReturns(o, buf)
    BY <1>2 DEF FramesReturn
  <2> QED
    BY <1>0, <2>1, HandshakeReturnsControl
<1>3. CASE loop.ret \notin {"reads", "upgrade"}
  <2>1. loop' = Visited
    BY <1>3 DEF FramesReturn
  <2> QED
    BY <1>0, <2>1, VisitedControl
<1> QED
  BY <1>1, <1>2, <1>3

\* Where a visit goes after the timers and the pending writes.
LEMMA DispatchControl ==
  ASSUME ServerInv, loop.pc \in {"visit", "flush"}, connections' = connections, Others,
         input' = input, life' = life, LifeFits(life[Cur], obj'[Cur]),
         obj'[Cur].open => obj[Cur].open, loop' = Dispatch(obj'[Cur])
  PROVE  loop' \in LoopType /\ ControlInv' /\ ~At("flush")' /\ ~At("onClose")'
<1>0. InVisit /\ ~Ending /\ loop.pc \notin {"onHandshake", "upgrade"}
  BY DEF InVisit, Ending, Serving, At
<1>1. Cur \in Ids /\ loop \in LoopType
  BY <1>0 DEF ServerInv, ControlInv, PlaceInv, TypeOK
<1>2. ~(life'[Cur] = "handshake" /\ obj'[Cur].open)
  BY <1>0, <1>1, NoHandshake
<1>3. CASE ~obj'[Cur].open \/ obj'[Cur].close_after_write
  <2>1. loop' = Visited
    BY <1>3 DEF Dispatch
  <2>2. QuietNext(Cur)
    BY <1>3 DEF QuietNext
  <2> QED
    BY <1>0, <1>2, <2>1, <2>2, VisitedControl
<1>4. CASE obj'[Cur].open /\ ~obj'[Cur].close_after_write /\ ~obj'[Cur].upgraded
  <2>1. loop' = Goto("handshake")
    BY <1>4 DEF Dispatch
  <2>2. loop'.pc = "handshake" /\ Cur' = Cur
    BY <1>1, <2>1 DEF LoopType, Goto, Cur
  <2>3. life'[Cur] = "none"
    <3>1. life[Cur] \in LifeStates
      BY <1>1 DEF ServerInv, TypeOK
    <3> QED
      BY <1>2, <1>4, <3>1 DEF LifeFits, LifeStates
  <2>4. ServedInv'
    BY <1>4, <2>2, <2>3 DEF ServedInv, At
  <2> QED
    BY <1>0, <1>2, <2>1, <2>4, GotoControl DEF Serving
<1>5. CASE obj'[Cur].open /\ ~obj'[Cur].close_after_write /\ obj'[Cur].upgraded
  <2>1. loop' = IF loop.from = "fd" THEN Goto("reads")
                ELSE IF input[Cur].buf # <<>> THEN [loop EXCEPT !.pc = "frames", !.ret = "sweep"]
                ELSE Visited
    BY <1>5 DEF Dispatch
  <2>2. CASE loop.from = "fd"
    <3>1. loop' = Goto("reads") /\ loop'.pc = "reads"
      BY <1>1, <2>1, <2>2 DEF LoopType, Goto
    <3>2. ServedInv'
      BY <3>1 DEF ServedInv, At
    <3> QED
      BY <1>0, <1>2, <3>1, <3>2, GotoControl DEF Serving
  <2>3. CASE loop.from # "fd" /\ input[Cur].buf # <<>>
    <3>1. loop' = [loop EXCEPT !.pc = "frames", !.ret = "sweep"] /\ loop'.pc = "frames"
      BY <1>1, <2>1, <2>3 DEF LoopType
    <3>2. ServedInv'
      BY <3>1 DEF ServedInv, At
    <3> QED
      BY <1>0, <1>2, <3>1, <3>2, GotoControl DEF Serving
  <2>4. CASE loop.from # "fd" /\ input[Cur].buf = <<>>
    <3>1. loop' = Visited /\ QuietNext(Cur)
      BY <2>1, <2>4 DEF QuietNext
    <3> QED
      BY <1>0, <1>2, <3>1, VisitedControl
  <2> QED
    BY <2>2, <2>3, <2>4
<1> QED
  BY <1>3, <1>4, <1>5

-----------------------------------------------------------------------------
(* The steps, one lemma per group of actions. *)

\* The other variables keep their types.
RestTypes ==
  /\ input' \in [Ids -> [buf : Seq(PeerUnits), rx : Seq(PeerUnits)]]
  /\ peer' \in [Ids -> [left : 0..MaxInput, asked : BOOLEAN, gone : BOOLEAN]]
  /\ running' \in BOOLEAN /\ exception' \in BOOLEAN /\ calls' \in 0..MaxCalls

\* A step that changes none of them.
LEMMA SameRest ==
  ASSUME ServerInv, UNCHANGED <<input, peer, running, exception, calls>>
  PROVE  RestTypes
  BY DEF ServerInv, TypeOK, RestTypes

\* What a step shows: the invariant again, and nothing comes back to life.
NoRevival ==
  \A c \in Ids : c <= net.accepted /\ ~obj[c].open =>
    ~obj'[c].open /\ Len(obj'[c].write_queue) <= Len(obj[c].write_queue)

StepOK == ServerInv' /\ NoRevival

\* A step that leaves the array alone.
LEMMA StepInv ==
  ASSUME ServerInv, DataMoves, options' = options, connections' = connections,
         net' \in [left : Nat, backlog : Nat, accepted : Nat],
         net'.left + net'.backlog + net'.accepted <= TotalConns,
         net'.accepted = net.accepted,
         exception => exception', RestTypes,
         loop' \in LoopType, ControlInv',
         \A d \in Ids : Settled(obj'[d]) \/ (At("flush")' /\ Cur' = d),
         \A d \in Ids : At("onClose") /\ Cur = d /\ obj'[d].fd # NoFd =>
                          Listed(d) \/ (At("onClose")' /\ Cur' = d)
  PROVE  StepOK
<1>1. DataInv'
  BY DataStep
<1>2. TypeOK'
  BY DEF ServerInv, TypeOK, DataMoves, RestTypes, MaxConnections
<1> QED
  BY <1>1, <1>2 DEF StepOK, ServerInv, NoRevival, DataMoves

\* The usual case: one object evolves, or none, outside on_close and flush().
LEMMA PlainStep ==
  ASSUME ServerInv, DataMoves, UNCHANGED <<options, connections, net>>,
         exception => exception', RestTypes,
         loop' \in LoopType, ControlInv',
         ~At("onClose") \/ InVisit,
         \A d \in Ids : Settled(obj'[d]) \/ (At("flush")' /\ Cur' = d)
  PROVE  StepOK
<1>1. /\ net \in [left : Nat, backlog : Nat, accepted : Nat]
      /\ net.left + net.backlog + net.accepted <= TotalConns
  BY DEF ServerInv, TypeOK, DataInv, ArrayInv
<1>2. At("onClose") => Listed(Cur)
  BY DEF ServerInv, ControlInv, PlaceInv
<1> QED
  BY <1>1, <1>2, StepInv

\* Outside flush() every connection is settled.
LEMMA AllSettled ==
  ASSUME ServerInv, ~At("flush")
  PROVE  \A d \in Ids : Settled(obj[d])
  BY DEF ServerInv, DataInv, ObjectsInv

\* Waiting for the driver.
LEMMA WaitSteps ==
  ASSUME ServerInv, options' = options,
         LoopEnds \/ WaitTimeout \/ WaitListener \/ WaitFails \/ \E c \in Ids : WaitConnection(c)
  PROVE  StepOK
<1>0. /\ loop \in LoopType /\ loop.pc = "wait" /\ TypeOK /\ ArrayInv
      /\ ~At("onClose") /\ ~At("flush") /\ ~Ending
      /\ connections \in Seq(Ids) /\ Len(connections) \in Nat
  BY DEF ServerInv, TypeOK, DataInv, LoopEnds, WaitTimeout, WaitListener, WaitFails, WaitConnection,
         At, Ending
<1>1. UNCHANGED <<connections, obj, input, peer, net, running, calls, life>>
  BY DEF LoopEnds, WaitTimeout, WaitListener, WaitFails, WaitConnection
<1>2. exception' \in BOOLEAN /\ (exception => exception')
  BY <1>0 DEF LoopEnds, WaitTimeout, WaitListener, WaitFails, WaitConnection, TypeOK
<1>3. DataMoves /\ RestTypes /\ \A d \in Ids : Settled(obj'[d])
  BY <1>0, <1>1, <1>2, StillMoves, AllSettled DEF RestTypes, TypeOK
<1>4. \A d \in Ids : ~(life'[d] = "handshake" /\ obj'[d].open)
  BY <1>0, <1>1, NoHandshake
<1>5. \A i \in 1..Len(connections) : Quiet(connections[i])'
  BY <1>0, <1>1 DEF ServerInv, ControlInv, QuietInv, Quiet
<1>6. loop' \in LoopType /\ ControlInv'
  <2>1. CASE LoopEnds \/ WaitFails
    BY <1>0, <2>1, BreakControl DEF LoopEnds, WaitFails
  <2>2. CASE WaitTimeout
    <3>1. loop' = SweepFrom(1) /\ 1 \in 1..(Len(connections) + 1)
      BY <1>0, <2>2 DEF WaitTimeout
    <3>2. \A j \in 1..(1 - 1) : Quiet(connections[j])'
      OBVIOUS
    <3> QED
      BY <1>0, <1>1, <1>4, <3>1, <3>2, SweepControl
  <2>3. CASE WaitListener
    <3>1. loop' \in LoopType /\ loop'.pc = "accept"
      BY <1>0, <2>3 DEF WaitListener, Goto, LoopType
    <3>2. ~InVisit' /\ ~InPurge'
      BY <3>1 DEF InVisit, InPurge, Serving, At
    <3>3. QuietInv'
      BY <1>1, <1>5, <3>2 DEF QuietInv
    <3> QED
      BY <1>4, <3>1, <3>2, <3>3 DEF ControlInv, PlaceInv, ServedInv, HandshakeInv, At
  <2>4. CASE \E c \in Ids : WaitConnection(c)
    <3>1. PICK c \in Ids : WaitConnection(c)
      BY <2>4
    <3>2. /\ loop' = [pc |-> "visit", from |-> "fd", i |-> 0, cur |-> c, ret |-> "none"]
          /\ Contains(connections, c)
      BY <3>1 DEF WaitConnection
    <3>3. loop' \in LoopType /\ loop'.pc = "visit" /\ loop'.from = "fd" /\ loop'.cur = c
      BY <3>2, Bounds DEF LoopType
    <3>4. InVisit' /\ ~InPurge' /\ Cur' = c
      BY <3>3 DEF InVisit, InPurge, Serving, At, Cur
    <3>5. PlaceInv' /\ QuietInv'
      BY <1>1, <3>2, <3>3, <3>4 DEF PlaceInv, QuietInv, Listed, At
    <3> QED
      BY <1>4, <3>3, <3>5 DEF ControlInv, ServedInv, HandshakeInv, At
  <2> QED
    BY <2>1, <2>2, <2>3, <2>4
<1> QED
  BY <1>0, <1>1, <1>2, <1>3, <1>6, PlainStep

\* accept_connection(), but for the connection it adds.
LEMMA RefuseSteps ==
  ASSUME ServerInv, options' = options, AcceptRefuses \/ AcceptThrows \/ AcceptStops
  PROVE  StepOK
<1>0. /\ loop \in LoopType /\ loop.pc = "accept" /\ TypeOK /\ ArrayInv
      /\ ~At("onClose") /\ ~At("flush") /\ ~Ending
      /\ connections \in Seq(Ids) /\ Len(connections) \in Nat
      /\ net \in [left : Nat, backlog : Nat, accepted : Nat]
      /\ net.left + net.backlog + net.accepted <= TotalConns
  BY DEF ServerInv, TypeOK, DataInv, ArrayInv, AcceptRefuses, AcceptThrows, AcceptStops, At, Ending
<1>1. UNCHANGED <<connections, obj, input, peer, running, calls, life>>
  BY DEF AcceptRefuses, AcceptThrows, AcceptStops
<1>2. exception' \in BOOLEAN /\ (exception => exception')
  BY <1>0 DEF AcceptRefuses, AcceptThrows, AcceptStops, TypeOK
<1>3. DataMoves /\ RestTypes /\ \A d \in Ids : Settled(obj'[d])
  BY <1>0, <1>1, <1>2, StillMoves, AllSettled DEF RestTypes, TypeOK
<1>4. \A d \in Ids : ~(life'[d] = "handshake" /\ obj'[d].open)
  BY <1>0, <1>1, NoHandshake
<1>5. /\ net' \in [left : Nat, backlog : Nat, accepted : Nat]
      /\ net'.left + net'.backlog + net'.accepted <= TotalConns
      /\ net'.accepted = net.accepted
  <2>1. net' = net \/ (net' = [net EXCEPT !.backlog = @ - 1] /\ net.backlog > 0)
    BY DEF AcceptRefuses, AcceptThrows, AcceptStops
  <2>2. net.left \in Nat /\ net.backlog \in Nat /\ net.accepted \in Nat
    BY <1>0
  <2>3. net.backlog > 0 => net.backlog - 1 \in Nat
    BY <2>2
  <2> QED
    BY <1>0, <2>1, <2>2, <2>3, Bounds, SMTT(30)
<1>6. loop' \in LoopType /\ ControlInv'
  <2>1. CASE AcceptThrows
    BY <1>0, <2>1, BreakControl DEF AcceptThrows
  <2>2. CASE AcceptStops
    <3>1. loop' = SweepFrom(1) /\ 1 \in 1..(Len(connections) + 1)
      BY <1>0, <2>2 DEF AcceptStops
    <3>2. \A j \in 1..(1 - 1) : Quiet(connections[j])'
      OBVIOUS
    <3> QED
      BY <1>0, <1>1, <1>4, <3>1, <3>2, SweepControl
  <2>3. CASE AcceptRefuses
    <3>1. loop' = loop
      BY <2>3 DEF AcceptRefuses
    <3>2. QuietInv' /\ PlaceInv'
      BY <1>0, <1>1, <3>1 DEF ServerInv, ControlInv, QuietInv, Quiet, PlaceInv, InVisit, InPurge,
             Listed, At, Cur
    <3> QED
      BY <1>0, <1>4, <3>1, <3>2 DEF ControlInv, ServedInv, HandshakeInv, At
  <2> QED
    BY <2>1, <2>2, <2>3
<1> QED
  BY <1>0, <1>1, <1>2, <1>3, <1>5, <1>6, StepInv

\* accept() finds a descriptor: fewer connections hold one than exist.
LEMMA FreeFdExists ==
  ASSUME ServerInv, At("accept"), net.backlog > 0
  PROVE  FreeFd \in Ids /\ \A c \in Ids : obj[c].fd # FreeFd
<1>0. /\ obj \in [Ids -> ServerConn] /\ TotalConns \in Nat /\ NoFd \notin Ids
      /\ net.left \in Nat /\ net.backlog \in Nat /\ net.accepted \in Nat
      /\ net.left + net.backlog + net.accepted <= TotalConns
  BY Bounds DEF ServerInv, TypeOK, DataInv, ArrayInv
<1>1. net.accepted < TotalConns
  BY <1>0
<1> DEFINE Free == {e \in Ids : \A c \in Ids : obj[c].fd # e}
<1>2. \A c \in Ids : obj[c].fd # NoFd => c \in 1..net.accepted
  <2> SUFFICES ASSUME NEW c \in Ids, obj[c].fd # NoFd PROVE c \in 1..net.accepted
    OBVIOUS
  <2>1. Listed(c)
    BY DEF ServerInv, DataInv, DescriptorsOwned, At, Listed
  <2>2. ~(c > net.accepted)
    BY <2>1 DEF ServerInv, DataInv, ArrayInv
  <2> QED
    BY <1>0, <2>2 DEF Ids
<1>3. Free # {}
  <2> SUFFICES ASSUME Free = {} PROVE FALSE
    OBVIOUS
  <2>1. \A e \in Ids : \E c \in Ids : obj[c].fd = e
    OBVIOUS
  <2> DEFINE holder == [e \in 1..TotalConns |-> CHOOSE c \in Ids : obj[c].fd = e]
  <2>2. \A e \in 1..TotalConns : holder[e] \in Ids /\ obj[holder[e]].fd = e
    BY <2>1 DEF Ids
  <2> HIDE DEF holder
  <2>3. \A e \in 1..TotalConns : holder[e] \in 1..net.accepted
    <3> SUFFICES ASSUME NEW e \in 1..TotalConns PROVE holder[e] \in 1..net.accepted
      OBVIOUS
    <3>1. e # NoFd /\ holder[e] \in Ids /\ obj[holder[e]].fd = e
      BY <1>0, <2>2 DEF Ids
    <3> QED
      BY <1>2, <3>1
  <2>4. TotalConns \in Nat /\ net.accepted \in Nat /\ net.accepted < TotalConns
    BY <1>0, <1>1
  <2>5. \A g \in [1..TotalConns -> 1..net.accepted] :
          \E x, y \in 1..TotalConns : x # y /\ g[x] = g[y]
    BY <2>4, Pigeon
  <2>6. [e \in 1..TotalConns |-> holder[e]] \in [1..TotalConns -> 1..net.accepted]
    BY <2>3
  <2>7. \E x, y \in 1..TotalConns : x # y /\ holder[x] = holder[y]
    <3>1. PICK x \in 1..TotalConns, y \in 1..TotalConns :
            x # y /\ [e \in 1..TotalConns |-> holder[e]][x] = [e \in 1..TotalConns |-> holder[e]][y]
      BY <2>5, <2>6
    <3> QED
      BY <3>1
  <2> QED
    BY <2>2, <2>7
<1>4. Free \subseteq Nat
  BY DEF Ids
<1>5. PICK fd \in Free : \A e \in Free : fd <= e
  BY <1>3, <1>4, LeastNat
<1>6. \E e \in Ids : /\ \A c \in Ids : obj[c].fd # e
                     /\ \A d \in Ids : (\A c \in Ids : obj[c].fd # d) => e <= d
  BY <1>5
<1> QED
  BY <1>6 DEF FreeFd

\* accept_connection() adds a connection.
LEMMA AcceptsConnection ==
  ASSUME ServerInv, options' = options, Accept,
         NEW c \in Ids, c = net.accepted + 1,
         NEW fd \in Ids, fd = FreeFd, \A d \in Ids : obj[d].fd # fd
  PROVE  StepOK
<1> DEFINE o == Opened(fd)
<1>0. /\ loop \in LoopType /\ loop.pc = "accept" /\ TypeOK /\ ArrayInv /\ net.backlog > 0
      /\ ~At("onClose") /\ ~At("flush") /\ ~Ending
      /\ connections \in Seq(Ids) /\ Len(connections) \in Nat
      /\ net \in [left : Nat, backlog : Nat, accepted : Nat]
      /\ net.left \in Nat /\ net.backlog \in Nat /\ net.accepted \in Nat
      /\ net.left + net.backlog + net.accepted <= TotalConns
      /\ Len(connections) <= net.accepted
      /\ obj \in [Ids -> ServerConn] /\ life \in [Ids -> LifeStates]
      /\ TotalConns \in Nat /\ MaxConnections \in Nat
  <2>1. options \in Options
    BY DEF ServerInv, TypeOK
  <2>2. MaxConnections \in Nat
    BY <2>1, ServerAssumption DEF MaxConnections
  <2>3. /\ loop \in LoopType /\ TypeOK /\ ArrayInv
        /\ connections \in Seq(Ids)
        /\ net \in [left : Nat, backlog : Nat, accepted : Nat]
        /\ net.left + net.backlog + net.accepted <= TotalConns
        /\ Len(connections) <= net.accepted
        /\ obj \in [Ids -> ServerConn] /\ life \in [Ids -> LifeStates]
    BY DEF ServerInv, TypeOK, DataInv, ArrayInv
  <2>4. loop.pc = "accept" /\ net.backlog > 0
    BY DEF Accept, At
  <2>5. ~At("onClose") /\ ~At("flush") /\ ~Ending
    BY <2>4 DEF At, Ending
  <2> QED
    BY <2>2, <2>3, <2>4, <2>5, Bounds
<1>1. /\ UNCHANGED <<loop, input, peer, running, exception, calls, life>>
      /\ obj' = [obj EXCEPT ![c] = o] /\ connections' = Append(connections, c)
      /\ net' = [net EXCEPT !.backlog = @ - 1, !.accepted = @ + 1]
      /\ Len(connections) < MaxConnections
  BY DEF Accept
<1>2. c \in Ids /\ c > net.accepted
  BY <1>0 DEF Ids
<1>3. fd \in Ids /\ \A d \in Ids : obj[d].fd # fd
  OBVIOUS
<1>4. life[c] = "none" /\ ~Listed(c)
  BY <1>2 DEF ServerInv, DataInv, ArrayInv
<1>5. /\ o \in ServerConn /\ o.fd = fd /\ o.open /\ ~o.upgraded /\ ~o.close_notified
      /\ o.write_queue = <<>> /\ ~o.write_watched /\ o.interest = {"read"}
      /\ ~o.close_after_write
  BY <1>3, Bounds DEF Opened, ServerConn, Interests
<1>6. ConnOK(o) /\ Settled(o) /\ LifeFits("none", o)
  BY <1>3, <1>5, Bounds DEF ConnOK, Settled, LifeFits
<1> HIDE DEF o
<1>7. /\ connections' \in Seq(Ids) /\ Len(connections') = Len(connections) + 1
      /\ \A i \in 1..Len(connections) : connections'[i] = connections[i]
      /\ connections'[Len(connections) + 1] = c
  BY <1>0, <1>1, <1>2, AppendProperties
<1>8. /\ net' \in [left : Nat, backlog : Nat, accepted : Nat]
      /\ net'.left = net.left /\ net'.backlog = net.backlog - 1
      /\ net'.accepted = net.accepted + 1
  <2>1. /\ net \in [left : Nat, backlog : Nat, accepted : Nat]
        /\ net.backlog - 1 \in Nat /\ net.accepted + 1 \in Nat
    BY <1>0
  <2>2. net' = [net EXCEPT !.backlog = net.backlog - 1, !.accepted = net.accepted + 1]
    BY <1>1
  <2> QED
    BY <2>1, <2>2
<1>9. obj' \in [Ids -> ServerConn] /\ obj'[c] = o /\ \A d \in Ids \ {c} : obj'[d] = obj[d]
  BY <1>0, <1>1, <1>2, <1>5
<1>10. \A d \in Ids : Listed(d)' <=> (Listed(d) \/ d = c)
  <2>1. ASSUME NEW d \in Ids, Listed(d)
        PROVE  Listed(d)'
    <3>1. PICK i \in 1..Len(connections) : connections[i] = d
      BY <2>1 DEF Listed, Contains
    <3>2. i \in 1..Len(connections') /\ connections'[i] = d
      BY <1>0, <1>7, <3>1
    <3> QED
      BY <3>2 DEF Listed, Contains
  <2>2. Listed(c)'
    <3>1. Len(connections) + 1 \in 1..Len(connections')
      BY <1>0, <1>7
    <3> QED
      BY <1>7, <3>1 DEF Listed, Contains
  <2>3. ASSUME NEW d \in Ids, Listed(d)', d # c
        PROVE  Listed(d)
    <3>1. PICK i \in 1..Len(connections') : connections'[i] = d
      BY <2>3 DEF Listed, Contains
    <3>2. i \in 1..Len(connections)
      BY <1>0, <1>7, <2>3, <3>1
    <3> QED
      BY <1>7, <3>1, <3>2 DEF Listed, Contains
  <2> QED
    BY <2>1, <2>2, <2>3
<1>11. ArrayInv'
  <2>1. net'.left + net'.backlog + net'.accepted <= TotalConns /\ Len(connections') <= net'.accepted
    BY <1>0, <1>7, <1>8, SMTT(30)
  <2>2. ASSUME NEW i \in 1..Len(connections'), NEW j \in 1..Len(connections'),
               connections'[i] = connections'[j]
        PROVE  i = j
    <3>1. \A k \in 1..Len(connections) : connections[k] # c
      BY <1>4 DEF Listed, Contains
    <3>2. \A a, b \in 1..Len(connections) : connections[a] = connections[b] => a = b
      BY <1>0 DEF ArrayInv
    <3>3. \A k \in 1..Len(connections') : k \in 1..Len(connections) \/ k = Len(connections) + 1
      BY <1>0, <1>7
    <3> QED
      BY <1>7, <2>2, <3>1, <3>2, <3>3
  <2>3. ASSUME NEW d \in Ids, d > net'.accepted
        PROVE  life'[d] = "none" /\ ~Listed(d)'
    <3>1. d > net.accepted /\ d # c
      BY <1>0, <1>8, <2>3 DEF Ids
    <3> QED
      BY <1>0, <1>1, <1>10, <3>1 DEF ArrayInv
  <2> QED
    BY <2>1, <2>2, <2>3 DEF ArrayInv
<1>12. ObjectsInv'
  BY <1>0, <1>1, <1>4, <1>6, <1>9, AllSettled DEF ServerInv, DataInv, ObjectsInv, At, Cur
<1>13. DescriptorsOwned'
  <2>1. \A d \in Ids \ {c} : /\ obj[d].fd # NoFd =>
                                  /\ \A e \in Ids \ {d} : obj[e].fd # obj[d].fd
                                  /\ Listed(d)
                             /\ obj[d].interest # {} => Listed(d) /\ obj[d].fd # NoFd
    BY <1>0 DEF ServerInv, DataInv, DescriptorsOwned, Listed, At
  <2>2. ASSUME NEW d \in Ids
        PROVE  /\ obj'[d].fd # NoFd => /\ \A e \in Ids \ {d} : obj'[e].fd # obj'[d].fd
                                       /\ Listed(d)'
               /\ obj'[d].interest # {} => Listed(d)' /\ obj'[d].fd # NoFd
    BY <1>2, <1>3, <1>5, <1>9, <1>10, <2>1, Bounds
  <2> QED
    BY <2>2 DEF DescriptorsOwned, Listed
<1>14. ReportedInv'
  BY <1>1, <1>10 DEF ServerInv, DataInv, ReportedInv, Handlers
<1>15. TypeOK'
  <2>1. Len(connections') <= MaxConnections'
    BY <1>0, <1>1, <1>7 DEF MaxConnections
  <2> QED
    BY <1>0, <1>1, <1>7, <1>8, <1>9, <2>1 DEF TypeOK
<1>16. ControlInv'
  <2>1. loop'.pc = "accept" /\ ~InVisit' /\ ~InPurge'
    BY <1>0, <1>1 DEF InVisit, InPurge, Serving, At
  <2>2. \A d \in Ids : ~(life'[d] = "handshake" /\ obj'[d].open)
    BY <1>0, <1>1, <1>4, <1>9, NoHandshake
  <2>3. ASSUME NEW i \in 1..Len(connections')
        PROVE  Quiet(connections[i])'
    <3>1. CASE i = Len(connections) + 1
      BY <1>5, <1>7, <1>9, <3>1 DEF Quiet
    <3>2. CASE i # Len(connections) + 1
      <4>1. i \in 1..Len(connections)
        BY <1>0, <1>7, <2>3, <3>2
      <4>2. connections'[i] = connections[i] /\ connections[i] \in Ids /\ connections[i] # c
        BY <1>0, <1>4, <1>7, <4>1 DEF Listed, Contains
      <4>3. Quiet(connections[i])
        BY <1>0, <4>1 DEF ServerInv, ControlInv, QuietInv
      <4> QED
        BY <1>1, <1>9, <4>2, <4>3 DEF Quiet
    <3> QED
      BY <3>1, <3>2
  <2>4. QuietInv'
    BY <2>1, <2>3 DEF QuietInv
  <2> QED
    BY <2>1, <2>2, <2>4 DEF ControlInv, PlaceInv, ServedInv, HandshakeInv, At
<1>17. NoRevival
  <2>1. ASSUME NEW d \in Ids, d <= net.accepted, ~obj[d].open
        PROVE  ~obj'[d].open /\ Len(obj'[d].write_queue) <= Len(obj[d].write_queue)
    <3>1. obj'[d] = obj[d]
      <4>1. d # c
        BY <1>0, <1>2, <2>1 DEF Ids
      <4> QED
        BY <1>9, <4>1
    <3>2. Len(obj[d].write_queue) \in Nat
      <4>1. obj[d] \in ServerConn
        BY <1>0
      <4> QED
        BY <4>1 DEF ServerConn
    <3> QED
      BY <2>1, <3>1, <3>2
  <2> QED
    BY <2>1 DEF NoRevival
<1> QED
  BY <1>11, <1>12, <1>13, <1>14, <1>15, <1>16, <1>17 DEF StepOK, ServerInv, DataInv

\* accept_connection() below the limit.
LEMMA AcceptStep ==
  ASSUME ServerInv, options' = options, Accept
  PROVE  StepOK
<1>1. net.accepted + 1 \in Ids
  BY Bounds DEF Accept, ServerInv, TypeOK, DataInv, ArrayInv, Ids
<1>2. FreeFd \in Ids /\ \A d \in Ids : obj[d].fd # FreeFd
  BY FreeFdExists DEF Accept
<1> QED
  BY <1>1, <1>2, AcceptsConnection

-----------------------------------------------------------------------------
(* A visit. *)

\* What a visit knows of its connection.
LEMMA VisitFacts ==
  ASSUME ServerInv, InVisit
  PROVE  /\ Cur \in Ids /\ Listed(Cur) /\ loop \in LoopType /\ ~Ending
         /\ obj \in [Ids -> ServerConn]
         /\ ConnOK(obj[Cur]) /\ LifeFits(life[Cur], obj[Cur])
         /\ ~At("flush") => Settled(obj[Cur])
<1>1. Cur \in Ids /\ Listed(Cur) /\ loop \in LoopType /\ obj \in [Ids -> ServerConn]
  BY DEF ServerInv, TypeOK, ControlInv, PlaceInv
<1>2. ~Ending
  BY DEF InVisit, Ending, Serving, At
<1> QED
  BY <1>1, <1>2 DEF ServerInv, DataInv, ObjectsInv

\* A visit changes its own connection only.
LEMMA VisitMoves ==
  ASSUME ServerInv, InVisit, NEW p, Evolves(obj[Cur], p),
         obj' = [obj EXCEPT ![Cur] = p], life' = life,
         \A d \in Ids \ {Cur} : input'[d].buf = input[d].buf
  PROVE  /\ DataMoves /\ Others /\ obj'[Cur] = p /\ LifeFits(life'[Cur], p)
         /\ \A d \in Ids \ {Cur} : Settled(obj'[d])
<1>1. Cur \in Ids
  BY VisitFacts
<1>2. DataMoves /\ obj'[Cur] = p /\ \A d \in Ids \ {Cur} : obj'[d] = obj[d]
  BY <1>1, EvolveMoves
<1>3. LifeFits(life'[Cur], p)
  BY <1>1, <1>2 DEF DataMoves
<1>4. \A d \in Ids \ {Cur} : Settled(obj[d])
  BY DEF ServerInv, DataInv, ObjectsInv
<1> QED
  BY <1>2, <1>3, <1>4 DEF Others

\* The step of a visit that leaves the loop at a good place.
LEMMA VisitStep ==
  ASSUME ServerInv, InVisit, DataMoves,
         UNCHANGED <<options, connections, peer, net, running, exception, calls>>,
         input' \in [Ids -> [buf : Seq(PeerUnits), rx : Seq(PeerUnits)]],
         \A d \in Ids \ {Cur} : Settled(obj'[d]),
         Settled(obj'[Cur]) \/ (At("flush")' /\ Cur' = Cur),
         loop' \in LoopType, ControlInv'
  PROVE  StepOK
<1>1. RestTypes
  BY DEF ServerInv, TypeOK, RestTypes
<1>2. \A d \in Ids : Settled(obj'[d]) \/ (At("flush")' /\ Cur' = d)
  OBVIOUS
<1> QED
  BY <1>1, <1>2, PlainStep

\* A connection that was closed before its turn; timers.
LEMMA TimerSteps ==
  ASSUME ServerInv, options' = options, SkipClosed \/ Expired
  PROVE  StepOK
<1>0. /\ loop.pc = "visit" /\ InVisit /\ ~At("flush")
      /\ loop' = Visited
      /\ UNCHANGED <<options, connections, input, peer, net, running, exception, calls, life>>
  BY DEF SkipClosed, Expired, At, InVisit, Serving
<1>1. Cur \in Ids /\ ConnOK(obj[Cur]) /\ Settled(obj[Cur]) /\ obj \in [Ids -> ServerConn] /\ ~Ending
  BY <1>0, VisitFacts
<1>2. \E p : /\ Evolves(obj[Cur], p) /\ Settled(p) /\ obj' = [obj EXCEPT ![Cur] = p]
             /\ p.open => p.close_after_write
  <2>1. CASE SkipClosed
    <3>1. obj' = [obj EXCEPT ![Cur] = obj[Cur]] /\ ~obj[Cur].open
      BY <1>1, <2>1 DEF SkipClosed
    <3> QED
      BY <1>1, <3>1, EvolvesReflexive
  <2>2. CASE Expired
    <3>1. PICK k \in Answers : obj' = [obj EXCEPT ![Cur] =
                                 IF obj[Cur].upgraded THEN CloseWithCode(obj[Cur], AnyFrame, k).c
                                 ELSE CloseSocket(obj[Cur])]
      BY <2>2 DEF Expired
    <3> DEFINE q == CloseWithCode(obj[Cur], AnyFrame, k).c
               r == CloseSocket(obj[Cur])
    <3>2. Evolves(obj[Cur], q) /\ Settled(q) /\ (q.open => q.close_after_write)
      BY <1>1, CloseWithCodeEvolves
    <3>3. Evolves(obj[Cur], r) /\ Settled(r) /\ ~r.open
      BY <1>1, CloseSocketEvolves
    <3> HIDE DEF q, r
    <3>4. CASE obj[Cur].upgraded
      BY <3>1, <3>2, <3>4 DEF q
    <3>5. CASE ~obj[Cur].upgraded
      BY <3>1, <3>3, <3>5 DEF r
    <3> QED
      BY <3>4, <3>5
  <2> QED
    BY <2>1, <2>2
<1>3. PICK p : /\ Evolves(obj[Cur], p) /\ Settled(p) /\ obj' = [obj EXCEPT ![Cur] = p]
               /\ p.open => p.close_after_write
  BY <1>2
<1>4. /\ DataMoves /\ Others /\ obj'[Cur] = p
      /\ \A d \in Ids \ {Cur} : Settled(obj'[d])
  BY <1>0, <1>3, VisitMoves
<1>5. QuietNext(Cur) /\ ~(life'[Cur] = "handshake" /\ obj'[Cur].open)
  <2>1. ~(life[Cur] = "handshake" /\ obj[Cur].open)
    BY <1>0, <1>1, NoHandshake
  <2>2. p.open => obj[Cur].open
    BY <1>3 DEF Evolves
  <2> QED
    BY <1>0, <1>3, <1>4, <2>1, <2>2 DEF QuietNext
<1>6. loop' \in LoopType /\ ControlInv'
  BY <1>0, <1>4, <1>5, VisitedControl
<1> QED
  BY <1>0, <1>3, <1>4, <1>6, VisitStep DEF ServerInv, TypeOK

\* The visit of an open connection: heartbeat, pending writes.
LEMMA ServeStep ==
  ASSUME ServerInv, options' = options, Serve
  PROVE  StepOK
<1>0. /\ loop.pc = "visit" /\ InVisit /\ ~At("flush")
      /\ UNCHANGED <<options, connections, input, peer, net, running, exception, calls, life>>
  BY DEF Serve, At, InVisit, Serving
<1>1. Cur \in Ids /\ ConnOK(obj[Cur]) /\ Settled(obj[Cur]) /\ loop \in LoopType /\ ~Ending
  BY <1>0, VisitFacts
<1>1a. PICK k \in Answers : \E p \in Heartbeat(obj[Cur], k) :
        /\ obj' = [obj EXCEPT ![Cur] = p]
        /\ loop' = IF p.write_queue # <<>>
                   THEN IF p.open THEN Goto("flush") ELSE Visited
                   ELSE Dispatch(p)
  BY DEF Serve
<1>2. PICK p \in Heartbeat(obj[Cur], k) :
        /\ obj' = [obj EXCEPT ![Cur] = p]
        /\ loop' = IF p.write_queue # <<>>
                   THEN IF p.open THEN Goto("flush") ELSE Visited
                   ELSE Dispatch(p)
  BY <1>1a
<1>3. Evolves(obj[Cur], p) /\ Settled(p)
  BY <1>1, HeartbeatEvolves
<1>4. /\ DataMoves /\ Others /\ obj'[Cur] = p /\ LifeFits(life[Cur], p)
      /\ \A d \in Ids \ {Cur} : Settled(obj'[d])
  BY <1>0, <1>2, <1>3, VisitMoves
<1>5. (p.open => obj[Cur].open) /\ ~(life'[Cur] = "handshake" /\ obj'[Cur].open)
  BY <1>0, <1>1, <1>3, <1>4, NoHandshake DEF Evolves
<1>6. loop' \in LoopType /\ ControlInv'
  <2>1. CASE p.write_queue # <<>> /\ p.open
    <3>1. loop' = Goto("flush")
      BY <1>2, <2>1
    <3>2. loop'.pc = "flush" /\ Cur' = Cur
      BY <1>1, <3>1 DEF Goto, LoopType, Cur
    <3>3. ServedInv'
      BY <1>4, <2>1, <3>2 DEF ServedInv, At
    <3> QED
      BY <1>0, <1>4, <1>5, <3>1, <3>3, GotoControl DEF Serving
  <2>2. CASE p.write_queue # <<>> /\ ~p.open
    <3>1. loop' = Visited /\ QuietNext(Cur)
      BY <1>2, <1>4, <2>2 DEF QuietNext
    <3> QED
      BY <1>0, <1>4, <1>5, <3>1, VisitedControl
  <2>3. CASE p.write_queue = <<>>
    <3>1. loop' = Dispatch(obj'[Cur])
      BY <1>2, <1>4, <2>3
    <3> QED
      BY <1>0, <1>4, <1>5, <3>1, DispatchControl
  <2> QED
    BY <2>1, <2>2, <2>3
<1> QED
  BY <1>0, <1>3, <1>4, <1>6, VisitStep DEF ServerInv, TypeOK

\* flush() during a visit.
LEMMA FlushSteps ==
  ASSUME ServerInv, options' = options, FlushStep \/ FlushFinish
  PROVE  StepOK
<1>0. /\ loop.pc = "flush" /\ InVisit /\ At("flush")
      /\ UNCHANGED <<options, connections, input, peer, net, running, exception, calls, life>>
  BY DEF FlushStep, FlushFinish, At, InVisit, Serving
<1>1. Cur \in Ids /\ ConnOK(obj[Cur]) /\ loop \in LoopType /\ ~Ending /\ obj[Cur].open
  BY <1>0, VisitFacts DEF ServerInv, ControlInv, ServedInv
<1>2. \E p : /\ Evolves(obj[Cur], p) /\ obj' = [obj EXCEPT ![Cur] = p]
             /\ \/ loop' = loop /\ p.open
                \/ loop' = Dispatch(p) /\ Settled(p)
                \/ loop' = Visited /\ ~p.open
  <2>1. CASE FlushStep
    <3>1. obj[Cur].write_queue # <<>>
      BY <2>1 DEF FlushStep
    <3>2. PICK k \in Answers :
            LET r == FlushFrame(obj[Cur], k)
            IN  /\ obj' = [obj EXCEPT ![Cur] = r.c]
                /\ loop' = CASE r.st = "next"  -> loop
                             [] r.st = "full"  -> Dispatch(r.c)
                             [] r.st = "error" -> Visited
      BY <2>1 DEF FlushStep
    <3> DEFINE r == FlushFrame(obj[Cur], k)
    <3>3. /\ obj' = [obj EXCEPT ![Cur] = r.c]
          /\ loop' = CASE r.st = "next"  -> loop
                       [] r.st = "full"  -> Dispatch(r.c)
                       [] r.st = "error" -> Visited
      BY <3>2
    <3>4. /\ Evolves(obj[Cur], r.c) /\ r.st \in {"next", "full", "error"}
          /\ r.st = "next" => r.c.open
          /\ r.st = "full" => Settled(r.c)
          /\ r.st = "error" => ~r.c.open
      BY <1>1, <3>1, FlushFrameEvolves
    <3> HIDE DEF r
    <3>5. CASE r.st = "next"
      BY <3>3, <3>4, <3>5
    <3>6. CASE r.st = "full"
      BY <3>3, <3>4, <3>6
    <3>7. CASE r.st = "error"
      BY <3>3, <3>4, <3>7
    <3> QED
      BY <3>4, <3>5, <3>6, <3>7
  <2>2. CASE FlushFinish
    <3>1. /\ obj[Cur].write_queue = <<>>
          /\ obj' = [obj EXCEPT ![Cur] = FlushEnd(obj[Cur])]
          /\ loop' = Dispatch(FlushEnd(obj[Cur]))
      BY <2>2 DEF FlushFinish
    <3> QED
      BY <1>1, <3>1, FlushEndEvolves
  <2> QED
    BY <2>1, <2>2
<1>3. PICK p : /\ Evolves(obj[Cur], p) /\ obj' = [obj EXCEPT ![Cur] = p]
               /\ \/ loop' = loop /\ p.open
                  \/ loop' = Dispatch(p) /\ Settled(p)
                  \/ loop' = Visited /\ ~p.open
  BY <1>2
<1>4. /\ DataMoves /\ Others /\ obj'[Cur] = p /\ LifeFits(life[Cur], p)
      /\ \A d \in Ids \ {Cur} : Settled(obj'[d])
  BY <1>0, <1>3, VisitMoves
<1>5. (p.open => obj[Cur].open) /\ ~(life'[Cur] = "handshake" /\ obj'[Cur].open)
  BY <1>0, <1>1, <1>3, <1>4, NoHandshake DEF Evolves
<1>6. /\ loop' \in LoopType /\ ControlInv'
      /\ Settled(obj'[Cur]) \/ (At("flush")' /\ Cur' = Cur)
  <2>1. CASE loop' = loop /\ p.open
    <3>1. ServedInv'
      BY <1>0, <1>4, <2>1 DEF ServedInv, At, Cur
    <3>2. ControlInv'
      BY <1>0, <1>1, <1>4, <1>5, <2>1, <3>1, StayControl DEF Serving
    <3> QED
      BY <1>0, <1>1, <2>1, <3>2 DEF At, Cur
  <2>2. CASE loop' = Dispatch(p) /\ Settled(p)
    BY <1>0, <1>4, <1>5, <2>2, DispatchControl
  <2>3. CASE loop' = Visited /\ ~p.open
    <3>1. QuietNext(Cur) /\ Settled(p)
      BY <1>4, <2>3 DEF QuietNext, Settled
    <3> QED
      BY <1>0, <1>4, <1>5, <2>3, <3>1, VisitedControl
  <2> QED
    BY <1>3, <2>1, <2>2, <2>3
<1> QED
  BY <1>0, <1>4, <1>6, VisitStep DEF ServerInv, TypeOK

-----------------------------------------------------------------------------
(* The handshake. *)

\* A visit changes its own connection and tells the application.
LEMMA SeenMoves ==
  ASSUME ServerInv, InVisit, NEW p, NEW l \in LifeStates,
         obj' = [obj EXCEPT ![Cur] = p], life' = [life EXCEPT ![Cur] = l],
         ConnOK(p), LifeFits(l, p), p.fd = obj[Cur].fd, p.interest = obj[Cur].interest,
         p.write_queue = obj[Cur].write_queue, p.open => obj[Cur].open,
         \A d \in Ids \ {Cur} : input'[d].buf = input[d].buf
  PROVE  /\ DataMoves /\ Others /\ obj'[Cur] = p /\ life'[Cur] = l
         /\ \A d \in Ids \ {Cur} : Settled(obj'[d])
<1>1. Cur \in Ids /\ Listed(Cur) /\ obj \in [Ids -> ServerConn]
  BY VisitFacts
<1>2. obj[Cur] \in ServerConn
  BY <1>1
<1>3. Len(obj[Cur].write_queue) \in Nat
  BY <1>2 DEF ServerConn
<1>4. /\ DataMoves /\ obj'[Cur] = p /\ life'[Cur] = l
      /\ \A d \in Ids \ {Cur} : obj'[d] = obj[d] /\ life'[d] = life[d]
  <2>1. /\ p.fd \in {obj[Cur].fd, NoFd} /\ (p.interest # {} => obj[Cur].interest # {})
        /\ ~obj[Cur].open => Len(p.write_queue) <= Len(obj[Cur].write_queue)
    BY <1>3
  <2> QED
    BY <1>1, <2>1, MovesAt
<1>5. \A d \in Ids \ {Cur} : Settled(obj[d])
  BY DEF ServerInv, DataInv, ObjectsInv
<1> QED
  BY <1>4, <1>5 DEF Others

\* A visit changes the input of its connection.
LEMMA InputMoves ==
  ASSUME ServerInv, InVisit, NEW b \in Seq(PeerUnits), NEW r \in Seq(PeerUnits),
         \/ input' = [input EXCEPT ![Cur] = [buf |-> b, rx |-> r]]
         \/ input' = [input EXCEPT ![Cur].buf = b, ![Cur].rx = r]
         \/ input' = [input EXCEPT ![Cur].buf = b]
  PROVE  /\ input' \in [Ids -> [buf : Seq(PeerUnits), rx : Seq(PeerUnits)]]
         /\ input'[Cur].buf = b
         /\ \A d \in Ids \ {Cur} : input'[d].buf = input[d].buf
<1>1. Cur \in Ids /\ input \in [Ids -> [buf : Seq(PeerUnits), rx : Seq(PeerUnits)]]
  BY VisitFacts DEF ServerInv, TypeOK
<1>2. input[Cur] \in [buf : Seq(PeerUnits), rx : Seq(PeerUnits)]
  BY <1>1
<1>3. PICK u \in [buf : Seq(PeerUnits), rx : Seq(PeerUnits)] :
        u.buf = b /\ input' = [input EXCEPT ![Cur] = u]
  <2>1. CASE input' = [input EXCEPT ![Cur] = [buf |-> b, rx |-> r]]
    BY <2>1
  <2>2. CASE input' = [input EXCEPT ![Cur].buf = b, ![Cur].rx = r]
    <3>1. [input[Cur] EXCEPT !.buf = b, !.rx = r] \in [buf : Seq(PeerUnits), rx : Seq(PeerUnits)]
      BY <1>2
    <3> QED
      BY <1>1, <1>2, <2>2, <3>1
  <2>3. CASE input' = [input EXCEPT ![Cur].buf = b]
    <3>1. [input[Cur] EXCEPT !.buf = b] \in [buf : Seq(PeerUnits), rx : Seq(PeerUnits)]
      BY <1>2
    <3> QED
      BY <1>1, <1>2, <2>3, <3>1
  <2> QED
    BY <2>1, <2>2, <2>3
<1> QED
  BY <1>1, <1>3

\* What recv() leaves in the kernel and in the buffer.
LEMMA RecvFacts ==
  ASSUME NEW S, NEW b \in Seq(S), NEW r \in Seq(S), NEW n \in 1..Len(r)
  PROVE  /\ b \o SubSeq(r, 1, n) \in Seq(S)
         /\ SubSeq(r, n + 1, Len(r)) \in Seq(S)
<1>1. Len(r) \in Nat /\ n \in Nat /\ n <= Len(r)
  OBVIOUS
<1>2. SubSeq(r, 1, n) \in Seq(S)
  BY <1>1, SubSeqProperties
<1>3. SubSeq(r, n + 1, Len(r)) \in Seq(S)
  BY <1>1, SubSeqProperties
<1> QED
  BY <1>2, <1>3, ConcatProperties

\* A parsed request is in the buffer.
LEMMA ParsedRequest ==
  ASSUME NEW buf, ParseUpgrade(buf) = "OK"
  PROVE  Contains(buf, "request")
  BY DEF ParseUpgrade, Contains

\* A visit that gives its connection up during the handshake.
LEMMA GivenUp ==
  ASSUME ServerInv, InVisit, ~At("flush"),
         obj' = [obj EXCEPT ![Cur].open = FALSE], life' = life,
         UNCHANGED <<options, connections, peer, net, running, exception, calls>>,
         input' \in [Ids -> [buf : Seq(PeerUnits), rx : Seq(PeerUnits)]],
         \A d \in Ids \ {Cur} : input'[d].buf = input[d].buf,
         NEW o, NEW buf, loop' = HandshakeReturns(o, buf) \/ loop' = Visited
  PROVE  StepOK
<1> DEFINE p == [obj[Cur] EXCEPT !.open = FALSE]
<1>0. Cur \in Ids /\ ConnOK(obj[Cur]) /\ obj \in [Ids -> ServerConn]
  BY VisitFacts
<1>1. obj' = [obj EXCEPT ![Cur] = p]
  BY <1>0
<1>2. Evolves(obj[Cur], p) /\ ~p.open /\ Settled(p)
  BY <1>0, NotOpenEvolves
<1> HIDE DEF p
<1>3. /\ DataMoves /\ Others /\ obj'[Cur] = p
      /\ \A d \in Ids \ {Cur} : Settled(obj'[d])
  BY <1>1, <1>2, VisitMoves
<1>4. QuietNext(Cur) /\ ~(life'[Cur] = "handshake" /\ obj'[Cur].open)
  BY <1>2, <1>3 DEF QuietNext
<1>5. loop' \in LoopType /\ ControlInv'
  BY <1>3, <1>4, HandshakeReturnsControl, VisitedControl
<1> QED
  BY <1>2, <1>3, <1>5, VisitStep

\* process_handshake() reads.
LEMMA HandshakeRecvStep ==
  ASSUME ServerInv, options' = options, HandshakeRecv
  PROVE  StepOK
<1>0. /\ loop.pc = "handshake" /\ InVisit /\ ~At("flush")
      /\ UNCHANGED <<options, connections, peer, net, running, exception, calls>>
  BY DEF HandshakeRecv, At, InVisit, Serving
<1>1. /\ Cur \in Ids /\ ConnOK(obj[Cur]) /\ Settled(obj[Cur]) /\ loop \in LoopType
      /\ LifeFits(life[Cur], obj[Cur]) /\ obj \in [Ids -> ServerConn]
      /\ obj[Cur].open /\ life[Cur] = "none" /\ ~Ending
  BY <1>0, VisitFacts DEF ServerInv, ControlInv, ServedInv, At
<1>2. PICK n \in 1..Len(input[Cur].rx) :
        LET rx == input[Cur].rx
            buf == input[Cur].buf \o SubSeq(rx, 1, n)
        IN  /\ input' = [input EXCEPT ![Cur] = [buf |-> buf, rx |-> SubSeq(rx, n + 1, Len(rx))]]
            /\ \/ /\ ParseUpgrade(buf) = "INCOMPLETE"
                  /\ UNCHANGED <<loop, obj, life>>
               \/ /\ ParseUpgrade(buf) = "INVALID"
                  /\ obj' = [obj EXCEPT ![Cur].open = FALSE]
                  /\ loop' = HandshakeReturns(obj[Cur], buf)
                  /\ UNCHANGED life
               \/ /\ ParseUpgrade(buf) = "OK"
                  /\ IF "handshake" \in Handlers
                     THEN loop' = Goto("onHandshake") /\ Saw(Cur, {"none"}, "handshake")
                     ELSE loop' = Goto("upgrade") /\ UNCHANGED life
                  /\ UNCHANGED obj
  BY DEF HandshakeRecv
<1> DEFINE rx == input[Cur].rx
           buf == input[Cur].buf \o SubSeq(rx, 1, n)
           rest == SubSeq(rx, n + 1, Len(rx))
<1>3. buf \in Seq(PeerUnits) /\ rest \in Seq(PeerUnits)
  <2>1. input[Cur].buf \in Seq(PeerUnits) /\ input[Cur].rx \in Seq(PeerUnits)
    BY <1>1 DEF ServerInv, TypeOK
  <2> QED
    BY <2>1, RecvFacts
<1>4. /\ input' = [input EXCEPT ![Cur] = [buf |-> buf, rx |-> rest]]
      /\ \/ UNCHANGED <<loop, obj, life>>
         \/ /\ obj' = [obj EXCEPT ![Cur].open = FALSE]
            /\ loop' = HandshakeReturns(obj[Cur], buf)
            /\ UNCHANGED life
         \/ /\ ParseUpgrade(buf) = "OK"
            /\ IF "handshake" \in Handlers
               THEN loop' = Goto("onHandshake") /\ Saw(Cur, {"none"}, "handshake")
               ELSE loop' = Goto("upgrade") /\ UNCHANGED life
            /\ UNCHANGED obj
  BY <1>2
<1> HIDE DEF rx, buf, rest
<1>5. /\ input' \in [Ids -> [buf : Seq(PeerUnits), rx : Seq(PeerUnits)]]
      /\ input'[Cur].buf = buf
      /\ \A d \in Ids \ {Cur} : input'[d].buf = input[d].buf
  BY <1>0, <1>3, <1>4, InputMoves
<1>6. obj' = obj => obj' = [obj EXCEPT ![Cur] = obj[Cur]]
  BY <1>1
<1>7. CASE UNCHANGED <<loop, obj, life>>
  <2>1. /\ DataMoves /\ Others /\ obj'[Cur] = obj[Cur]
        /\ \A d \in Ids \ {Cur} : Settled(obj'[d])
    BY <1>0, <1>1, <1>5, <1>6, <1>7, EvolvesReflexive, VisitMoves
  <2>2. ServedInv'
    BY <1>0, <1>1, <1>7 DEF ServedInv, At, Cur
  <2>3. ControlInv'
    BY <1>0, <1>1, <1>7, <2>1, <2>2, StayControl DEF Serving
  <2> QED
    BY <1>0, <1>1, <1>5, <1>7, <2>1, <2>3, VisitStep
<1>8. CASE /\ obj' = [obj EXCEPT ![Cur].open = FALSE]
           /\ loop' = HandshakeReturns(obj[Cur], buf) /\ UNCHANGED life
  BY <1>0, <1>5, <1>8, GivenUp
<1>9. CASE /\ ParseUpgrade(buf) = "OK" /\ UNCHANGED obj
           /\ IF "handshake" \in Handlers
              THEN loop' = Goto("onHandshake") /\ Saw(Cur, {"none"}, "handshake")
              ELSE loop' = Goto("upgrade") /\ UNCHANGED life
  <2>1. Contains(input'[Cur].buf, "request")
    BY <1>5, <1>9, ParsedRequest
  <2>2. CASE "handshake" \in Handlers
    <3>1. loop' = Goto("onHandshake") /\ life' = [life EXCEPT ![Cur] = "handshake"]
      BY <1>1, <1>9, <2>2 DEF Saw
    <3>2. "handshake" \in LifeStates /\ LifeFits("handshake", obj[Cur])
      BY <1>1 DEF LifeStates, LifeFits
    <3>3. /\ DataMoves /\ Others /\ obj'[Cur] = obj[Cur] /\ life'[Cur] = "handshake"
          /\ \A d \in Ids \ {Cur} : Settled(obj'[d])
      BY <1>0, <1>1, <1>5, <1>6, <1>9, <3>1, <3>2, SeenMoves
    <3>4. loop'.pc = "onHandshake" /\ Cur' = Cur
      BY <1>1, <3>1 DEF Goto, LoopType, Cur
    <3>5. ServedInv'
      BY <1>1, <2>1, <3>3, <3>4 DEF ServedInv, At
    <3>6. loop' \in LoopType /\ ControlInv'
      BY <1>0, <3>1, <3>3, <3>5, GotoControl DEF Serving
    <3> QED
      BY <1>0, <1>1, <1>5, <3>3, <3>6, VisitStep
  <2>3. CASE "handshake" \notin Handlers
    <3>1. loop' = Goto("upgrade") /\ life' = life
      BY <1>9, <2>3
    <3>3. /\ DataMoves /\ Others /\ obj'[Cur] = obj[Cur]
          /\ \A d \in Ids \ {Cur} : Settled(obj'[d])
      BY <1>0, <1>1, <1>5, <1>6, <1>9, <3>1, EvolvesReflexive, VisitMoves
    <3>4. loop'.pc = "upgrade" /\ Cur' = Cur
      BY <1>1, <3>1 DEF Goto, LoopType, Cur
    <3>5. ServedInv'
      BY <1>1, <2>1, <3>1, <3>3, <3>4 DEF ServedInv, At
    <3>6. loop' \in LoopType /\ ControlInv'
      BY <1>0, <3>1, <3>3, <3>5, GotoControl DEF Serving
    <3> QED
      BY <1>0, <1>1, <1>5, <3>3, <3>6, VisitStep
  <2> QED
    BY <2>2, <2>3
<1> QED
  BY <1>4, <1>7, <1>8, <1>9

\* process_handshake() finds nothing to read.
LEMMA HandshakeIdleStep ==
  ASSUME ServerInv, options' = options, HandshakeIdle
  PROVE  StepOK
<1>0. /\ loop.pc = "handshake" /\ InVisit /\ ~At("flush") /\ loop' = Visited
      /\ obj' = [obj EXCEPT ![Cur].open = ~peer[Cur].gone]
      /\ UNCHANGED <<options, connections, input, peer, net, running, exception, calls, life>>
  BY DEF HandshakeIdle, At, InVisit, Serving
<1>1. /\ Cur \in Ids /\ ConnOK(obj[Cur]) /\ Settled(obj[Cur])
      /\ LifeFits(life[Cur], obj[Cur]) /\ obj \in [Ids -> ServerConn]
      /\ obj[Cur].open /\ life[Cur] = "none"
  BY <1>0, VisitFacts DEF ServerInv, ControlInv, ServedInv, At
<1>2. input' \in [Ids -> [buf : Seq(PeerUnits), rx : Seq(PeerUnits)]]
  BY <1>0 DEF ServerInv, TypeOK
<1>3. peer[Cur].gone \in BOOLEAN /\ obj[Cur] \in ServerConn
  BY <1>1 DEF ServerInv, TypeOK
<1>4. CASE peer[Cur].gone
  <2>1. obj' = [obj EXCEPT ![Cur].open = FALSE]
    BY <1>0, <1>4
  <2> QED
    BY <1>0, <1>2, <2>1, GivenUp
<1>5. CASE ~peer[Cur].gone
  <2>1. [obj[Cur] EXCEPT !.open = TRUE] = obj[Cur]
    BY <1>1, <1>3 DEF ServerConn
  <2>2. obj' = [obj EXCEPT ![Cur] = obj[Cur]]
    BY <1>0, <1>1, <1>5, <2>1
  <2>3. /\ DataMoves /\ Others /\ obj'[Cur] = obj[Cur]
        /\ \A d \in Ids \ {Cur} : Settled(obj'[d])
    BY <1>0, <1>1, <2>2, EvolvesReflexive, VisitMoves
  <2>4. QuietNext(Cur) /\ life'[Cur] = "none"
    BY <1>0, <1>1, <2>3 DEF QuietNext, LifeFits
  <2>5. loop' \in LoopType /\ ControlInv'
    BY <1>0, <2>3, <2>4, VisitedControl
  <2> QED
    BY <1>0, <1>1, <1>2, <2>3, <2>5, VisitStep
<1> QED
  BY <1>3, <1>4, <1>5

\* on_handshake returns.
LEMMA OnHandshakeReturnsStep ==
  ASSUME ServerInv, options' = options, OnHandshakeReturns
  PROVE  StepOK
<1>0. /\ loop.pc = "onHandshake" /\ InVisit /\ ~At("flush")
      /\ UNCHANGED <<options, connections, input, peer, net, running, exception, calls, life>>
  BY DEF OnHandshakeReturns, At, InVisit, Serving
<1>1. /\ Cur \in Ids /\ ConnOK(obj[Cur]) /\ Settled(obj[Cur]) /\ loop \in LoopType
      /\ LifeFits(life[Cur], obj[Cur]) /\ obj \in [Ids -> ServerConn]
      /\ obj[Cur].open /\ life[Cur] = "handshake" /\ Contains(input[Cur].buf, "request")
  BY <1>0, VisitFacts DEF ServerInv, ControlInv, ServedInv, At
<1>2. input' \in [Ids -> [buf : Seq(PeerUnits), rx : Seq(PeerUnits)]]
  BY <1>0 DEF ServerInv, TypeOK
<1>3. CASE loop' = Goto("upgrade") /\ UNCHANGED obj
  <2>1. obj' = [obj EXCEPT ![Cur] = obj[Cur]]
    BY <1>1, <1>3
  <2>2. /\ DataMoves /\ Others /\ obj'[Cur] = obj[Cur]
        /\ \A d \in Ids \ {Cur} : Settled(obj'[d])
    BY <1>0, <1>1, <2>1, EvolvesReflexive, VisitMoves
  <2>3. loop'.pc = "upgrade" /\ Cur' = Cur
    BY <1>1, <1>3 DEF Goto, LoopType, Cur
  <2>4. ServedInv'
    BY <1>0, <1>1, <2>2, <2>3 DEF ServedInv, At
  <2>5. loop' \in LoopType /\ ControlInv'
    BY <1>0, <1>3, <2>2, <2>4, GotoControl DEF Serving
  <2> QED
    BY <1>0, <1>1, <1>2, <2>2, <2>5, VisitStep
<1>4. CASE /\ obj' = [obj EXCEPT ![Cur].open = FALSE]
           /\ loop' = HandshakeReturns(obj[Cur], input[Cur].buf)
  BY <1>0, <1>2, <1>4, GivenUp
<1> QED
  BY <1>3, <1>4 DEF OnHandshakeReturns

\* What follows a request in the buffer.
LEMMA AfterRequest ==
  ASSUME NEW S, NEW b \in Seq(S), Contains(b, "request")
  PROVE  SubSeq(b, (CHOOSE i \in 1..Len(b) : b[i] = "request") + 1, Len(b)) \in Seq(S)
<1> DEFINE r == CHOOSE i \in 1..Len(b) : b[i] = "request"
<1>1. r \in 1..Len(b)
  BY DEF Contains
<1> HIDE DEF r
<1>2. r + 1 \in Int /\ Len(b) \in Int /\ \A i \in (r + 1)..Len(b) : b[i] \in S
  BY <1>1
<1>3. SubSeq(b, r + 1, Len(b)) \in Seq(S)
  BY <1>2, SubSeqProperties
<1> QED
  BY <1>3 DEF r

\* finish_upgrade() up to on_open.
LEMMA UpgradeStep ==
  ASSUME ServerInv, options' = options, Upgrade
  PROVE  StepOK
<1>0. /\ loop.pc = "upgrade" /\ InVisit /\ ~At("flush")
      /\ UNCHANGED <<options, connections, peer, net, running, exception, calls>>
  BY DEF Upgrade, At, InVisit, Serving
<1>1. /\ Cur \in Ids /\ ConnOK(obj[Cur]) /\ Settled(obj[Cur]) /\ loop \in LoopType
      /\ LifeFits(life[Cur], obj[Cur]) /\ obj \in [Ids -> ServerConn]
      /\ obj[Cur].open /\ life[Cur] \in {"none", "handshake"}
      /\ Contains(input[Cur].buf, "request")
  BY <1>0, VisitFacts DEF ServerInv, ControlInv, ServedInv, At
<1>2. input \in [Ids -> [buf : Seq(PeerUnits), rx : Seq(PeerUnits)]]
  BY DEF ServerInv, TypeOK
<1> DEFINE buf == input[Cur].buf
           rest == SubSeq(buf, (CHOOSE i \in 1..Len(buf) : buf[i] = "request") + 1, Len(buf))
           p == [obj[Cur] EXCEPT !.upgraded = TRUE, !.defer_close = "open" \in Handlers]
<1>3. CASE /\ obj' = [obj EXCEPT ![Cur].open = FALSE]
           /\ loop' = HandshakeReturns(obj[Cur], buf)
           /\ UNCHANGED <<input, life>>
  BY <1>0, <1>2, <1>3, GivenUp
<1>4. CASE /\ input' = [input EXCEPT ![Cur].buf = rest]
           /\ Saw(Cur, {"none", "handshake"}, "open")
           /\ obj' = [obj EXCEPT ![Cur].upgraded = TRUE,
                                 ![Cur].defer_close = "open" \in Handlers]
           /\ loop' = IF "open" \in Handlers THEN Goto("onOpen")
                      ELSE [loop EXCEPT !.pc = "frames", !.ret = "upgrade"]
  <2>1. rest \in Seq(PeerUnits) /\ buf \in Seq(PeerUnits)
    BY <1>1, <1>2, AfterRequest
  <2> HIDE DEF rest, buf
  <2>2. /\ input' \in [Ids -> [buf : Seq(PeerUnits), rx : Seq(PeerUnits)]]
        /\ \A d \in Ids \ {Cur} : input'[d].buf = input[d].buf
    BY <1>0, <1>4, <2>1, InputMoves
  <2>3. obj' = [obj EXCEPT ![Cur] = p] /\ life' = [life EXCEPT ![Cur] = "open"]
    BY <1>1, <1>4 DEF Saw
  <2>4. obj[Cur] \in ServerConn /\ obj[Cur].fd # NoFd /\ ("open" \in Handlers) \in BOOLEAN
    BY <1>1 DEF ConnOK
  <2>5. /\ p \in ServerConn /\ p.upgraded /\ p.defer_close = ("open" \in Handlers)
        /\ p.fd = obj[Cur].fd /\ p.open = obj[Cur].open /\ p.interest = obj[Cur].interest
        /\ p.write_queue = obj[Cur].write_queue
        /\ p.write_queue_offset = obj[Cur].write_queue_offset
        /\ p.write_watched = obj[Cur].write_watched
        /\ p.close_notified = obj[Cur].close_notified
    BY <2>4 DEF ServerConn
  <2> HIDE DEF p
  <2>6. ConnOK(p) /\ Settled(p) /\ LifeFits("open", p) /\ "open" \in LifeStates
    BY <1>1, <2>5 DEF ConnOK, Settled, LifeFits, LifeStates
  <2>7. /\ DataMoves /\ Others /\ obj'[Cur] = p /\ life'[Cur] = "open"
        /\ \A d \in Ids \ {Cur} : Settled(obj'[d])
    BY <1>0, <2>2, <2>3, <2>5, <2>6, SeenMoves
  <2>8. loop' \in LoopType /\ ControlInv'
    <3>1. CASE "open" \in Handlers
      <4>1. loop' = Goto("onOpen")
        BY <1>4, <3>1
      <4>2. loop'.pc = "onOpen" /\ Cur' = Cur
        BY <1>1, <4>1 DEF Goto, LoopType, Cur
      <4>3. ServedInv'
        BY <2>4, <2>5, <2>7, <3>1, <4>2 DEF ServedInv, At
      <4> QED
        BY <1>0, <2>7, <4>1, <4>3, GotoControl DEF Serving
    <3>2. CASE "open" \notin Handlers
      <4>1. loop' = [loop EXCEPT !.pc = "frames", !.ret = "upgrade"]
        BY <1>4, <3>2
      <4>2. loop'.pc = "frames"
        BY <1>1, <4>1 DEF LoopType
      <4>3. ServedInv'
        BY <4>2 DEF ServedInv, At
      <4> QED
        BY <1>0, <2>7, <4>1, <4>3, GotoControl DEF Serving
    <3> QED
      BY <3>1, <3>2
  <2> QED
    BY <1>0, <2>2, <2>6, <2>7, <2>8, VisitStep
<1> QED
  BY <1>3, <1>4 DEF Upgrade

\* finish_upgrade() after on_open.
LEMMA OnOpenReturnsStep ==
  ASSUME ServerInv, options' = options, OnOpenReturns
  PROVE  StepOK
<1>0. /\ loop.pc = "onOpen" /\ InVisit /\ ~At("flush")
      /\ UNCHANGED <<options, connections, input, peer, net, running, exception, calls>>
  BY DEF OnOpenReturns, At, InVisit, Serving
<1>1. /\ Cur \in Ids /\ ConnOK(obj[Cur]) /\ Settled(obj[Cur]) /\ loop \in LoopType
      /\ LifeFits(life[Cur], obj[Cur]) /\ obj \in [Ids -> ServerConn]
      /\ life \in [Ids -> LifeStates] /\ obj[Cur].upgraded
  BY <1>0, VisitFacts DEF ServerInv, TypeOK, ControlInv, ServedInv, At
<1>2. input' \in [Ids -> [buf : Seq(PeerUnits), rx : Seq(PeerUnits)]]
  BY <1>0 DEF ServerInv, TypeOK
<1>3. PICK close_requested \in BOOLEAN :
        LET o == [obj[Cur] EXCEPT !.defer_close = FALSE, !.open = @ /\ ~close_requested]
            tell == ~o.open /\ ~o.close_notified /\ "close" \in Handlers
        IN  /\ obj' = [obj EXCEPT ![Cur] = [o EXCEPT !.close_notified = @ \/ tell]]
            /\ IF tell
               THEN /\ Saw(Cur, {"open", "closing"}, "closed")
                    /\ loop' = [loop EXCEPT !.pc = "onClose", !.ret = "upgrade"]
               ELSE /\ UNCHANGED life
                    /\ loop' = IF o.open THEN [loop EXCEPT !.pc = "frames", !.ret = "upgrade"]
                               ELSE HandshakeReturns(o, input[Cur].buf)
  BY DEF OnOpenReturns
<1> DEFINE o == [obj[Cur] EXCEPT !.defer_close = FALSE, !.open = @ /\ ~close_requested]
           tell == ~o.open /\ ~o.close_notified /\ "close" \in Handlers
           p == [o EXCEPT !.close_notified = @ \/ tell]
<1>4. /\ obj' = [obj EXCEPT ![Cur] = p]
      /\ IF tell
         THEN /\ Saw(Cur, {"open", "closing"}, "closed")
              /\ loop' = [loop EXCEPT !.pc = "onClose", !.ret = "upgrade"]
         ELSE /\ UNCHANGED life
              /\ loop' = IF o.open THEN [loop EXCEPT !.pc = "frames", !.ret = "upgrade"]
                         ELSE HandshakeReturns(o, input[Cur].buf)
  BY <1>3
<1>5. obj[Cur] \in ServerConn
  BY <1>1
<1>6. /\ o \in ServerConn /\ o.open = (obj[Cur].open /\ ~close_requested)
      /\ o.fd = obj[Cur].fd /\ o.interest = obj[Cur].interest
      /\ o.write_queue = obj[Cur].write_queue
      /\ o.write_queue_offset = obj[Cur].write_queue_offset
      /\ o.write_watched = obj[Cur].write_watched
      /\ o.close_notified = obj[Cur].close_notified /\ o.upgraded = obj[Cur].upgraded
      /\ o.close_after_write = obj[Cur].close_after_write
  BY <1>5 DEF ServerConn
<1> HIDE DEF o
<1>7. /\ p \in ServerConn /\ p.open = o.open /\ p.fd = o.fd /\ p.interest = o.interest
      /\ p.write_queue = o.write_queue /\ p.write_queue_offset = o.write_queue_offset
      /\ p.write_watched = o.write_watched /\ p.upgraded = o.upgraded
      /\ p.close_after_write = o.close_after_write
      /\ p.close_notified = (o.close_notified \/ tell)
  BY <1>6 DEF ServerConn
<1> HIDE DEF p
<1>8. ConnOK(p) /\ Settled(p) /\ (p.open => obj[Cur].open)
  BY <1>1, <1>6, <1>7 DEF ConnOK, Settled
<1>9. CASE tell
  <2>1. life[Cur] \in {"open", "closing"}
    BY <1>1, <1>6, <1>9 DEF LifeFits
  <2>2. life' = [life EXCEPT ![Cur] = "closed"]
    BY <1>1, <1>4, <1>9, <2>1 DEF Saw
  <2>3. LifeFits("closed", p) /\ "closed" \in LifeStates
    BY <1>1, <1>6, <1>7, <1>9 DEF LifeFits, LifeStates
  <2>4. /\ DataMoves /\ Others /\ obj'[Cur] = p /\ life'[Cur] = "closed"
        /\ \A d \in Ids \ {Cur} : Settled(obj'[d])
    BY <1>0, <1>4, <1>6, <1>7, <1>8, <2>2, <2>3, SeenMoves
  <2>5. /\ loop' \in LoopType /\ loop'.pc = "onClose" /\ loop'.ret = "upgrade"
        /\ loop'.from = loop.from /\ loop'.i = loop.i /\ loop'.cur = loop.cur
    BY <1>1, <1>4, <1>9 DEF LoopType
  <2>6. ServedInv'
    BY <2>5 DEF ServedInv, At
  <2>7. ControlInv'
    BY <1>0, <1>7, <1>9, <2>4, <2>5, <2>6, StayControl
  <2> QED
    BY <1>0, <1>2, <1>8, <2>4, <2>5, <2>7, VisitStep
<1>10. CASE ~tell
  <2>1. /\ life' = life
        /\ loop' = IF o.open THEN [loop EXCEPT !.pc = "frames", !.ret = "upgrade"]
                   ELSE HandshakeReturns(o, input[Cur].buf)
    BY <1>4, <1>10
  <2>2. life' = [life EXCEPT ![Cur] = life[Cur]] /\ life[Cur] \in LifeStates
    BY <1>1, <2>1
  <2>3. LifeFits(life[Cur], p)
    BY <1>1, <1>6, <1>7, <1>10 DEF LifeFits
  <2>4. /\ DataMoves /\ Others /\ obj'[Cur] = p /\ life'[Cur] = life[Cur]
        /\ \A d \in Ids \ {Cur} : Settled(obj'[d])
    BY <1>0, <1>4, <1>6, <1>7, <1>8, <2>2, <2>3, SeenMoves
  <2>5. life'[Cur] # "handshake"
    BY <1>1, <2>4 DEF LifeFits
  <2>6. loop' \in LoopType /\ ControlInv'
    <3>1. CASE o.open
      <4>1. loop' = [loop EXCEPT !.pc = "frames", !.ret = "upgrade"]
        BY <2>1, <3>1
      <4>2. loop'.pc = "frames"
        BY <1>1, <4>1 DEF LoopType
      <4>3. ServedInv'
        BY <4>2 DEF ServedInv, At
      <4> QED
        BY <1>0, <2>4, <2>5, <4>1, <4>3, GotoControl DEF Serving
    <3>2. CASE ~o.open
      <4>1. loop' = HandshakeReturns(o, input[Cur].buf) /\ QuietNext(Cur)
        BY <1>7, <2>1, <2>4, <3>2 DEF QuietNext
      <4> QED
        BY <1>0, <2>4, <2>5, <4>1, HandshakeReturnsControl
    <3> QED
      BY <3>1, <3>2
  <2> QED
    BY <1>0, <1>2, <1>8, <2>4, <2>6, VisitStep
<1> QED
  BY <1>9, <1>10

-----------------------------------------------------------------------------
(* Reading frames. *)

\* process_frame_reads().
LEMMA ReadsSteps ==
  ASSUME ServerInv, options' = options, ReadsRecv \/ ReadsEnd
  PROVE  StepOK
<1>0. /\ loop.pc = "reads" /\ InVisit /\ ~At("flush")
      /\ UNCHANGED <<options, connections, peer, net, running, exception, calls, life>>
  BY DEF ReadsRecv, ReadsEnd, At, InVisit, Serving
<1>1. /\ Cur \in Ids /\ ConnOK(obj[Cur]) /\ Settled(obj[Cur]) /\ loop \in LoopType
      /\ obj \in [Ids -> ServerConn] /\ obj[Cur] \in ServerConn /\ ~Ending
      /\ input \in [Ids -> [buf : Seq(PeerUnits), rx : Seq(PeerUnits)]]
  BY <1>0, VisitFacts DEF ServerInv, TypeOK
<1>2. ~(life[Cur] = "handshake" /\ obj[Cur].open)
  BY <1>0, <1>1, NoHandshake
<1>3. CASE ReadsRecv
  <2>1. PICK n \in 1..Len(input[Cur].rx) :
          input' = [input EXCEPT ![Cur].buf = input[Cur].buf \o SubSeq(input[Cur].rx, 1, n),
                                 ![Cur].rx = SubSeq(input[Cur].rx, n + 1, Len(input[Cur].rx))]
    BY <1>1, <1>3 DEF ReadsRecv
  <2> DEFINE b == input[Cur].buf \o SubSeq(input[Cur].rx, 1, n)
             r == SubSeq(input[Cur].rx, n + 1, Len(input[Cur].rx))
  <2>2. b \in Seq(PeerUnits) /\ r \in Seq(PeerUnits)
    <3>1. input[Cur].buf \in Seq(PeerUnits) /\ input[Cur].rx \in Seq(PeerUnits)
      BY <1>1
    <3> QED
      BY <3>1, RecvFacts
  <2>3. input' = [input EXCEPT ![Cur].buf = b, ![Cur].rx = r]
    BY <2>1
  <2> HIDE DEF b, r
  <2>4. /\ input' \in [Ids -> [buf : Seq(PeerUnits), rx : Seq(PeerUnits)]]
        /\ \A d \in Ids \ {Cur} : input'[d].buf = input[d].buf
    BY <1>0, <2>2, <2>3, InputMoves
  <2>5. /\ obj' = [obj EXCEPT ![Cur] = obj[Cur]]
        /\ loop' = [loop EXCEPT !.pc = "frames", !.ret = "reads"]
    BY <1>1, <1>3 DEF ReadsRecv
  <2>6. /\ DataMoves /\ Others /\ obj'[Cur] = obj[Cur]
        /\ \A d \in Ids \ {Cur} : Settled(obj'[d])
    BY <1>0, <1>1, <2>4, <2>5, EvolvesReflexive, VisitMoves
  <2>7. loop'.pc = "frames"
    BY <1>1, <2>5 DEF LoopType
  <2>8. ServedInv'
    BY <2>7 DEF ServedInv, At
  <2>9. loop' \in LoopType /\ ControlInv'
    BY <1>0, <1>2, <2>5, <2>6, <2>8, GotoControl DEF Serving
  <2> QED
    BY <1>0, <1>1, <2>4, <2>6, <2>9, VisitStep
<1>4. CASE ReadsEnd
  <2> DEFINE reading == obj[Cur].open /\ ~obj[Cur].close_after_write
             p == [obj[Cur] EXCEPT !.open = @ /\ ~(reading /\ peer[Cur].gone)]
  <2>1. /\ obj' = [obj EXCEPT ![Cur] = p]
        /\ loop' = IF reading /\ ~peer[Cur].gone
                   THEN [loop EXCEPT !.pc = "frames", !.ret = "last"] ELSE Visited
        /\ input' = input
    BY <1>1, <1>4 DEF ReadsEnd
  <2>2. CASE reading /\ ~peer[Cur].gone
    <3>1. p = obj[Cur]
      BY <1>1, <2>2 DEF ServerConn
    <3>2. loop' = [loop EXCEPT !.pc = "frames", !.ret = "last"]
      BY <2>1, <2>2
    <3>3. /\ DataMoves /\ Others /\ obj'[Cur] = obj[Cur]
          /\ \A d \in Ids \ {Cur} : Settled(obj'[d])
      BY <1>0, <1>1, <2>1, <3>1, EvolvesReflexive, VisitMoves
    <3>4. loop'.pc = "frames"
      BY <1>1, <3>2 DEF LoopType
    <3>5. ServedInv'
      BY <3>4 DEF ServedInv, At
    <3>6. loop' \in LoopType /\ ControlInv'
      BY <1>0, <1>2, <3>2, <3>3, <3>5, GotoControl DEF Serving
    <3> QED
      BY <1>0, <1>1, <2>1, <3>3, <3>6, VisitStep
  <2>3. CASE reading /\ peer[Cur].gone
    <3>1. obj' = [obj EXCEPT ![Cur].open = FALSE] /\ loop' = Visited
      BY <2>1, <2>3
    <3> QED
      BY <1>0, <1>1, <2>1, <3>1, GivenUp
  <2>4. CASE ~reading
    <3>1. p = obj[Cur] /\ loop' = Visited
      BY <1>1, <2>1, <2>4 DEF ServerConn
    <3>2. /\ DataMoves /\ Others /\ obj'[Cur] = obj[Cur]
          /\ \A d \in Ids \ {Cur} : Settled(obj'[d])
      BY <1>0, <1>1, <2>1, <3>1, EvolvesReflexive, VisitMoves
    <3>3. QuietNext(Cur)
      BY <2>4, <3>2 DEF QuietNext
    <3>4. loop' \in LoopType /\ ControlInv'
      BY <1>0, <1>2, <3>1, <3>2, <3>3, VisitedControl
    <3> QED
      BY <1>0, <1>1, <2>1, <3>2, <3>4, VisitStep
  <2> QED
    BY <2>2, <2>3, <2>4
<1> QED
  BY <1>3, <1>4

\* What the loop over buffered frames knows.
LEMMA FramesFacts ==
  ASSUME ServerInv, At("frames")
  PROVE  /\ loop.pc = "frames" /\ InVisit /\ ~At("flush") /\ Cur \in Ids /\ loop \in LoopType
         /\ ConnOK(obj[Cur]) /\ Settled(obj[Cur]) /\ obj \in [Ids -> ServerConn]
         /\ obj[Cur] \in ServerConn
         /\ LifeFits(life[Cur], obj[Cur]) /\ ~(life[Cur] = "handshake" /\ obj[Cur].open)
         /\ input \in [Ids -> [buf : Seq(PeerUnits), rx : Seq(PeerUnits)]]
         /\ loop' = loop => ServedInv'
<1>1. loop.pc = "frames" /\ InVisit /\ ~At("flush") /\ (loop' = loop => ServedInv')
  BY DEF At, InVisit, Serving, ServedInv
<1>2. /\ Cur \in Ids /\ ConnOK(obj[Cur]) /\ Settled(obj[Cur]) /\ loop \in LoopType /\ ~Ending
      /\ obj \in [Ids -> ServerConn] /\ LifeFits(life[Cur], obj[Cur])
  BY <1>1, VisitFacts
<1>3. ~(life[Cur] = "handshake" /\ obj[Cur].open)
  BY <1>1, <1>2, NoHandshake
<1> QED
  BY <1>1, <1>2, <1>3 DEF ServerInv, TypeOK

\* A frame leaves the buffer.
LEMMA TakeFacts ==
  ASSUME ServerInv, NEW u, TakeFrame(u)
  PROVE  /\ input' \in [Ids -> [buf : Seq(PeerUnits), rx : Seq(PeerUnits)]]
         /\ \A d \in Ids \ {Cur} : input'[d].buf = input[d].buf
         /\ life[Cur] = "open"
<1>1. At("frames") /\ MoreFrames /\ input' = [input EXCEPT ![Cur].buf = Tail(@)]
  BY DEF TakeFrame
<1>2. /\ InVisit /\ Cur \in Ids /\ LifeFits(life[Cur], obj[Cur])
      /\ input \in [Ids -> [buf : Seq(PeerUnits), rx : Seq(PeerUnits)]]
  BY <1>1, FramesFacts
<1>3. input[Cur].buf \in Seq(PeerUnits) /\ input[Cur].buf # <<>> /\ input[Cur].rx \in Seq(PeerUnits)
  BY <1>1, <1>2 DEF MoreFrames
<1>4. Tail(input[Cur].buf) \in Seq(PeerUnits)
  BY <1>3, HeadTailProperties
<1>5. input' = [input EXCEPT ![Cur].buf = Tail(input[Cur].buf)]
  BY <1>1, <1>2
<1>6. life[Cur] = "open"
  BY <1>1, <1>2 DEF MoreFrames, LifeFits
<1> QED
  BY <1>2, <1>3, <1>4, <1>5, <1>6, InputMoves

\* process_buffered_frames() returns; on_message is called and returns.
LEMMA MessageSteps ==
  ASSUME ServerInv, options' = options, FramesDone \/ FrameMessage \/ OnMessageReturns
  PROVE  StepOK
<1>1. CASE FramesDone
  <2>1. /\ At("frames") /\ ~MoreFrames
        /\ loop' = FramesReturn(obj[Cur], input[Cur].buf)
        /\ UNCHANGED <<options, connections, obj, input, peer, net, running, exception, calls, life>>
    BY <1>1 DEF FramesDone
  <2>2. obj' = [obj EXCEPT ![Cur] = obj[Cur]]
    BY <2>1, FramesFacts
  <2>3. /\ DataMoves /\ Others /\ obj'[Cur] = obj[Cur]
        /\ \A d \in Ids \ {Cur} : Settled(obj'[d])
    BY <2>1, <2>2, FramesFacts, EvolvesReflexive, VisitMoves
  <2>4. QuietNext(Cur) /\ ~(life'[Cur] = "handshake" /\ obj'[Cur].open)
    BY <2>1, <2>3, FramesFacts DEF QuietNext, MoreFrames
  <2>5. loop' \in LoopType /\ ControlInv'
    BY <2>1, <2>3, <2>4, FramesReturnControl
  <2> QED
    BY <2>1, <2>3, <2>5, FramesFacts, VisitStep
<1>2. CASE FrameMessage
  <2>1. /\ TakeFrame("message") /\ At("frames")
        /\ UNCHANGED <<options, connections, obj, peer, net, running, exception, calls>>
    BY <1>2 DEF FrameMessage, TakeFrame
  <2>2. life[Cur] = "open" /\ life \in [Ids -> LifeStates]
    BY <2>1, TakeFacts DEF ServerInv, TypeOK
  <2>3. life' = life /\ (loop' = Goto("onMessage") \/ loop' = loop)
    BY <1>2, <2>2 DEF FrameMessage, Saw
  <2>4. obj' = [obj EXCEPT ![Cur] = obj[Cur]]
    BY <2>1, FramesFacts
  <2>5. /\ DataMoves /\ Others /\ obj'[Cur] = obj[Cur]
        /\ \A d \in Ids \ {Cur} : Settled(obj'[d])
    BY <2>1, <2>3, <2>4, FramesFacts, TakeFacts, EvolvesReflexive, VisitMoves
  <2>6. loop' \in LoopType /\ ControlInv'
    <3>1. CASE loop' = loop
      BY <2>1, <2>2, <2>3, <2>5, <3>1, FramesFacts, StayControl DEF Serving
    <3>2. CASE loop' = Goto("onMessage")
      <4>1. loop'.pc = "onMessage"
        BY <2>1, <3>2, FramesFacts DEF Goto, LoopType
      <4>2. ServedInv'
        BY <4>1 DEF ServedInv, At
      <4> QED
        BY <2>1, <2>2, <2>3, <2>5, <3>2, <4>2, FramesFacts, GotoControl DEF Serving
    <3> QED
      BY <2>3, <3>1, <3>2
  <2> QED
    BY <2>1, <2>5, <2>6, FramesFacts, TakeFacts, VisitStep
<1>3. CASE OnMessageReturns
  <2>1. /\ loop.pc = "onMessage" /\ InVisit /\ ~At("flush") /\ loop' = Goto("frames")
        /\ UNCHANGED <<options, connections, obj, input, peer, net, running, exception, calls, life>>
    BY <1>3 DEF OnMessageReturns, At, InVisit, Serving
  <2>2. /\ Cur \in Ids /\ ConnOK(obj[Cur]) /\ Settled(obj[Cur]) /\ loop \in LoopType
        /\ obj \in [Ids -> ServerConn] /\ ~Ending
        /\ input \in [Ids -> [buf : Seq(PeerUnits), rx : Seq(PeerUnits)]]
    BY <2>1, VisitFacts DEF ServerInv, TypeOK
  <2>3. ~(life[Cur] = "handshake" /\ obj[Cur].open)
    BY <2>1, <2>2, NoHandshake
  <2>4. obj' = [obj EXCEPT ![Cur] = obj[Cur]]
    BY <2>1, <2>2
  <2>5. /\ DataMoves /\ Others /\ obj'[Cur] = obj[Cur]
        /\ \A d \in Ids \ {Cur} : Settled(obj'[d])
    BY <2>1, <2>2, <2>4, EvolvesReflexive, VisitMoves
  <2>6. loop'.pc = "frames"
    BY <2>1, <2>2 DEF Goto, LoopType
  <2>7. ServedInv'
    BY <2>6 DEF ServedInv, At
  <2>8. loop' \in LoopType /\ ControlInv'
    BY <2>1, <2>3, <2>5, <2>7, GotoControl DEF Serving
  <2> QED
    BY <2>1, <2>2, <2>5, <2>8, VisitStep
<1> QED
  BY <1>1, <1>2, <1>3

\* A ping, a pong, a close frame, and a frame that ends the connection.
LEMMA ControlFrameSteps ==
  ASSUME ServerInv, options' = options, FramePing \/ FramePong \/ FrameClose \/ FrameMalformed
  PROVE  StepOK
<1>0. /\ At("frames") /\ MoreFrames
      /\ UNCHANGED <<options, connections, peer, net, running, exception, calls, life>>
      /\ \A d \in Ids \ {Cur} : input'[d].buf = input[d].buf
      /\ input' \in [Ids -> [buf : Seq(PeerUnits), rx : Seq(PeerUnits)]]
  <2>1. CASE FrameMalformed
    BY <2>1, FramesFacts DEF FrameMalformed
  <2>2. CASE ~FrameMalformed
    <3>1. PICK u : TakeFrame(u)
      BY <2>2 DEF FramePing, FramePong, FrameClose
    <3> QED
      BY <2>2, <3>1, TakeFacts DEF FramePing, FramePong, FrameClose, TakeFrame
  <2> QED
    BY <2>1, <2>2
<1>1. /\ Cur \in Ids /\ ConnOK(obj[Cur]) /\ Settled(obj[Cur]) /\ loop \in LoopType
      /\ obj \in [Ids -> ServerConn] /\ obj[Cur] \in ServerConn /\ InVisit
      /\ ~(life[Cur] = "handshake" /\ obj[Cur].open)
  BY <1>0, FramesFacts
<1>2. \E p : /\ Evolves(obj[Cur], p) /\ Settled(p) /\ obj' = [obj EXCEPT ![Cur] = p]
             /\ \/ loop' \in {loop, BreakLoop}
                \/ loop' = FramesReturn(p, input[Cur].buf) /\ (p.open => p.close_after_write)
  <2>1. CASE FramePing
    <3>1. PICK k \in Answers :
            /\ obj' = [obj EXCEPT ![Cur] = SendFrame(obj[Cur], AnyFrame, k).c]
            /\ loop' = IF SendFrame(obj[Cur], AnyFrame, k).ok THEN loop ELSE BreakLoop
      BY <2>1 DEF FramePing
    <3>2. loop' \in {loop, BreakLoop}
      BY <3>1
    <3> QED
      BY <1>1, <3>1, <3>2, SendFrameEvolves
  <2>2. CASE FramePong
    <3> DEFINE p == [obj[Cur] EXCEPT !.awaiting_pong = FALSE]
    <3>1. obj' = [obj EXCEPT ![Cur] = p] /\ loop' = loop
      BY <1>1, <2>2 DEF FramePong
    <3>2. /\ p \in ServerConn /\ p.open = obj[Cur].open /\ p.fd = obj[Cur].fd
          /\ p.interest = obj[Cur].interest /\ p.write_queue = obj[Cur].write_queue
          /\ p.write_queue_offset = obj[Cur].write_queue_offset
          /\ p.write_watched = obj[Cur].write_watched /\ p.upgraded = obj[Cur].upgraded
          /\ p.close_after_write = obj[Cur].close_after_write
          /\ p.close_notified = obj[Cur].close_notified
          /\ p.defer_close = obj[Cur].defer_close
      BY <1>1 DEF ServerConn
    <3> HIDE DEF p
    <3>3. Len(obj[Cur].write_queue) \in Nat
      BY <1>1 DEF ServerConn
    <3>4. ConnOK(p) /\ Settled(p)
      BY <1>1, <3>2 DEF ConnOK, Settled
    <3>5. Evolves(obj[Cur], p)
      BY <3>2, <3>3, <3>4 DEF Evolves
    <3> QED
      BY <3>1, <3>4, <3>5
  <2>3. CASE FrameClose
    <3>1. PICK k \in Answers : obj' = [obj EXCEPT ![Cur] = CloseWithCode(obj[Cur], AnyFrame, k).c]
      BY <2>3 DEF FrameClose
    <3>2. loop' = loop
      BY <2>3 DEF FrameClose
    <3> QED
      BY <1>1, <3>1, <3>2, CloseWithCodeEvolves
  <2>4. CASE FrameMalformed
    <3>1. PICK k \in Answers :
            LET o == CloseWithCode(obj[Cur], AnyFrame, k).c
            IN  /\ obj' = [obj EXCEPT ![Cur] = o]
                /\ loop' = FramesReturn(o, input[Cur].buf)
      BY <2>4 DEF FrameMalformed
    <3> QED
      BY <1>1, <3>1, CloseWithCodeEvolves
  <2> QED
    BY <2>1, <2>2, <2>3, <2>4
<1>3. PICK p : /\ Evolves(obj[Cur], p) /\ Settled(p) /\ obj' = [obj EXCEPT ![Cur] = p]
               /\ \/ loop' \in {loop, BreakLoop}
                  \/ loop' = FramesReturn(p, input[Cur].buf) /\ (p.open => p.close_after_write)
  BY <1>2
<1>4. /\ DataMoves /\ Others /\ obj'[Cur] = p
      /\ \A d \in Ids \ {Cur} : Settled(obj'[d])
  BY <1>0, <1>1, <1>3, VisitMoves
<1>5. ~(life'[Cur] = "handshake" /\ obj'[Cur].open)
  BY <1>0, <1>1, <1>3, <1>4 DEF Evolves
<1>6. loop' \in LoopType /\ ControlInv'
  <2>1. CASE loop' = loop
    BY <1>0, <1>1, <1>4, <1>5, <2>1, FramesFacts, StayControl DEF Serving
  <2>2. CASE loop' = BreakLoop
    BY <1>1, <2>2, BreakControl
  <2>3. CASE loop' = FramesReturn(p, input[Cur].buf) /\ (p.open => p.close_after_write)
    <3>1. QuietNext(Cur)
      BY <1>4, <2>3 DEF QuietNext
    <3> QED
      BY <1>0, <1>4, <1>5, <2>3, <3>1, FramesReturnControl
  <2> QED
    BY <1>3, <2>1, <2>2, <2>3
<1> QED
  BY <1>0, <1>1, <1>3, <1>4, <1>6, VisitStep

-----------------------------------------------------------------------------
(* Removing connections. *)

\* What is left of an array without duplicates.
LEMMA RemoveKeeps ==
  ASSUME NEW S, NEW s \in Seq(S), NEW i \in 1..Len(s),
         \A a, b \in 1..Len(s) : s[a] = s[b] => a = b
  PROVE  LET r == RemoveAt(s, i)
         IN  /\ r \in Seq(S) /\ Len(r) = Len(s) - 1
             /\ \A a, b \in 1..Len(r) : r[a] = r[b] => a = b
             /\ \A d : Contains(r, d) <=> Contains(s, d) /\ d # s[i]
<1> DEFINE r == RemoveAt(s, i)
           at(j) == IF j < i THEN j ELSE j + 1
<1>1. /\ r \in Seq(S) /\ Len(r) = Len(s) - 1
      /\ \A j \in 1..(Len(s) - 1) : r[j] = IF j < i THEN s[j] ELSE s[j + 1]
  BY RemoveFacts
<1>2. Len(s) \in Nat /\ i \in Nat
  OBVIOUS
<1> HIDE DEF r
<1>3. \A j \in 1..Len(r) : at(j) \in 1..Len(s) /\ at(j) # i /\ r[j] = s[at(j)]
  BY <1>1, <1>2
<1>4. \A a, b \in 1..Len(r) : at(a) = at(b) => a = b
  BY <1>1, <1>2
<1>5. \A m \in 1..Len(s) : m # i => \E j \in 1..Len(r) : at(j) = m
  <2> SUFFICES ASSUME NEW m \in 1..Len(s), m # i PROVE \E j \in 1..Len(r) : at(j) = m
    OBVIOUS
  <2>1. CASE m < i
    <3>1. m \in 1..Len(r) /\ at(m) = m
      BY <1>1, <1>2, <2>1
    <3> QED
      BY <3>1
  <2>2. CASE m > i
    <3>1. m - 1 \in 1..Len(r) /\ at(m - 1) = m
      BY <1>1, <1>2, <2>2
    <3> QED
      BY <3>1
  <2> QED
    BY <1>2, <2>1, <2>2
<1> HIDE DEF at
<1>6. \A a, b \in 1..Len(r) : r[a] = r[b] => a = b
  BY <1>3, <1>4
<1>7. ASSUME NEW d
      PROVE  Contains(r, d) <=> Contains(s, d) /\ d # s[i]
  <2>1. ASSUME Contains(r, d)
        PROVE  Contains(s, d) /\ d # s[i]
    <3>1. PICK j \in 1..Len(r) : r[j] = d
      BY <2>1 DEF Contains
    <3> QED
      BY <1>3, <3>1 DEF Contains
  <2>2. ASSUME Contains(s, d), d # s[i]
        PROVE  Contains(r, d)
    <3>1. PICK m \in 1..Len(s) : s[m] = d
      BY <2>2 DEF Contains
    <3>2. PICK j \in 1..Len(r) : at(j) = m
      BY <1>5, <2>2, <3>1
    <3> QED
      BY <1>3, <3>1, <3>2 DEF Contains
  <2> QED
    BY <2>1, <2>2
<1> QED
  BY <1>1, <1>6, <1>7 DEF r

\* close_connection_at(): the connection as on_close sees it, and as it is left.
LEMMA RemovedObject ==
  ASSUME NEW x, ConnOK(x)
  PROVE  LET o == [x EXCEPT !.open = FALSE, !.interest = IF x.fd # NoFd THEN {} ELSE @]
             t == [o EXCEPT !.close_notified = TRUE]
         IN  /\ o.upgraded = x.upgraded /\ o.close_notified = x.close_notified
             /\ Evolves(x, CloseSocket(o)) /\ CloseSocket(o).fd = NoFd /\ ~CloseSocket(o).open
             /\ CloseSocket(o).interest = {}
             /\ ConnOK(t) /\ t.fd = x.fd /\ ~t.open /\ t.interest = {} /\ t.close_notified
             /\ t.upgraded = x.upgraded /\ t.write_queue = x.write_queue
<1> DEFINE o == [x EXCEPT !.open = FALSE, !.interest = IF x.fd # NoFd THEN {} ELSE @]
           t == [o EXCEPT !.close_notified = TRUE]
<1>1. x \in ServerConn /\ (x.fd = NoFd => x.interest = {})
  BY DEF ConnOK
<1>2. /\ o \in ServerConn /\ ~o.open /\ o.interest = {} /\ o.fd = x.fd
      /\ o.upgraded = x.upgraded /\ o.close_notified = x.close_notified
      /\ o.defer_close = x.defer_close /\ o.write_queue = x.write_queue
      /\ o.write_queue_offset = x.write_queue_offset
  BY <1>1 DEF ServerConn, Interests
<1> HIDE DEF o
<1>3. /\ t \in ServerConn /\ ~t.open /\ t.interest = {} /\ t.fd = o.fd
      /\ t.upgraded = o.upgraded /\ t.close_notified
      /\ t.write_queue = o.write_queue /\ t.write_queue_offset = o.write_queue_offset
  BY <1>2 DEF ServerConn
<1> HIDE DEF t
<1>4. ConnOK(o) /\ ConnOK(t) /\ Len(x.write_queue) \in Nat
  BY <1>1, <1>2, <1>3 DEF ConnOK, ServerConn
<1>5. Evolves(x, o)
  BY <1>2, <1>4 DEF Evolves
<1>6. /\ Evolves(x, CloseSocket(o)) /\ CloseSocket(o).fd = NoFd /\ ~CloseSocket(o).open
      /\ CloseSocket(o).interest = {}
  BY <1>4, <1>5, CloseSocketEvolves, EvolvesTransitive
<1> QED
  BY <1>2, <1>3, <1>4, <1>6 DEF o, t

\* A connection leaves the array, during the purge or at the end.
LEMMA Removes ==
  ASSUME ServerInv, NEW ret \in {"purge", "closing"}, At(ret), options' = options,
         UNCHANGED <<input, peer, net, running, exception, calls>>,
         NEW i \in 1..Len(connections), NEW c \in Ids, connections[i] = c,
         NEW notify, exception \/ notify,
         At("purge") => loop.i <= Len(connections),
         CloseConnectionAt(i, notify, ret)
  PROVE  StepOK
<1> DEFINE o == [obj[c] EXCEPT !.open = FALSE,
                               !.interest = IF obj[c].fd # NoFd THEN {} ELSE @]
           t == [o EXCEPT !.close_notified = TRUE]
           z == CloseSocket(o)
           tell == notify /\ o.upgraded /\ ~o.close_notified /\ "close" \in Handlers
<1>0. /\ loop.pc \in {"purge", "closing"} /\ loop \in LoopType /\ TypeOK /\ ArrayInv
      /\ ~At("onClose") /\ ~At("flush") /\ connections \in Seq(Ids) /\ Len(connections) \in Nat
      /\ obj \in [Ids -> ServerConn] /\ life \in [Ids -> LifeStates]
      /\ loop.pc = ret
  <2>1. loop.pc = ret /\ ~At("onClose") /\ ~At("flush")
    BY DEF At
  <2>2. TypeOK /\ ArrayInv
    BY DEF ServerInv, DataInv
  <2>3. /\ loop \in LoopType /\ connections \in Seq(Ids)
        /\ obj \in [Ids -> ServerConn] /\ life \in [Ids -> LifeStates]
    BY <2>2 DEF TypeOK
  <2> QED
    BY <2>1, <2>2, <2>3
<1>1. /\ connections' = RemoveAt(connections, i)
      /\ IF tell
         THEN /\ obj' = [obj EXCEPT ![c] = t]
              /\ life' = [life EXCEPT ![c] = IF life[c] \in {"open", "closing"} THEN "closed" ELSE "error"]
              /\ loop' = [loop EXCEPT !.pc = "onClose", !.cur = c, !.ret = ret]
         ELSE obj' = [obj EXCEPT ![c] = z] /\ UNCHANGED <<life, loop>>
  BY <1>0 DEF CloseConnectionAt, Saw
<1>2. \A d \in Ids : ConnOK(obj[d]) /\ LifeFits(life[d], obj[d]) /\ Settled(obj[d])
  BY <1>0, AllSettled DEF ServerInv, DataInv, ObjectsInv
<1>3. /\ o.upgraded = obj[c].upgraded /\ o.close_notified = obj[c].close_notified
      /\ Evolves(obj[c], z) /\ z.fd = NoFd /\ ~z.open /\ z.interest = {}
      /\ ConnOK(t) /\ t.fd = obj[c].fd /\ ~t.open /\ t.interest = {} /\ t.close_notified
      /\ t.upgraded = obj[c].upgraded /\ t.write_queue = obj[c].write_queue
  BY <1>2, RemovedObject
<1> HIDE DEF o, t, z
<1>4. /\ connections' \in Seq(Ids) /\ Len(connections') = Len(connections) - 1
      /\ \A a, b \in 1..Len(connections') : connections'[a] = connections'[b] => a = b
      /\ \A d : Contains(connections', d) <=> Contains(connections, d) /\ d # c
  BY <1>0, <1>1, RemoveKeeps DEF ArrayInv
<1>5. Listed(c) /\ ~(c > net.accepted)
  BY DEF Listed, Contains, ServerInv, DataInv, ArrayInv
<1>6. /\ \A d \in Ids \ {c} : obj'[d] = obj[d] /\ life'[d] = life[d]
      /\ obj' \in [Ids -> ServerConn] /\ life' \in [Ids -> LifeStates] /\ loop' \in LoopType
      /\ ConnOK(obj'[c]) /\ LifeFits(life'[c], obj'[c]) /\ ~obj'[c].open
      /\ obj'[c].interest = {}
      /\ Len(obj'[c].write_queue) <= Len(obj[c].write_queue) \/ obj[c].open
      /\ "close" \in Handlers /\ ~exception => life'[c] \notin {"open", "closing"}
      /\ \/ /\ obj'[c].fd = obj[c].fd /\ loop'.pc = "onClose" /\ loop'.cur = c
            /\ loop'.ret = ret /\ loop'.i = loop.i
         \/ obj'[c].fd = NoFd /\ loop' = loop
  <2>1. CASE tell
    <3>1. life[c] \in {"open", "closing"}
      BY <1>2, <1>3, <2>1 DEF LifeFits
    <3>2. /\ obj' = [obj EXCEPT ![c] = t] /\ life' = [life EXCEPT ![c] = "closed"]
          /\ loop' = [loop EXCEPT !.pc = "onClose", !.cur = c, !.ret = ret]
      BY <1>1, <2>1, <3>1
    <3>3. t \in ServerConn /\ "closed" \in LifeStates /\ Len(obj[c].write_queue) \in Nat
      <4>1. obj[c] \in ServerConn /\ t \in ServerConn
        BY <1>0, <1>3 DEF ConnOK
      <4>2. Len(obj[c].write_queue) \in Nat
        BY <4>1 DEF ServerConn
      <4> QED
        BY <4>1, <4>2 DEF LifeStates
    <3>4. /\ obj' \in [Ids -> ServerConn] /\ life' \in [Ids -> LifeStates]
          /\ obj'[c] = t /\ life'[c] = "closed"
          /\ \A d \in Ids \ {c} : obj'[d] = obj[d] /\ life'[d] = life[d]
      BY <1>0, <3>2, <3>3
    <3>5. LifeFits("closed", t)
      BY <1>2, <1>3, <2>1 DEF LifeFits
    <3>6. /\ loop' \in LoopType /\ loop'.pc = "onClose" /\ loop'.cur = c
          /\ loop'.ret = ret /\ loop'.i = loop.i
      BY <1>0, <3>2 DEF LoopType
    <3> QED
      BY <1>3, <3>3, <3>4, <3>5, <3>6
  <2>2. CASE ~tell
    <3>1. obj' = [obj EXCEPT ![c] = z] /\ life' = life /\ loop' = loop
      BY <1>1, <2>2
    <3>2. z \in ServerConn /\ ConnOK(z) /\ (~obj[c].open => Len(z.write_queue) <= Len(obj[c].write_queue))
      BY <1>3 DEF Evolves, ConnOK
    <3>3. obj' \in [Ids -> ServerConn] /\ obj'[c] = z /\ \A d \in Ids \ {c} : obj'[d] = obj[d]
      BY <1>0, <3>1, <3>2
    <3>4. LifeFits(life[c], z)
      BY <1>2, <1>3 DEF LifeFits, Evolves
    <3>5. "close" \in Handlers /\ ~exception => life[c] \notin {"open", "closing"}
      BY <1>2, <1>3, <2>2 DEF LifeFits
    <3> QED
      BY <1>0, <1>3, <3>1, <3>2, <3>3, <3>4, <3>5
  <2> QED
    BY <2>1, <2>2
<1>7. ArrayInv'
  <2>1. net' = net /\ net.accepted \in Nat /\ Len(connections') <= net.accepted
    BY <1>0, <1>4 DEF ArrayInv, TypeOK
  <2>2. ASSUME NEW d \in Ids, d > net'.accepted
        PROVE  life'[d] = "none" /\ ~Contains(connections', d)
    <3>1. d # c
      BY <1>5, <2>1, <2>2
    <3>2. life[d] = "none" /\ ~Contains(connections, d)
      BY <1>0, <2>1, <2>2 DEF ArrayInv, Listed
    <3> QED
      BY <1>4, <1>6, <3>1, <3>2
  <2> QED
    BY <1>0, <1>4, <2>1, <2>2 DEF ArrayInv, Listed
<1>8. ObjectsInv'
  BY <1>2, <1>6 DEF ObjectsInv, Settled
<1>9. DescriptorsOwned'
  <2>1. \A d \in Ids : /\ obj[d].fd # NoFd =>
                            /\ \A e \in Ids \ {d} : obj[e].fd # obj[d].fd
                            /\ Contains(connections, d)
                       /\ obj[d].interest # {} => Contains(connections, d) /\ obj[d].fd # NoFd
    BY <1>0 DEF ServerInv, DataInv, DescriptorsOwned
  <2>2. ASSUME NEW d \in Ids
        PROVE  /\ obj'[d].fd # NoFd =>
                    /\ \A e \in Ids \ {d} : obj'[e].fd # obj'[d].fd
                    /\ Contains(connections', d) \/ (loop'.pc = "onClose" /\ loop'.cur = d)
               /\ obj'[d].interest # {} => Contains(connections', d) /\ obj'[d].fd # NoFd
    BY <1>4, <1>6, <2>1
  <2> QED
    BY <2>2 DEF DescriptorsOwned, At, Cur
<1>10. ReportedInv'
  <2>1. "close" \in Handlers /\ ~exception =>
          \A d \in Ids : life[d] \in {"open", "closing"} => Contains(connections, d)
    BY DEF ServerInv, DataInv, ReportedInv, Listed
  <2> QED
    BY <1>4, <1>6, <2>1 DEF ReportedInv, Listed, Handlers
<1>11. TypeOK'
  <2>1. options \in Options /\ MaxConnections \in Nat /\ Len(connections) <= MaxConnections
    <3>1. options \in Options /\ Len(connections) <= MaxConnections
      BY <1>0 DEF TypeOK
    <3> QED
      BY <3>1, ServerAssumption DEF MaxConnections
  <2>2. Len(connections') <= MaxConnections'
    BY <1>0, <1>4, <2>1 DEF MaxConnections
  <2> QED
    BY <1>0, <1>4, <1>6, <2>1, <2>2 DEF TypeOK
<1>12. ControlInv'
  <2>1. /\ ~InVisit' /\ loop'.pc \in {"purge", "closing", "onClose"}
        /\ InPurge' => ret = "purge" /\ loop'.i = loop.i
        /\ ret = "closing" => Ending'
        /\ At("onClose")' => Cur' = c /\ loop'.ret = ret
    BY <1>0, <1>6 DEF InVisit, InPurge, Ending, Serving, At, Cur
  <2>2. PlaceInv'
    <3>1. InPurge' => loop'.i \in 1..(Len(connections') + 1)
      <4>1. At("purge") => loop.i \in 1..(Len(connections) + 1)
        BY DEF ServerInv, ControlInv, PlaceInv, InPurge
      <4> QED
        BY <1>0, <1>4, <2>1, <4>1 DEF At
    <3> QED
      BY <1>6, <2>1, <3>1 DEF PlaceInv, At
  <2>3. HandshakeInv'
    <3>1. CASE ret = "closing"
      BY <2>1, <3>1 DEF HandshakeInv
    <3>2. CASE ret = "purge"
      <4>1. \A d \in Ids : ~(life[d] = "handshake" /\ obj[d].open)
        BY <1>0, <3>2, NoHandshake DEF Ending, At
      <4> QED
        BY <1>6, <4>1 DEF HandshakeInv
    <3> QED
      BY <3>1, <3>2
  <2>4. QuietInv'
    <3>1. ASSUME ret = "purge", NEW j \in 1..Len(connections')
          PROVE  Quiet(connections[j])'
      <4>1. connections'[j] \in Ids /\ Contains(connections', connections'[j])
        BY <1>4 DEF Contains
      <4>2. Contains(connections, connections'[j]) /\ connections'[j] # c
        BY <1>4, <4>1
      <4>3. PICK m \in 1..Len(connections) : connections[m] = connections'[j]
        BY <4>2 DEF Contains
      <4>4. Quiet(connections[m])
        BY <1>0, <3>1 DEF ServerInv, ControlInv, QuietInv, InPurge, At
      <4> QED
        BY <1>6, <4>1, <4>2, <4>3, <4>4 DEF Quiet
    <3> QED
      BY <2>1, <3>1 DEF QuietInv
  <2> QED
    BY <2>1, <2>2, <2>3, <2>4 DEF ControlInv, ServedInv, At
<1>13. NoRevival
  <2>1. ASSUME NEW d \in Ids, ~obj[d].open
        PROVE  ~obj'[d].open /\ Len(obj'[d].write_queue) <= Len(obj[d].write_queue)
    <3>1. Len(obj[d].write_queue) \in Nat
      <4>1. obj[d] \in ServerConn
        BY <1>0
      <4> QED
        BY <4>1 DEF ServerConn
    <3> QED
      BY <1>6, <2>1, <3>1
  <2> QED
    BY <2>1 DEF NoRevival
<1> QED
  BY <1>7, <1>8, <1>9, <1>10, <1>11, <1>12, <1>13 DEF StepOK, ServerInv, DataInv

\* The purge, which goes over the array, and the end of run().
LEMMA PurgeSteps ==
  ASSUME ServerInv, options' = options, PurgeStep \/ PurgeDone \/ CloseAllStep \/ RunReturns
  PROVE  StepOK
<1>0. /\ loop \in LoopType /\ connections \in Seq(Ids) /\ Len(connections) \in Nat
      /\ TypeOK /\ loop.pc \in {"purge", "closing"} /\ ~At("flush") /\ ~At("onClose")
      /\ UNCHANGED <<input, peer, net, exception, calls>>
  <2>1. /\ loop.pc \in {"purge", "closing"} /\ ~At("flush") /\ ~At("onClose")
        /\ UNCHANGED <<input, peer, net, exception, calls>>
    BY DEF PurgeStep, PurgeDone, CloseAllStep, RunReturns, At
  <2>2. TypeOK
    BY DEF ServerInv
  <2>3. loop \in LoopType /\ connections \in Seq(Ids)
    BY <2>2 DEF TypeOK
  <2> QED
    BY <2>1, <2>2, <2>3
<1>1. At("purge") => loop.i \in 1..(Len(connections) + 1)
  BY DEF ServerInv, ControlInv, PlaceInv, InPurge
<1>2. At("purge") => /\ \A d \in Ids : ~(life[d] = "handshake" /\ obj[d].open)
                     /\ \A i \in 1..Len(connections) : Quiet(connections[i])
  <2> SUFFICES ASSUME At("purge")
               PROVE  /\ \A d \in Ids : ~(life[d] = "handshake" /\ obj[d].open)
                      /\ \A i \in 1..Len(connections) : Quiet(connections[i])
    OBVIOUS
  <2>1. ~Ending /\ loop.pc \notin {"onHandshake", "upgrade"} /\ InPurge
    BY DEF Ending, At, InPurge
  <2> QED
    BY <2>1, NoHandshake DEF ServerInv, ControlInv, QuietInv
<1>3. CASE PurgeStep /\ ~obj[connections[loop.i]].open
  <2>1. At("purge") /\ loop.i \in 1..Len(connections) /\ CloseConnectionAt(loop.i, TRUE, "purge")
    <3>1. At("purge") /\ loop.i <= Len(connections) /\ CloseConnectionAt(loop.i, TRUE, "purge")
      BY <1>3 DEF PurgeStep
    <3>2. loop.i \in 1..(Len(connections) + 1)
      BY <1>1, <3>1
    <3>3. loop.i <= Len(connections)
      BY <3>1
    <3>4. loop.i \in 1..Len(connections)
      BY <1>0, <3>2, <3>3
    <3> QED
      BY <3>1, <3>4
  <2>2. connections[loop.i] \in Ids /\ UNCHANGED <<input, peer, net, running, exception, calls>>
    BY <1>0, <1>3, <2>1 DEF PurgeStep
  <2>3. loop.i <= Len(connections)
    BY <1>0, <2>1
  <2> QED
    BY <2>1, <2>2, <2>3, Removes
<1>4. CASE CloseAllStep
  <2>1. /\ At("closing") /\ connections # <<>>
        /\ CloseConnectionAt(Len(connections), ~exception, "closing")
        /\ UNCHANGED <<input, peer, net, running, exception, calls>>
    BY <1>4 DEF CloseAllStep
  <2>2. Len(connections) \in 1..Len(connections) /\ connections[Len(connections)] \in Ids
    BY <1>0, <2>1
  <2>3. ~At("purge") /\ (exception \/ ~exception)
    BY <2>1 DEF At
  <2> QED
    BY <2>1, <2>2, <2>3, Removes
<1>5. CASE /\ ~(PurgeStep /\ ~obj[connections[loop.i]].open) /\ ~CloseAllStep
  <2>1. /\ UNCHANGED <<obj, connections, life>> /\ running' \in BOOLEAN
        /\ \/ /\ At("purge") /\ loop.i <= Len(connections)
              /\ loop' = [loop EXCEPT !.i = loop.i + 1]
           \/ /\ At("purge")
              /\ loop' = [pc |-> "wait", from |-> "fd", i |-> 0, cur |-> NoConn, ret |-> "none"]
           \/ At("closing") /\ connections = <<>> /\ loop' = Goto("off")
    BY <1>0, <1>5 DEF PurgeStep, PurgeDone, RunReturns, TypeOK
  <2>2. DataMoves /\ RestTypes /\ \A d \in Ids : Settled(obj'[d])
    <3>1. DataMoves /\ \A d \in Ids : Settled(obj'[d])
      BY <1>0, <2>1, StillMoves, AllSettled
    <3> QED
      BY <1>0, <2>1, <3>1 DEF RestTypes, TypeOK
  <2>3. loop' \in LoopType /\ ControlInv'
    <3>1. CASE At("purge") /\ loop.i <= Len(connections) /\ loop' = [loop EXCEPT !.i = loop.i + 1]
      <4>1. loop.i + 1 \in 1..(Len(connections) + 1) /\ loop.i + 1 \in 0..(TotalConns + 1)
        <5>1. net.left + net.backlog + net.accepted <= TotalConns /\ Len(connections) <= net.accepted
          BY DEF ServerInv, DataInv, ArrayInv
        <5>2. net.left \in Nat /\ net.backlog \in Nat /\ net.accepted \in Nat
          BY <1>0 DEF TypeOK
        <5>3. Len(connections) <= TotalConns
          BY <1>0, <5>1, <5>2, Bounds
        <5>4. loop.i \in 1..(Len(connections) + 1) /\ loop.i <= Len(connections)
          BY <1>1, <3>1
        <5> QED
          BY <1>0, <5>3, <5>4, Bounds
      <4>2. loop' \in LoopType /\ loop'.pc = "purge" /\ loop'.i = loop.i + 1
        BY <1>0, <3>1, <4>1 DEF LoopType, At
      <4>3. InPurge' /\ ~InVisit'
        BY <4>2 DEF InPurge, InVisit, Serving, At
      <4>4. PlaceInv' /\ QuietInv'
        BY <1>0, <1>2, <2>1, <3>1, <4>1, <4>2, <4>3 DEF PlaceInv, QuietInv, Quiet, At
      <4> QED
        BY <1>2, <2>1, <3>1, <4>2, <4>4 DEF ControlInv, ServedInv, HandshakeInv, At
    <3>2. CASE /\ At("purge")
               /\ loop' = [pc |-> "wait", from |-> "fd", i |-> 0, cur |-> NoConn, ret |-> "none"]
      <4>1. loop' \in LoopType /\ loop'.pc = "wait"
        BY <3>2, Bounds DEF LoopType
      <4>2. ~InPurge' /\ ~InVisit'
        BY <4>1 DEF InPurge, InVisit, Serving, At
      <4>3. PlaceInv' /\ QuietInv'
        BY <1>0, <1>2, <2>1, <3>2, <4>1, <4>2 DEF PlaceInv, QuietInv, Quiet, At
      <4> QED
        BY <1>2, <2>1, <3>2, <4>1, <4>3 DEF ControlInv, ServedInv, HandshakeInv, At
    <3>3. CASE At("closing") /\ connections = <<>> /\ loop' = Goto("off")
      <4>1. loop' \in LoopType /\ loop'.pc = "off"
        BY <1>0, <3>3 DEF LoopType, Goto
      <4>2. ~InPurge' /\ ~InVisit' /\ Ending'
        BY <4>1 DEF InPurge, InVisit, Serving, Ending, At
      <4>3. PlaceInv' /\ QuietInv'
        BY <2>1, <3>3, <4>1, <4>2 DEF PlaceInv, QuietInv, At
      <4> QED
        BY <4>1, <4>2, <4>3 DEF ControlInv, ServedInv, HandshakeInv, At
    <3> QED
      BY <2>1, <3>1, <3>2, <3>3
  <2> QED
    BY <1>0, <2>1, <2>2, <2>3, PlainStep
<1> QED
  BY <1>3, <1>4, <1>5

\* on_close returns.
LEMMA OnCloseReturnsStep ==
  ASSUME ServerInv, options' = options, OnCloseReturns
  PROVE  StepOK
<1>0. /\ loop.pc = "onClose" /\ At("onClose") /\ ~At("flush")
      /\ UNCHANGED <<options, connections, input, peer, net, running, exception, calls, life>>
  BY DEF OnCloseReturns, At
<1>1. /\ Cur \in Ids /\ ~obj[Cur].open /\ loop \in LoopType /\ obj \in [Ids -> ServerConn]
      /\ loop.ret \in {"upgrade", "purge", "closing"} /\ ConnOK(obj[Cur])
  <2>1. Cur \in Ids /\ ~obj[Cur].open /\ loop.ret \in {"upgrade", "purge", "closing"}
    BY <1>0 DEF ServerInv, ControlInv, PlaceInv
  <2> QED
    BY <2>1 DEF ServerInv, TypeOK, DataInv, ObjectsInv
<1>2. RestTypes
  BY <1>0, SameRest
<1>3. CASE loop.ret = "upgrade"
  <2>1. InVisit /\ loop' = HandshakeReturns(obj[Cur], input[Cur].buf) /\ obj' = obj
    BY <1>0, <1>3 DEF OnCloseReturns, InVisit
  <2>2. DataMoves /\ \A d \in Ids : Settled(obj'[d])
    BY <1>0, <2>1, StillMoves, AllSettled
  <2>3. Others /\ QuietNext(Cur) /\ ~obj'[Cur].open
    BY <1>0, <1>1, <2>1 DEF Others, QuietNext
  <2>4. loop' \in LoopType /\ ControlInv'
    BY <1>0, <2>1, <2>3, HandshakeReturnsControl
  <2> QED
    BY <1>0, <1>2, <2>1, <2>2, <2>4, PlainStep
<1>4. CASE loop.ret # "upgrade"
  <2> DEFINE p == CloseSocket(obj[Cur])
  <2>1. obj' = [obj EXCEPT ![Cur] = p] /\ loop' = Goto(loop.ret)
    BY <1>1, <1>4 DEF OnCloseReturns
  <2>2. Evolves(obj[Cur], p) /\ Settled(p) /\ ~p.open /\ p.fd = NoFd
    BY <1>1, CloseSocketEvolves
  <2> HIDE DEF p
  <2>3. DataMoves /\ obj'[Cur] = p /\ \A d \in Ids \ {Cur} : obj'[d] = obj[d]
    BY <1>0, <1>1, <2>1, <2>2, EvolveMoves
  <2>4. \A d \in Ids : Settled(obj'[d])
    BY <1>0, <2>2, <2>3, AllSettled
  <2>5. /\ loop' \in LoopType /\ loop'.pc = loop.ret /\ loop'.i = loop.i
        /\ loop'.pc \in {"purge", "closing"}
    BY <1>1, <1>4, <2>1 DEF Goto, LoopType
  <2>6. ~InVisit' /\ (InPurge' => InPurge) /\ (~Ending' => ~Ending)
    BY <1>0, <2>5 DEF InVisit, InPurge, Ending, Serving, At
  <2>7. PlaceInv'
    BY <1>0, <2>5, <2>6 DEF ServerInv, ControlInv, PlaceInv, At
  <2>8. QuietInv'
    <3>1. ASSUME InPurge, NEW i \in 1..Len(connections)
          PROVE  Quiet(connections[i])'
      <4>1. Quiet(connections[i]) /\ connections[i] \in Ids
        BY <3>1 DEF ServerInv, TypeOK, ControlInv, QuietInv
      <4> QED
        BY <1>0, <2>2, <2>3, <4>1 DEF Quiet
    <3> QED
      BY <1>0, <2>5, <2>6, <3>1 DEF QuietInv
  <2>9. HandshakeInv'
    <3>1. ~Ending => \A d \in Ids : ~(life[d] = "handshake" /\ obj[d].open)
      BY <1>0, NoHandshake
    <3> QED
      BY <1>0, <2>2, <2>3, <2>6, <3>1 DEF HandshakeInv
  <2>10. ControlInv'
    BY <2>5, <2>7, <2>8, <2>9 DEF ControlInv, ServedInv, At
  <2>11. /\ net' \in [left : Nat, backlog : Nat, accepted : Nat]
         /\ net'.left + net'.backlog + net'.accepted <= TotalConns
         /\ net'.accepted = net.accepted
    BY <1>0 DEF ServerInv, TypeOK, DataInv, ArrayInv
  <2>12. \A d \in Ids : At("onClose") /\ Cur = d /\ obj'[d].fd # NoFd =>
                          Listed(d) \/ (At("onClose")' /\ Cur' = d)
    BY <2>2, <2>3
  <2> QED
    BY <1>0, <1>2, <2>3, <2>4, <2>5, <2>10, <2>11, <2>12, StepInv
<1> QED
  BY <1>3, <1>4

-----------------------------------------------------------------------------
(* The application. *)

\* A call leaves the loop where it was: nothing it relied on is gone.
LEMMA CallControl ==
  ASSUME ServerInv, InCallback, loop' = loop, connections' = connections, input' = input,
         \A d \in Ids :
           /\ obj'[d].upgraded = obj[d].upgraded /\ obj'[d].defer_close = obj[d].defer_close
           /\ obj'[d].open => obj[d].open /\ (obj[d].close_after_write => obj'[d].close_after_write)
           /\ obj[d].defer_close => obj'[d].fd = obj[d].fd
           /\ life'[d] = "handshake" => life[d] = "handshake"
           /\ life[d] = "handshake" => obj'[d] = obj[d] /\ life'[d] = life[d]
  PROVE  ControlInv'
<1>1. PlaceInv /\ ServedInv /\ HandshakeInv /\ QuietInv /\ connections \in Seq(Ids)
  BY DEF ServerInv, ControlInv, TypeOK
<1>2. /\ (InVisit' <=> InVisit) /\ (InPurge' <=> InPurge) /\ (Ending' <=> Ending)
      /\ Cur' = Cur /\ loop.pc \in {"onHandshake", "onOpen", "onMessage", "onClose"}
  BY DEF InVisit, InPurge, Ending, At, Cur, InCallback
<1>3. PlaceInv'
  BY <1>1, <1>2 DEF PlaceInv, At, Listed
<1>4. ServedInv'
  <2>1. loop.pc # "onClose" => Cur \in Ids
    BY <1>1, <1>2 DEF PlaceInv, InVisit, Serving
  <2> QED
    BY <1>1, <1>2, <2>1 DEF ServedInv, At
<1>5. HandshakeInv'
  BY <1>1, <1>2 DEF HandshakeInv
<1>6. QuietInv'
  <2>1. ASSUME NEW i \in 1..Len(connections), Quiet(connections[i])
        PROVE  Quiet(connections[i])'
    <3>1. connections[i] \in Ids
      BY <1>1
    <3> QED
      BY <2>1, <3>1 DEF Quiet
  <2>2. InVisit /\ loop.from = "sweep" => loop.i \in 1..Len(connections)
    BY <1>1 DEF PlaceInv
  <2>3. InVisit /\ loop.from = "sweep" =>
          \A i \in 1..(loop.i - 1) : i \in 1..Len(connections) /\ Quiet(connections[i])
    BY <1>1, <2>2 DEF QuietInv
  <2>4. InPurge => \A i \in 1..Len(connections) : Quiet(connections[i])
    BY <1>1 DEF QuietInv
  <2> QED
    BY <1>2, <2>1, <2>3, <2>4 DEF QuietInv
<1> QED
  BY <1>3, <1>4, <1>5, <1>6 DEF ControlInv

\* send(), close() and stop() in a callback, for any connection.
LEMMA CallSteps ==
  ASSUME ServerInv, options' = options,
         CallStop \/ \E c \in Ids : CallSend(c) \/ CallClose(c)
  PROVE  StepOK
<1>0. /\ InCallback /\ ~At("flush")
      /\ UNCHANGED <<options, loop, connections, input, peer, net, exception>>
  BY DEF CallStop, CallSend, CallClose, InCallback, At
<1>1. RestTypes
  <2>1. calls \in Nat /\ calls < MaxCalls /\ calls' = calls + 1 /\ running' \in BOOLEAN
    <3>1. calls < MaxCalls /\ calls' = calls + 1 /\ (running' = FALSE \/ running' = running)
      BY DEF CallStop, CallSend, CallClose
    <3>2. calls \in 0..MaxCalls /\ running \in BOOLEAN
      BY DEF ServerInv, TypeOK
    <3>3. running' \in BOOLEAN
      BY <3>1, <3>2
    <3>4. calls \in Nat
      BY <3>2, Bounds
    <3> QED
      BY <3>1, <3>3, <3>4
  <2>2. calls' \in 0..MaxCalls
    BY <2>1, Bounds
  <2> QED
    BY <1>0, <2>1, <2>2 DEF RestTypes, ServerInv, TypeOK
<1>2. /\ net' \in [left : Nat, backlog : Nat, accepted : Nat]
      /\ net'.left + net'.backlog + net'.accepted <= TotalConns
      /\ net'.accepted = net.accepted /\ loop' \in LoopType
  BY <1>0 DEF ServerInv, TypeOK, DataInv, ArrayInv
<1>3. \A d \in Ids : Settled(obj[d]) /\ ConnOK(obj[d]) /\ LifeFits(life[d], obj[d])
  BY <1>0, AllSettled DEF ServerInv, DataInv, ObjectsInv
<1>4. /\ DataMoves /\ \A d \in Ids : Settled(obj'[d])
      /\ \A d \in Ids :
           /\ obj'[d].upgraded = obj[d].upgraded /\ obj'[d].defer_close = obj[d].defer_close
           /\ obj'[d].open => obj[d].open /\ (obj[d].close_after_write => obj'[d].close_after_write)
           /\ obj[d].defer_close => obj'[d].fd = obj[d].fd
           /\ life'[d] = "handshake" => life[d] = "handshake"
           /\ life[d] = "handshake" => obj'[d] = obj[d] /\ life'[d] = life[d]
  <2>1. CASE CallStop
    <3>1. obj' = obj /\ life' = life
      BY <2>1 DEF CallStop
    <3> QED
      BY <1>3, <3>1, StillMoves
  <2>2. CASE \E c \in Ids : CallSend(c)
    <3>1. PICK c \in Ids : CallSend(c)
      BY <2>2
    <3>2. PICK k \in Answers : obj' = [obj EXCEPT ![c] = SendFrame(obj[c], AnyFrame, k).c]
      BY <3>1 DEF CallSend
    <3> DEFINE p == SendFrame(obj[c], AnyFrame, k).c
    <3>3. /\ obj' = [obj EXCEPT ![c] = p] /\ life' = life
          /\ life[c] \in {"open", "closing", "closed"}
      BY <3>1, <3>2 DEF CallSend, Known
    <3>4. Evolves(obj[c], p) /\ p.fd = obj[c].fd /\ Settled(p)
      BY <1>3, SendFrameEvolves
    <3> HIDE DEF p
    <3>5. DataMoves /\ obj'[c] = p /\ \A d \in Ids \ {c} : obj'[d] = obj[d]
      BY <3>3, <3>4, EvolveMoves
    <3> QED
      BY <1>3, <3>3, <3>4, <3>5 DEF Evolves
  <2>3. CASE \E c \in Ids : CallClose(c)
    <3>1. PICK c \in Ids : CallClose(c)
      BY <2>3
    <3>2. PICK k \in Answers : obj' = [obj EXCEPT ![c] = Close(obj[c], AnyFrame, k).c]
      BY <3>1 DEF CallClose
    <3> DEFINE p == Close(obj[c], AnyFrame, k).c
               l == IF life[c] = "open" THEN "closing" ELSE life[c]
    <3>3. /\ obj' = [obj EXCEPT ![c] = p] /\ life' = [life EXCEPT ![c] = l]
          /\ life[c] \in {"open", "closing", "closed"}
      BY <3>1, <3>2 DEF CallClose, Known
    <3>4. /\ Evolves(obj[c], p) /\ Settled(p) /\ (p.open => p.close_after_write)
          /\ obj[c].defer_close => p.fd = obj[c].fd
      BY <1>3, CloseEvolves
    <3> HIDE DEF p
    <3>5. l \in LifeStates /\ LifeFits(l, p)
      BY <1>3, <3>3, <3>4 DEF LifeFits, LifeStates, Evolves
    <3>6. /\ ConnOK(p) /\ p.fd \in {obj[c].fd, NoFd} /\ (p.interest # {} => obj[c].interest # {})
          /\ p.open => obj[c].open
          /\ ~obj[c].open => Len(p.write_queue) <= Len(obj[c].write_queue)
          /\ l \in {"open", "closing"} => life[c] \in {"open", "closing"}
          /\ l # life[c] => life[c] # "none"
      BY <3>3, <3>4 DEF Evolves
    <3>7. l # "handshake"
      BY <3>3
    <3> HIDE DEF l
    <3>8. /\ DataMoves /\ obj'[c] = p /\ life'[c] = l
          /\ \A d \in Ids \ {c} : obj'[d] = obj[d] /\ life'[d] = life[d]
      BY <3>3, <3>5, <3>6, MovesAt
    <3> QED
      BY <1>3, <3>3, <3>4, <3>7, <3>8 DEF Evolves
  <2> QED
    BY <2>1, <2>2, <2>3
<1>5. ControlInv'
  BY <1>0, <1>4, CallControl
<1>6. \A d \in Ids : At("onClose") /\ Cur = d => At("onClose")' /\ Cur' = d
  BY <1>0 DEF At, Cur
<1> QED
  BY <1>0, <1>1, <1>2, <1>4, <1>5, <1>6, StepInv

\* A callback throws.
LEMMA ThrowStep ==
  ASSUME ServerInv, options' = options, CallbackThrows
  PROVE  StepOK
<1>0. /\ InCallback /\ ~At("flush") /\ exception' = TRUE /\ loop' = BreakLoop
      /\ UNCHANGED <<options, connections, input, peer, net, running, calls, life>>
  BY DEF CallbackThrows, InCallback, At
<1>1. Cur \in Ids
  <2>1. At("onClose") => Cur \in Ids
    BY DEF ServerInv, ControlInv, PlaceInv
  <2>2. ~At("onClose") => InVisit
    BY <1>0 DEF InCallback, InVisit, Serving, At
  <2> QED
    BY <2>1, <2>2, VisitFacts
<1>2. /\ ConnOK(obj[Cur]) /\ LifeFits(life[Cur], obj[Cur]) /\ obj[Cur] \in ServerConn
      /\ obj \in [Ids -> ServerConn] /\ life \in [Ids -> LifeStates] /\ loop \in LoopType
      /\ \A d \in Ids : Settled(obj[d])
  <2>1. ConnOK(obj[Cur]) /\ LifeFits(life[Cur], obj[Cur]) /\ \A d \in Ids : Settled(obj[d])
    BY <1>0, <1>1, AllSettled DEF ServerInv, DataInv, ObjectsInv
  <2> QED
    BY <1>1, <2>1 DEF ServerInv, TypeOK
<1> DEFINE q == [obj[Cur] EXCEPT !.defer_close = FALSE, !.open = FALSE]
           z == CloseSocket(obj[Cur])
           p == IF At("onOpen") THEN q
                ELSE IF At("onClose") /\ loop.ret # "upgrade" THEN z ELSE obj[Cur]
<1>3. obj' = [obj EXCEPT ![Cur] = p]
  BY <1>1, <1>2 DEF CallbackThrows
<1>4. /\ ConnOK(p) /\ LifeFits(life[Cur], p) /\ p.fd \in {obj[Cur].fd, NoFd}
      /\ p.interest # {} => obj[Cur].interest # {}
      /\ p.open => obj[Cur].open
      /\ ~obj[Cur].open => Len(p.write_queue) <= Len(obj[Cur].write_queue)
      /\ Settled(p)
      /\ At("onClose") /\ loop.ret # "upgrade" => p.fd = NoFd
  <2>1. CASE At("onOpen")
    <3>1. /\ q \in ServerConn /\ ~q.open /\ q.fd = obj[Cur].fd /\ q.interest = obj[Cur].interest
          /\ q.write_queue = obj[Cur].write_queue
          /\ q.write_queue_offset = obj[Cur].write_queue_offset
          /\ q.upgraded = obj[Cur].upgraded /\ q.close_notified = obj[Cur].close_notified
      BY <1>2 DEF ServerConn
    <3>2. Len(obj[Cur].write_queue) \in Nat
      BY <1>2 DEF ServerConn
    <3> HIDE DEF q
    <3>3. ConnOK(q) /\ LifeFits(life[Cur], q) /\ Settled(q)
      BY <1>2, <3>1 DEF ConnOK, LifeFits, Settled
    <3>4. p = q /\ ~At("onClose")
      BY <2>1 DEF At
    <3> QED
      BY <3>1, <3>2, <3>3, <3>4
  <2>2. CASE ~At("onOpen") /\ At("onClose") /\ loop.ret # "upgrade"
    <3>1. Evolves(obj[Cur], z) /\ z.fd = NoFd /\ ~z.open /\ Settled(z)
      BY <1>2, CloseSocketEvolves
    <3> HIDE DEF z
    <3>2. LifeFits(life[Cur], z) /\ p = z
      BY <1>2, <2>2, <3>1 DEF LifeFits, Evolves
    <3> QED
      BY <3>1, <3>2 DEF Evolves
  <2>3. CASE ~At("onOpen") /\ ~(At("onClose") /\ loop.ret # "upgrade")
    <3>1. p = obj[Cur] /\ Evolves(obj[Cur], obj[Cur])
      BY <1>2, <2>3, EvolvesReflexive
    <3> QED
      BY <1>1, <1>2, <2>3, <3>1 DEF Evolves
  <2> QED
    BY <2>1, <2>2, <2>3
<1> HIDE DEF p
<1>5. /\ DataMoves /\ obj'[Cur] = p /\ \A d \in Ids \ {Cur} : obj'[d] = obj[d]
  <2>1. life' = [life EXCEPT ![Cur] = life[Cur]] /\ life[Cur] \in LifeStates
    BY <1>0, <1>1, <1>2
  <2> QED
    BY <1>1, <1>3, <1>4, <2>1, MovesAt
<1>6. loop' \in LoopType /\ ControlInv'
  BY <1>0, <1>2, BreakControl
<1>7. \A d \in Ids : Settled(obj'[d])
  BY <1>2, <1>4, <1>5
<1>8. ASSUME NEW d \in Ids, At("onClose"), Cur = d, obj'[d].fd # NoFd
      PROVE  Listed(d)
  <2>1. loop.ret = "upgrade"
    BY <1>4, <1>5, <1>8
  <2>2. InVisit
    BY <1>8, <2>1 DEF InVisit
  <2> QED
    BY <1>8, <2>2, VisitFacts
<1>9. RestTypes
  BY <1>0 DEF RestTypes, ServerInv, TypeOK
<1>10. /\ net' \in [left : Nat, backlog : Nat, accepted : Nat]
       /\ net'.left + net'.backlog + net'.accepted <= TotalConns
       /\ net'.accepted = net.accepted
  BY <1>0 DEF ServerInv, TypeOK, DataInv, ArrayInv
<1> QED
  BY <1>0, <1>5, <1>6, <1>7, <1>8, <1>9, <1>10, StepInv

-----------------------------------------------------------------------------
(* The peers, the initial states, and the invariant. *)

\* The peers do not touch what the loop relies on.
LEMMA PeerControl ==
  ASSUME ServerInv, UNCHANGED <<loop, connections, obj, life>>,
         \A d \in Ids : input'[d].buf = input[d].buf
  PROVE  ControlInv'
<1>1. PlaceInv /\ ServedInv /\ HandshakeInv /\ QuietInv /\ connections \in Seq(Ids)
  BY DEF ServerInv, ControlInv, TypeOK
<1>2. /\ (InVisit' <=> InVisit) /\ (InPurge' <=> InPurge) /\ (Ending' <=> Ending) /\ Cur' = Cur
  BY DEF InVisit, InPurge, Ending, At, Cur
<1>3. PlaceInv' /\ HandshakeInv'
  BY <1>1, <1>2 DEF PlaceInv, HandshakeInv, At, Listed
<1>4. ServedInv'
  <2>1. loop.pc \in {"onHandshake", "upgrade"} => Cur \in Ids
    BY <1>1 DEF PlaceInv, InVisit, Serving
  <2> QED
    BY <1>1, <1>2, <2>1 DEF ServedInv, At
<1>5. QuietInv'
  <2>1. ASSUME NEW i \in 1..Len(connections), Quiet(connections[i])
        PROVE  Quiet(connections[i])'
    <3>1. connections[i] \in Ids
      BY <1>1
    <3> QED
      BY <2>1, <3>1 DEF Quiet
  <2>2. InVisit /\ loop.from = "sweep" => loop.i \in 1..Len(connections)
    BY <1>1 DEF PlaceInv
  <2>3. InVisit /\ loop.from = "sweep" =>
          \A i \in 1..(loop.i - 1) : i \in 1..Len(connections) /\ Quiet(connections[i])
    BY <1>1, <2>2 DEF QuietInv
  <2>4. loop.pc \in {"wait", "accept"} \/ InPurge =>
          \A i \in 1..Len(connections) : Quiet(connections[i])
    BY <1>1 DEF QuietInv
  <2> QED
    BY <1>2, <2>1, <2>3, <2>4 DEF QuietInv
<1> QED
  BY <1>3, <1>4, <1>5 DEF ControlInv

\* A step that changes neither the objects nor the loop.
LEMMA QuietStep ==
  ASSUME ServerInv, UNCHANGED <<options, loop, connections, obj, life, exception>>, RestTypes,
         \A d \in Ids : input'[d].buf = input[d].buf,
         net' \in [left : Nat, backlog : Nat, accepted : Nat],
         net'.left + net'.backlog + net'.accepted <= TotalConns,
         net'.accepted = net.accepted
  PROVE  StepOK
<1>1. ControlInv' /\ DataMoves
  BY PeerControl, StillMoves
<1>2. \A d \in Ids : Settled(obj'[d]) \/ (At("flush")' /\ Cur' = d)
  BY DEF ServerInv, DataInv, ObjectsInv, At, Cur
<1>3. \A d \in Ids : At("onClose") /\ Cur = d => At("onClose")' /\ Cur' = d
  BY DEF At, Cur
<1>4. loop' \in LoopType
  BY DEF ServerInv, TypeOK
<1> QED
  BY <1>1, <1>2, <1>3, <1>4, StepInv

\* A peer connects, sends, or goes away.
LEMMA PeerSteps ==
  ASSUME ServerInv, options' = options, Peers
  PROVE  StepOK
<1>0. /\ input \in [Ids -> [buf : Seq(PeerUnits), rx : Seq(PeerUnits)]]
      /\ peer \in [Ids -> [left : 0..MaxInput, asked : BOOLEAN, gone : BOOLEAN]]
      /\ net \in [left : Nat, backlog : Nat, accepted : Nat]
      /\ net.left \in Nat /\ net.backlog \in Nat /\ net.accepted \in Nat
      /\ net.left + net.backlog + net.accepted <= TotalConns
  BY DEF ServerInv, TypeOK, DataInv, ArrayInv
<1>1. UNCHANGED <<options, loop, connections, obj, running, exception, calls, life>>
  BY DEF Peers, Connect, PeerSends, PeerGone
<1>2. CASE Connect
  <2>1. /\ net.left > 0 /\ net' = [net EXCEPT !.left = net.left - 1, !.backlog = net.backlog + 1]
        /\ UNCHANGED <<input, peer>>
    BY <1>0, <1>2 DEF Connect
  <2>2. net.left - 1 \in Nat /\ net.backlog + 1 \in Nat
    BY <1>0, <2>1
  <2>3. /\ net' \in [left : Nat, backlog : Nat, accepted : Nat] /\ net'.left = net.left - 1
        /\ net'.backlog = net.backlog + 1 /\ net'.accepted = net.accepted
    BY <1>0, <2>1, <2>2
  <2>4. net'.left + net'.backlog + net'.accepted <= TotalConns
    BY <1>0, <2>3, Bounds
  <2>5. RestTypes
    BY <1>1, <2>1, SameRest
  <2> QED
    BY <1>1, <2>1, <2>3, <2>4, <2>5, QuietStep
<1>3. ASSUME NEW c \in Ids, PeerSends(c) \/ PeerGone(c)
      PROVE  StepOK
  <2>0. /\ input[c] \in [buf : Seq(PeerUnits), rx : Seq(PeerUnits)]
        /\ peer[c] \in [left : 0..MaxInput, asked : BOOLEAN, gone : BOOLEAN]
    BY <1>0
  <2>1. net' = net
    BY <1>3 DEF PeerSends, PeerGone
  <2>2. PICK rx \in Seq(PeerUnits) : input' = [input EXCEPT ![c].rx = rx]
    <3>1. CASE PeerSends(c)
      <4>1. PICK u \in PeerUnits : input' = [input EXCEPT ![c].rx = Append(input[c].rx, u)]
        BY <1>0, <3>1 DEF PeerSends
      <4>2. Append(input[c].rx, u) \in Seq(PeerUnits)
        BY <2>0, AppendProperties
      <4> QED
        BY <4>1, <4>2
    <3>2. CASE PeerGone(c)
      <4>1. PICK rx \in {input[c].rx, <<>>} : input' = [input EXCEPT ![c].rx = rx]
        BY <3>2 DEF PeerGone
      <4>2. input[c].rx \in Seq(PeerUnits) /\ <<>> \in Seq(PeerUnits)
        BY <2>0
      <4>3. rx \in Seq(PeerUnits)
        BY <4>1, <4>2
      <4> QED
        BY <4>1, <4>3
    <3> QED
      BY <1>3, <3>1, <3>2
  <2>3. /\ input' \in [Ids -> [buf : Seq(PeerUnits), rx : Seq(PeerUnits)]]
        /\ \A d \in Ids : input'[d].buf = input[d].buf
    <3>1. input' = [input EXCEPT ![c] = [input[c] EXCEPT !.rx = rx]]
      BY <1>0, <2>2
    <3>2. /\ [input[c] EXCEPT !.rx = rx] \in [buf : Seq(PeerUnits), rx : Seq(PeerUnits)]
          /\ [input[c] EXCEPT !.rx = rx].buf = input[c].buf
      BY <2>0
    <3> QED
      BY <1>0, <3>1, <3>2
  <2>4. peer' \in [Ids -> [left : 0..MaxInput, asked : BOOLEAN, gone : BOOLEAN]]
    <3>1. CASE PeerSends(c)
      <4>1. PICK u : peer' = [peer EXCEPT ![c].left = peer[c].left - 1,
                                          ![c].asked = peer[c].asked \/ u = "request"]
        BY <1>0, <3>1 DEF PeerSends
      <4>2. peer[c].left - 1 \in 0..MaxInput
        <5>1. peer[c].left > 0 /\ peer[c].left \in 0..MaxInput
          BY <2>0, <3>1 DEF PeerSends
        <5> QED
          BY <5>1, Bounds
      <4>3. (peer[c].asked \/ u = "request") \in BOOLEAN
        OBVIOUS
      <4>4. [peer[c] EXCEPT !.left = peer[c].left - 1, !.asked = peer[c].asked \/ u = "request"]
              \in [left : 0..MaxInput, asked : BOOLEAN, gone : BOOLEAN]
        BY <2>0, <4>2, <4>3
      <4>5. peer' = [peer EXCEPT ![c] = [peer[c] EXCEPT !.left = peer[c].left - 1,
                                                        !.asked = peer[c].asked \/ u = "request"]]
        BY <1>0, <4>1
      <4> QED
        BY <1>0, <4>4, <4>5
    <3>2. CASE PeerGone(c)
      <4>1. peer' = [peer EXCEPT ![c] = [peer[c] EXCEPT !.gone = TRUE]]
        BY <1>0, <3>2 DEF PeerGone
      <4>2. [peer[c] EXCEPT !.gone = TRUE] \in [left : 0..MaxInput, asked : BOOLEAN, gone : BOOLEAN]
        BY <2>0
      <4> QED
        BY <1>0, <4>1, <4>2
    <3> QED
      BY <1>3, <3>1, <3>2
  <2>5. RestTypes
    BY <1>1, <2>3, <2>4 DEF RestTypes, ServerInv, TypeOK
  <2> QED
    BY <1>0, <1>1, <2>1, <2>3, <2>5, QuietStep
<1> QED
  BY <1>2, <1>3 DEF Peers

\* Nothing happens.
LEMMA StutterStep ==
  ASSUME ServerInv, UNCHANGED vars
  PROVE  StepOK
<1>1. UNCHANGED <<options, loop, connections, obj, input, peer, net, running, exception, calls, life>>
  BY DEF vars
<1>2. RestTypes
  BY <1>1, SameRest
<1>3. /\ net' \in [left : Nat, backlog : Nat, accepted : Nat]
      /\ net'.left + net'.backlog + net'.accepted <= TotalConns
      /\ net'.accepted = net.accepted
  BY <1>1 DEF ServerInv, TypeOK, DataInv, ArrayInv
<1> QED
  BY <1>1, <1>2, <1>3, QuietStep

\* Every step keeps the invariant.
LEMMA NextStep ==
  ASSUME ServerInv, [Next]_vars
  PROVE  StepOK
<1>1. CASE UNCHANGED vars
  BY <1>1, StutterStep
<1>2. CASE Next
  <2>0. options' = options
    BY <1>2 DEF Next
  <2>1. CASE LoopStep
    BY <2>0, <2>1, WaitSteps, RefuseSteps, AcceptStep, TimerSteps, ServeStep, FlushSteps,
       HandshakeRecvStep, HandshakeIdleStep, UpgradeStep, ReadsSteps, MessageSteps,
       ControlFrameSteps, PurgeSteps DEF LoopStep
  <2>2. CASE Callback
    BY <2>0, <2>2, OnHandshakeReturnsStep, OnOpenReturnsStep, MessageSteps, OnCloseReturnsStep
    DEF Callback
  <2>3. CASE Application
    BY <2>0, <2>3, CallSteps, ThrowStep DEF Application
  <2>4. CASE Peers
    BY <2>0, <2>4, PeerSteps
  <2>5. CASE Stopped
    BY <2>5, StutterStep DEF Stopped
  <2> QED
    BY <1>2, <2>1, <2>2, <2>3, <2>4, <2>5 DEF Next
<1> QED
  BY <1>1, <1>2

\* The invariant holds when run() starts.
LEMMA InitInv ==
  ASSUME Init
  PROVE  ServerInv
<1>0. /\ connections = <<>> /\ Len(connections) = 0 /\ connections \in Seq(Ids)
      /\ \A d : ~Contains(connections, d)
  BY DEF Init, Contains
<1>1. /\ Unborn \in ServerConn /\ Unborn.fd = NoFd /\ ~Unborn.open /\ Unborn.interest = {}
      /\ Unborn.write_queue = <<>> /\ ~Unborn.upgraded /\ ~Unborn.close_notified
  <2> DEFINE o == Opened(NoFd)
  <2>1. /\ o \in ServerConn /\ o.fd = NoFd /\ o.write_queue = <<>>
        /\ ~o.upgraded /\ ~o.close_notified
    BY Bounds DEF Opened, ServerConn, Interests
  <2>2. Unborn = [o EXCEPT !.open = FALSE, !.interest = {}]
    BY DEF Unborn
  <2> HIDE DEF o
  <2> QED
    BY <2>1, <2>2 DEF ServerConn, Interests
<1>2. ConnOK(Unborn) /\ Settled(Unborn) /\ LifeFits("none", Unborn)
  BY <1>1 DEF ConnOK, Settled, LifeFits
<1>3. /\ obj \in [Ids -> ServerConn] /\ life \in [Ids -> LifeStates]
      /\ \A c \in Ids : obj[c] = Unborn /\ life[c] = "none"
  BY <1>1 DEF Init, LifeStates
<1>4. loop \in LoopType /\ loop.pc = "wait"
  BY Bounds DEF Init, LoopType
<1>5. /\ net \in [left : Nat, backlog : Nat, accepted : Nat]
      /\ net.left = TotalConns /\ net.backlog = 0 /\ net.accepted = 0
  BY Bounds DEF Init
<1>6. TypeOK
  <2>1. options \in Options /\ MaxConnections \in Nat
    <3>1. options \in Options
      BY DEF Init
    <3> QED
      BY <3>1, ServerAssumption DEF MaxConnections
  <2>2. input \in [Ids -> [buf : Seq(PeerUnits), rx : Seq(PeerUnits)]]
    BY DEF Init
  <2>3. peer \in [Ids -> [left : 0..MaxInput, asked : BOOLEAN, gone : BOOLEAN]]
    BY Bounds DEF Init
  <2>4. running \in BOOLEAN /\ exception \in BOOLEAN /\ calls \in 0..MaxCalls
    <3>1. running = TRUE /\ exception = FALSE /\ calls = 0
      BY DEF Init
    <3>2. calls \in 0..MaxCalls
      BY <3>1, Bounds
    <3> QED
      BY <3>1, <3>2
  <2>5. Len(connections) <= MaxConnections
    BY <1>0, <2>1
  <2> QED
    BY <1>0, <1>3, <1>4, <1>5, <2>1, <2>2, <2>3, <2>4, <2>5 DEF TypeOK
<1>7. DataInv
  <2>1. ArrayInv
    BY <1>0, <1>3, <1>5, Bounds DEF ArrayInv, Listed
  <2>2. ObjectsInv /\ ReportedInv
    BY <1>2, <1>3 DEF ObjectsInv, ReportedInv
  <2>3. DescriptorsOwned
    BY <1>1, <1>3 DEF DescriptorsOwned
  <2> QED
    BY <2>1, <2>2, <2>3 DEF DataInv
<1>8. ControlInv
  <2>1. ~InVisit /\ ~InPurge
    BY <1>4 DEF InVisit, InPurge, Serving, At
  <2>2. PlaceInv /\ ServedInv /\ HandshakeInv
    BY <1>3, <1>4, <2>1 DEF PlaceInv, ServedInv, HandshakeInv, At
  <2>3. QuietInv
    BY <1>0, <2>1 DEF QuietInv
  <2> QED
    BY <2>2, <2>3 DEF ControlInv
<1> QED
  BY <1>6, <1>7, <1>8 DEF ServerInv

\* The invariant holds of every behaviour of the event loop.
THEOREM ServerInvariance == Spec => []ServerInv
<1>1. Init => ServerInv
  BY InitInv
<1>2. ServerInv /\ [Next]_vars => ServerInv'
  BY NextStep DEF StepOK
<1> QED
  BY <1>1, <1>2, PTL DEF Spec

-----------------------------------------------------------------------------
(* What the invariant says of the server. *)

\* Types, the limit on connections and the limit on queued bytes, for any
\* number of peers and any calls of the application.
THEOREM TypesHold == Spec => []TypeOK
<1>1. ServerInv => TypeOK
  BY DEF ServerInv
<1> QED
  BY <1>1, ServerInvariance, PTL

\* The callbacks of one connection come in order, each at most once, whatever
\* the callbacks of other connections do to it in between.
THEOREM CallbacksInOrder == Spec => []CallbackOrder
<1>1. ServerInv => CallbackOrder
  BY DEF ServerInv, DataInv, ObjectsInv, LifeFits, CallbackOrder
<1> QED
  BY <1>1, ServerInvariance, PTL

\* No two connections share a descriptor, none outlives its place in the
\* array, and the driver watches only what the array holds.
THEOREM DescriptorOwnership == Spec => []DescriptorsOwned
<1>1. ServerInv => DescriptorsOwned
  BY DEF ServerInv, DataInv
<1> QED
  BY <1>1, ServerInvariance, PTL

\* The handshake and on_open never run on a closed socket.
THEOREM SocketIsHeld == Spec => []SocketHeld
<1>1. ServerInv => SocketHeld
  <2> SUFFICES ASSUME ServerInv, loop.pc \in {"handshake", "onHandshake", "upgrade", "onOpen"}
               PROVE  obj[Cur].fd # NoFd
    BY DEF SocketHeld
  <2>1. InVisit
    BY DEF InVisit, Serving
  <2>2. ConnOK(obj[Cur])
    BY <2>1, VisitFacts
  <2> QED
    BY <2>2 DEF ServerInv, ControlInv, ServedInv, ConnOK, At
<1> QED
  BY <1>1, ServerInvariance, PTL

\* While the loop waits, no open connection is forgotten: each is watched for
\* what it can do next, and none has frames left in its buffer.
THEOREM WaitForgetsNothing == Spec => []WaitsForEverything
<1>1. ServerInv => WaitsForEverything
  <2> SUFFICES ASSUME ServerInv, At("wait"), NEW c \in Range(connections), obj[c].open
               PROVE  /\ "read" \in obj[c].interest
                      /\ ("write" \in obj[c].interest) <=> (obj[c].write_queue # <<>>)
                      /\ obj[c].upgraded /\ ~obj[c].close_after_write => input[c].buf = <<>>
    BY DEF WaitsForEverything
  <2>1. connections \in Seq(Ids)
    BY DEF ServerInv, TypeOK
  <2>2. PICK i \in 1..Len(connections) : connections[i] = c
    BY <2>1 DEF Range
  <2>3. c \in Ids
    BY <2>1, <2>2
  <2>4. ConnOK(obj[c]) /\ Settled(obj[c])
    BY <2>3, AllSettled DEF ServerInv, DataInv, ObjectsInv, At
  <2>5. Quiet(c)
    BY <2>2 DEF ServerInv, ControlInv, QuietInv, At
  <2> QED
    BY <2>4, <2>5 DEF ConnOK, Settled, Quiet
<1> QED
  BY <1>1, ServerInvariance, PTL

\* When run() has returned, no descriptor is open, nothing is left in the
\* driver, and without an exception no opened connection goes unreported.
THEOREM ExitIsClean == Spec => []CleanExit
<1>1. ServerInv => CleanExit
  <2> SUFFICES ASSUME ServerInv, At("off")
               PROVE  /\ \A c \in Ids : obj[c].fd = NoFd /\ obj[c].interest = {}
                      /\ ~exception /\ "close" \in Handlers =>
                           \A c \in Ids : life[c] \notin {"open", "closing"}
    BY DEF CleanExit
  <2>1. connections = <<>>
    BY DEF ServerInv, ControlInv, PlaceInv
  <2>2. \A c : ~Contains(connections, c)
    BY <2>1 DEF Contains
  <2>3. ~At("onClose")
    BY DEF At
  <2> QED
    BY <2>2, <2>3 DEF ServerInv, DataInv, DescriptorsOwned, ReportedInv, Listed
<1> QED
  BY <1>1, ServerInvariance, PTL

\* A connection given up stays given up, and its queue only shrinks, although
\* the application keeps its object and may call send() and close() on it.
THEOREM ClosedForGood == Spec => ClosedStaysClosed
<1>1. ServerInv /\ [Next]_vars => NoRevival
  BY NextStep DEF StepOK
<1>2. NoRevival => [\A c \in Ids : c <= net.accepted /\ ~obj[c].open =>
        ~obj'[c].open /\ Len(obj'[c].write_queue) <= Len(obj[c].write_queue)]_vars
  BY DEF NoRevival
<1> QED
  BY <1>1, <1>2, ServerInvariance, PTL DEF Spec, ClosedStaysClosed
=============================================================================
