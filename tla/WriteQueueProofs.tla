-------------------------- MODULE WriteQueueProofs --------------------------
(***************************************************************************)
(* Proofs about module WriteQueue, for every queue limit, every set of     *)
(* frame sizes and every answer of the operating system: its invariant,    *)
(* and that it implements module ByteStream.                               *)
(***************************************************************************)
EXTENDS WriteQueue, TLAPS

\* The frames in the queue of c continue the stream from w up to a.
Contiguous(c, a, w) ==
  LET q == c.write_queue
  IN  /\ \A i \in 1..Len(q) : i < Len(q) => q[i + 1].at = q[i].at + q[i].len
      /\ \A i \in 1..Len(q) : q[i].at + q[i].len <= a
      /\ q # <<>> => /\ q[Len(q)].at + q[Len(q)].len = a
                     /\ q[1].at + c.write_queue_offset = w
                     /\ c.write_queue_offset < q[1].len
      /\ q = <<>> => w = a

\* What holds of an open connection inside and outside flush().
OpenInv(c, a, w) ==
  /\ c.fd = Fd /\ c.upgraded
  /\ Contiguous(c, a, w)
  /\ w + c.queued_bytes = a
  /\ c.queued_bytes <= MaxQueuedBytes
  /\ "read" \in c.interest
  /\ c.write_watched <=> "write" \in c.interest
  /\ c.write_queue # <<>> => c.write_watched

\* What holds of every connection whose stream is at a (accepted) and w (wire).
ConnInv(c, a, w) ==
  /\ c \in ConnType
  /\ a \in Nat /\ w \in Nat /\ w <= a
  /\ c.open => OpenInv(c, a, w)
  /\ c.fd = NoFd => c.interest = {} /\ c.write_queue = <<>> /\ ~c.open

\* Outside flush() an open connection watches only what it has queued.
Settled(c) ==
  c.open => /\ c.write_watched => c.write_queue # <<>>
            /\ c.close_after_write => c.write_queue # <<>>

-----------------------------------------------------------------------------
\* The bounds of the constants, in the form the proofs use.
LEMMA Bounds ==
  /\ MaxQueuedBytes \in Nat
  /\ \A s \in FrameSizes : s \in Nat /\ s > 0
<1>1. MaxQueuedBytes \in Nat /\ FrameSizes \subseteq Nat \ {0}
  BY QueueAssumption
<1> QED
  BY <1>1

\* close_socket() leaves a closed connection, whatever it is applied to.
LEMMA CloseSocketClosed ==
  ASSUME NEW c \in ConnType
  PROVE  LET d == CloseSocket(c)
         IN  d \in ConnType /\ ~d.open /\ d.fd = NoFd /\ d.write_queue = <<>>
             /\ (c.fd # NoFd \/ c.interest = {} => d.interest = {})
<1> DEFINE e == [c EXCEPT !.interest = IF c.fd # NoFd THEN {} ELSE @,
                          !.fd = NoFd, !.open = FALSE,
                          !.awaiting_pong = FALSE]
           d == ClearWriteQueue(e)
<1>1. /\ e \in ConnType /\ ~e.open /\ e.fd = NoFd
      /\ (c.fd # NoFd \/ c.interest = {} => e.interest = {})
  BY DEF ConnType, Interests
<1> HIDE DEF e
<1>2. <<>> \in Seq(Frame)
  OBVIOUS
<1>3. d \in ConnType /\ ~d.open /\ d.fd = NoFd /\ d.write_queue = <<>> /\ d.interest = e.interest
  BY <1>1, <1>2 DEF ClearWriteQueue, ConnType, Interests, NoFd
<1>4. d = CloseSocket(c)
  BY DEF e, CloseSocket
<1> HIDE DEF d
<1> QED
  BY <1>1, <1>3, <1>4

\* close_socket() keeps the connection invariant.
LEMMA CloseSocketInv ==
  ASSUME NEW c, NEW a, NEW w, ConnInv(c, a, w)
  PROVE  ConnInv(CloseSocket(c), a, w) /\ Settled(CloseSocket(c))
  BY CloseSocketClosed DEF ConnInv, Settled

\* Giving a connection up keeps the connection invariant.
LEMMA NotOpenInv ==
  ASSUME NEW c, NEW a, NEW w, NEW b, NEW v, ConnInv(c, a, w),
         b \in Nat, v \in Nat, v <= b
  PROVE  LET d == [c EXCEPT !.open = FALSE]
         IN  ConnInv(d, b, v) /\ Settled(d) /\ ~d.open /\ d.fd = c.fd
  BY DEF ConnInv, ConnType, Settled, NoFd

\* The answers of the system are what WriteSome expects of them.
LEMMA WriteSomeResult ==
  ASSUME NEW len \in Nat, NEW m \in Nat, NEW k \in KernelAnswers(len)
  PROVE  LET s == WriteSome(m, k)
         IN  /\ s.n \in Nat /\ s.n <= m
             /\ s.st \in {"ok"} \cup SendErrnos
             /\ s.st # "ok" => s.n < m
  BY QueueAssumption DEF KernelAnswers, WriteSome

\* What Append does, for any sequence.
LEMMA AppendFacts ==
  ASSUME NEW S, NEW q \in Seq(S), NEW f \in S
  PROVE  LET p == Append(q, f)
         IN  /\ p \in Seq(S) /\ Len(p) = Len(q) + 1 /\ p # <<>>
             /\ \A i \in 1..Len(q) : p[i] = q[i]
             /\ p[Len(p)] = f
  OBVIOUS

\* A frame appended at the end of the stream keeps the queue contiguous.
LEMMA AppendContiguous ==
  ASSUME NEW q \in Seq(Frame), NEW f \in Frame, NEW a \in Nat, f.at = a,
         \A i \in 1..Len(q) : i < Len(q) => q[i + 1].at = q[i].at + q[i].len,
         \A i \in 1..Len(q) : q[i].at + q[i].len <= a,
         q # <<>> => q[Len(q)].at + q[Len(q)].len = a
  PROVE  LET p == Append(q, f)
         IN  /\ p \in Seq(Frame) /\ p # <<>>
             /\ \A i \in 1..Len(p) : i < Len(p) => p[i + 1].at = p[i].at + p[i].len
             /\ \A i \in 1..Len(p) : p[i].at + p[i].len <= a + f.len
             /\ p[Len(p)] = f
             /\ q # <<>> => p[1] = q[1]
             /\ q = <<>> => p[1] = f
<1> DEFINE p == Append(q, f)
<1>1. p \in Seq(Frame) /\ Len(p) = Len(q) + 1 /\ p # <<>>
  BY AppendFacts
<1>2. \A i \in 1..Len(q) : p[i] = q[i]
  BY AppendFacts
<1>3. p[Len(p)] = f
  BY AppendFacts
<1>4. Len(q) \in Nat /\ (q # <<>> => Len(q) >= 1) /\ (q = <<>> => Len(q) = 0)
  OBVIOUS
<1>5. ASSUME NEW i \in 1..Len(p), i < Len(p)
      PROVE  p[i + 1].at = p[i].at + p[i].len
  <2>1. CASE i < Len(q)
    <3>1. i \in 1..Len(q) /\ i + 1 \in 1..Len(q)
      BY <1>1, <1>4, <2>1
    <3> QED
      BY <3>1, <2>1, <1>2
  <2>2. CASE i = Len(q)
    <3>1. i \in 1..Len(q) /\ i + 1 = Len(p) /\ q # <<>>
      BY <1>1, <1>4, <2>2
    <3> QED
      BY <3>1, <2>2, <1>2, <1>3
  <2> QED
    BY <2>1, <2>2, <1>1, <1>4, <1>5
<1>6. ASSUME NEW i \in 1..Len(p)
      PROVE  p[i].at + p[i].len <= a + f.len
  <2>1. f.len \in Nat
    BY Bounds DEF Frame
  <2>2. CASE i = Len(p)
    <3>1. p[i].at + p[i].len = a + f.len
      BY <2>2, <1>3
    <3> QED
      BY <3>1, <2>1
  <2>3. CASE i # Len(p)
    <3>1. i \in 1..Len(q)
      BY <1>1, <1>4, <1>6, <2>3
    <3>2. p[i] = q[i] /\ q[i].at + q[i].len <= a
      BY <3>1, <1>2
    <3>3. q[i] \in Frame
      BY <3>1
    <3>4. q[i].at \in Nat /\ q[i].len \in Nat
      BY <3>3, Bounds DEF Frame
    <3> QED
      BY <3>2, <3>4, <2>1, SMTT(30)
  <2> QED
    BY <2>2, <2>3
<1> HIDE DEF p
<1> QED
  BY <1>1, <1>2, <1>3, <1>4, <1>5, <1>6 DEF p

\* queue_frame() on an open connection: it refuses and changes nothing, or the
\* frame continues the stream, or the driver fails and the caller gives up.
LEMMA QueueFrameInv ==
  ASSUME NEW c, NEW a, NEW w, ConnInv(c, a, w), Settled(c), c.open,
         NEW f \in Frame, f.at = a, NEW o \in Nat, o < f.len,
         c.write_queue # <<>> => o = 0,
         NEW k \in KernelAnswers(f.len)
  PROVE  LET r == QueueFrame(c, f, o, k)
         IN  /\ r.st \in {"ok", "ENOBUFS", "EWATCH"}
             /\ r.st = "ENOBUFS" => r.c = c /\ c.queued_bytes + f.len - o > MaxQueuedBytes
             /\ r.c \in ConnType /\ r.c.fd = Fd /\ r.c.upgraded
             /\ r.c.close_after_write = c.close_after_write
             /\ r.st = "ok" => /\ ConnInv(r.c, a + f.len, w + o) /\ Settled(r.c)
                               /\ r.c.open /\ r.c.write_queue # <<>>
<1> DEFINE rem == f.len - o
           q == [c EXCEPT
                   !.write_queue = Append(@, f),
                   !.write_queue_offset = IF c.write_queue = <<>> THEN o ELSE @,
                   !.queued_bytes = @ + rem]
           z == [q EXCEPT !.write_watched = TRUE, !.interest = @ \cup {"write"}]
           r == QueueFrame(c, f, o, k)
<1>1. /\ f.len \in Nat /\ f.len > 0 /\ f.at \in Nat /\ MaxQueuedBytes \in Nat
      /\ a \in Nat /\ w \in Nat /\ w <= a /\ c \in ConnType /\ OpenInv(c, a, w)
  <2>1. f.len \in FrameSizes /\ f.at \in Nat
    BY DEF Frame
  <2>2. f.len \in Nat /\ f.len > 0 /\ MaxQueuedBytes \in Nat
    BY <2>1, Bounds
  <2> QED
    BY <2>1, <2>2 DEF ConnInv
<1>2. /\ Append(c.write_queue, f) \in Seq(Frame)
      /\ rem \in Nat /\ rem > 0 /\ c.queued_bytes \in Nat
  BY <1>1 DEF ConnType
<1>3. /\ q \in ConnType /\ q.fd = Fd /\ q.upgraded /\ q.open
      /\ q.close_after_write = c.close_after_write
      /\ q.write_queue = Append(c.write_queue, f)
      /\ q.write_queue_offset = (IF c.write_queue = <<>> THEN o ELSE c.write_queue_offset)
      /\ q.queued_bytes = c.queued_bytes + rem
      /\ q.write_watched = c.write_watched /\ q.interest = c.interest
  <2>1. c.queued_bytes + rem \in Nat
    BY <1>2
  <2>2. (IF c.write_queue = <<>> THEN o ELSE c.write_queue_offset) \in Nat
    BY <1>1 DEF ConnType
  <2>3. c.fd = Fd /\ c.upgraded
    BY <1>1 DEF OpenInv
  <2> HIDE DEF rem
  <2> QED
    BY <1>1, <1>2, <2>1, <2>2, <2>3 DEF ConnType
<1> HIDE DEF q
<1>4. /\ z \in ConnType /\ z.fd = Fd /\ z.upgraded /\ z.open
      /\ z.close_after_write = c.close_after_write
      /\ z.write_queue = q.write_queue /\ z.queued_bytes = q.queued_bytes
      /\ z.write_queue_offset = q.write_queue_offset
      /\ z.write_watched /\ z.interest = q.interest \cup {"write"}
  BY <1>3 DEF ConnType, Interests
<1> HIDE DEF z
<1>5. ASSUME NEW d \in {q, z}
      PROVE  Contiguous(d, a + f.len, w + o)
  <2> DEFINE s == c.write_queue
  <2>1. /\ s \in Seq(Frame)
        /\ \A i \in 1..Len(s) : i < Len(s) => s[i + 1].at = s[i].at + s[i].len
        /\ \A i \in 1..Len(s) : s[i].at + s[i].len <= a
        /\ s # <<>> => s[Len(s)].at + s[Len(s)].len = a
        /\ s # <<>> => s[1].at + c.write_queue_offset = w /\ c.write_queue_offset < s[1].len
        /\ s = <<>> => w = a
    BY <1>1 DEF OpenInv, Contiguous, ConnType
  <2>2. d.write_queue = Append(s, f)
    BY <1>3, <1>4
  <2>3. d.write_queue_offset = (IF s = <<>> THEN o ELSE c.write_queue_offset)
    BY <1>3, <1>4
  <2> HIDE DEF s
  <2>4. LET p == Append(s, f)
        IN  /\ p \in Seq(Frame) /\ p # <<>>
            /\ \A i \in 1..Len(p) : i < Len(p) => p[i + 1].at = p[i].at + p[i].len
            /\ \A i \in 1..Len(p) : p[i].at + p[i].len <= a + f.len
            /\ p[Len(p)] = f
            /\ s # <<>> => p[1] = s[1]
            /\ s = <<>> => p[1] = f
    BY <1>1, <2>1, AppendContiguous
  <2>5. c.write_queue_offset \in Nat
    BY <1>1 DEF ConnType
  <2> DEFINE p == Append(s, f)
  <2>6. p[Len(p)].at + p[Len(p)].len = a + f.len
    BY <2>4
  <2>7. p[1].at + d.write_queue_offset = w + o /\ d.write_queue_offset < p[1].len
    <3>1. CASE s = <<>>
      BY <3>1, <2>1, <2>3, <2>4, <1>1
    <3>2. CASE s # <<>>
      <4>1. o = 0 /\ w + o = w
        BY <3>2, <1>1 DEF s
      <4> QED
        BY <3>2, <4>1, <2>1, <2>3, <2>4
    <3> QED
      BY <3>1, <3>2
  <2> QED
    BY <2>2, <2>4, <2>6, <2>7 DEF Contiguous
<1>6. CASE rem > MaxQueuedBytes \/ c.queued_bytes > MaxQueuedBytes - rem
  <2>1. r = [c |-> c, st |-> "ENOBUFS"]
    BY <1>6 DEF QueueFrame
  <2>2. c.queued_bytes + f.len - o > MaxQueuedBytes
    BY <1>6, <1>1, <1>2
  <2> QED
    BY <2>1, <2>2, <1>1 DEF OpenInv
<1>7. CASE ~(rem > MaxQueuedBytes \/ c.queued_bytes > MaxQueuedBytes - rem)
  <2>1. r = IF c.write_watched THEN [c |-> q, st |-> "ok"]
            ELSE IF k.watch THEN [c |-> z, st |-> "ok"] ELSE [c |-> q, st |-> "EWATCH"]
    BY <1>7 DEF QueueFrame, q, z
  <2>2. ASSUME NEW d \in {q, z}, d.write_watched, d.interest = c.interest \cup {"write"}
        PROVE  ConnInv(d, a + f.len, w + o) /\ Settled(d) /\ d.open /\ d.write_queue # <<>>
    <3>1. d.write_queue # <<>>
      BY <1>3, <1>4, <1>2
    <3>2. /\ d \in ConnType /\ d.fd = Fd /\ d.upgraded /\ d.open
          /\ d.queued_bytes = c.queued_bytes + rem
      BY <1>3, <1>4
    <3>3. /\ w + o + d.queued_bytes = a + f.len /\ w + o <= a + f.len
          /\ d.queued_bytes <= MaxQueuedBytes
      <4>1. w + c.queued_bytes = a
        BY <1>1 DEF OpenInv
      <4>2. rem + o = f.len
        BY <1>1
      <4>3. c.queued_bytes + rem <= MaxQueuedBytes
        BY <1>7, <1>1, <1>2
      <4>4. /\ a \in Nat /\ w \in Nat /\ o \in Nat /\ f.len \in Nat /\ rem \in Nat
            /\ c.queued_bytes \in Nat
        BY <1>1, <1>2
      <4> HIDE DEF rem
      <4> QED
        BY <3>2, <4>1, <4>2, <4>3, <4>4
    <3>4. OpenInv(d, a + f.len, w + o)
      BY <1>1, <1>5, <2>2, <3>1, <3>2, <3>3 DEF OpenInv
    <3> QED
      BY <1>1, <3>1, <3>2, <3>3, <3>4 DEF ConnInv, Settled, NoFd, Fd
  <2>3. CASE c.write_watched
    <3>1. c.interest \cup {"write"} = c.interest
      BY <2>3, <1>1 DEF OpenInv
    <3> QED
      <4>1. q.write_watched /\ q.interest = c.interest \cup {"write"}
        BY <2>3, <3>1, <1>3
      <4>2. r = [c |-> q, st |-> "ok"]
        BY <2>1, <2>3
      <4> QED
        BY <2>2, <4>1, <4>2, <1>3
  <2>4. CASE ~c.write_watched
    <3>1. z.write_watched /\ z.interest = c.interest \cup {"write"}
      BY <1>3, <1>4
    <3> QED
      BY <2>1, <2>2, <2>4, <3>1, <1>3, <1>4
  <2> QED
    BY <2>3, <2>4
<1> QED
  BY <1>6, <1>7

\* A connection given up keeps the invariant, wherever its stream stops.
LEMMA GivenUpInv ==
  ASSUME NEW c \in ConnType, c.fd = Fd, NEW b \in Nat, NEW v \in Nat, v <= b
  PROVE  LET d == [c EXCEPT !.open = FALSE]
         IN  /\ ConnInv(d, b, v) /\ Settled(d) /\ ~d.open
             /\ d.close_after_write = c.close_after_write
<1> DEFINE d == [c EXCEPT !.open = FALSE]
<1>1. /\ d \in ConnType /\ ~d.open /\ d.fd = Fd
      /\ d.close_after_write = c.close_after_write
  BY DEF ConnType
<1>2. Fd # NoFd
  BY DEF Fd, NoFd
<1> HIDE DEF d
<1>3. ConnInv(d, b, v) /\ Settled(d)
  BY <1>1, <1>2 DEF ConnInv, Settled
<1> QED
  BY <1>1, <1>3 DEF d

\* send_frame(): whatever the system answers the stream stays whole, bytes are
\* written directly only when nothing is queued before them, and a refusal
\* that leaves the connection open has written nothing.
LEMMA SendFrameInv ==
  ASSUME NEW c, NEW a, NEW w, ConnInv(c, a, w), Settled(c),
         NEW f \in Frame, f.at = a, NEW k \in KernelAnswers(f.len)
  PROVE  LET r == SendFrame(c, f, k)
             b == IF r.ok \/ r.n > 0 THEN a + f.len ELSE a
         IN  /\ r.n \in Nat /\ r.ok \in BOOLEAN
             /\ ConnInv(r.c, b, w + r.n) /\ Settled(r.c)
             /\ r.n > 0 => w = a
             /\ ~CanSend(c) => r.c = c /\ ~r.ok /\ r.n = 0
             /\ r.c.open => c.open
             /\ r.c.close_after_write = c.close_after_write
<1> DEFINE r == SendFrame(c, f, k)
           b == IF r.ok \/ r.n > 0 THEN a + f.len ELSE a
           s == WriteSome(f.len, k)
           Goal == /\ r.n \in Nat /\ r.ok \in BOOLEAN
                   /\ ConnInv(r.c, b, w + r.n) /\ Settled(r.c)
                   /\ r.n > 0 => w = a
                   /\ ~CanSend(c) => r.c = c /\ ~r.ok /\ r.n = 0
                   /\ r.c.open => c.open
                   /\ r.c.close_after_write = c.close_after_write
<1> SUFFICES Goal
  OBVIOUS
<1>1. /\ f.len \in Nat /\ f.len > 0 /\ MaxQueuedBytes \in Nat
      /\ a \in Nat /\ w \in Nat /\ w <= a /\ c \in ConnType
      /\ a + f.len \in Nat /\ w <= a + f.len /\ w + 0 = w
  <2>1. f.len \in FrameSizes
    BY DEF Frame
  <2>2. f.len \in Nat /\ f.len > 0 /\ MaxQueuedBytes \in Nat
    BY <2>1, Bounds
  <2>3. a \in Nat /\ w \in Nat /\ w <= a /\ c \in ConnType
    BY DEF ConnInv
  <2> QED
    BY <2>2, <2>3
<1>2. CASE ~CanSend(c) \/ f.len > MaxQueuedBytes
  <2>1. r = [c |-> c, ok |-> FALSE, n |-> 0]
    BY <1>2 DEF SendFrame
  <2>2. b = a
    BY <2>1
  <2> HIDE DEF r, b
  <2> QED
    BY <2>1, <2>2, <1>1
<1>3. CASE CanSend(c) /\ f.len <= MaxQueuedBytes /\ c.write_queue # <<>>
  <2> DEFINE q == QueueFrame(c, f, 0, k)
  <2>1. r = SendResult(q.c, q.st, 0)
    BY <1>1, <1>3 DEF SendFrame
  <2>2. /\ q.st \in {"ok", "ENOBUFS", "EWATCH"}
        /\ q.st = "ENOBUFS" => q.c = c
        /\ q.c \in ConnType /\ q.c.fd = Fd
        /\ q.c.close_after_write = c.close_after_write
        /\ q.st = "ok" => ConnInv(q.c, a + f.len, w + 0) /\ Settled(q.c) /\ q.c.open
    BY <1>1, <1>3, QueueFrameInv DEF CanSend
  <2>3. c.open
    BY <1>3 DEF CanSend
  <2> HIDE DEF q
  <2>4. CASE q.st = "ok"
    <3>1. r = [c |-> q.c, ok |-> TRUE, n |-> 0]
      BY <2>1, <2>4 DEF SendResult
    <3>2. b = a + f.len
      BY <3>1
    <3> HIDE DEF r, b
    <3> QED
      BY <3>1, <3>2, <2>2, <2>3, <2>4, <1>1, <1>3
  <2>5. CASE q.st = "ENOBUFS"
    <3>1. r = [c |-> c, ok |-> FALSE, n |-> 0]
      BY <2>1, <2>2, <2>5 DEF SendResult
    <3>2. b = a
      BY <3>1
    <3> HIDE DEF r, b
    <3> QED
      BY <3>1, <3>2, <1>1, <1>3
  <2>6. CASE q.st = "EWATCH"
    <3>1. r = [c |-> [q.c EXCEPT !.open = FALSE], ok |-> FALSE, n |-> 0]
      BY <2>1, <2>6 DEF SendResult
    <3>2. b = a
      BY <3>1
    <3> DEFINE d == [q.c EXCEPT !.open = FALSE]
    <3>3. /\ ConnInv(d, a, w) /\ Settled(d) /\ ~d.open
          /\ d.close_after_write = q.c.close_after_write
      BY <2>2, <1>1, GivenUpInv
    <3>4. r.c = d /\ r.ok = FALSE /\ r.n = 0 /\ w + r.n = w
      BY <3>1, <1>1
    <3> HIDE DEF r, b, d
    <3> QED
      <4>1. r.n \in Nat /\ ~(r.n > 0)
        BY <3>4
      <4>4. r.ok \in BOOLEAN
        BY <3>4
      <4>2. ConnInv(r.c, b, w + r.n) /\ Settled(r.c) /\ ~r.c.open
        BY <3>2, <3>3, <3>4
      <4>3. r.c.close_after_write = c.close_after_write
        BY <3>3, <3>4, <2>2
      <4> QED
        BY <4>1, <4>2, <4>3, <4>4, <1>3
  <2> QED
    BY <2>2, <2>4, <2>5, <2>6
<1>4. CASE CanSend(c) /\ f.len <= MaxQueuedBytes /\ c.write_queue = <<>>
  <2>1. /\ s.n \in Nat /\ s.n <= f.len /\ s.st \in {"ok"} \cup SendErrnos
        /\ s.st # "ok" => s.n < f.len
    BY <1>1, WriteSomeResult
  <2>2. c.open /\ OpenInv(c, a, w) /\ w = a /\ c.queued_bytes = 0
    <3>1. c.open /\ OpenInv(c, a, w)
      BY <1>4 DEF CanSend, ConnInv
    <3>2. w = a /\ w + c.queued_bytes = a
      BY <3>1, <1>4 DEF OpenInv, Contiguous
    <3>3. c.queued_bytes \in Nat
      BY <1>1 DEF ConnType
    <3> QED
      BY <3>1, <3>2, <3>3, <1>1
  <2> HIDE DEF s
  <2>3. CASE s.st = "ok" /\ s.n < f.len
    <3> DEFINE q == QueueFrame(c, f, s.n, k)
    <3>1. r = SendResult(q.c, q.st, s.n)
      BY <1>1, <1>4, <2>3 DEF SendFrame, s
    <3>2. /\ q.st \in {"ok", "ENOBUFS", "EWATCH"}
          /\ q.st = "ENOBUFS" => c.queued_bytes + f.len - s.n > MaxQueuedBytes
          /\ q.c \in ConnType /\ q.c.fd = Fd
          /\ q.c.close_after_write = c.close_after_write
          /\ q.st = "ok" => ConnInv(q.c, a + f.len, w + s.n) /\ Settled(q.c) /\ q.c.open
      BY <1>4, <2>1, <2>2, <2>3, QueueFrameInv
    <3>3. q.st # "ENOBUFS"
      BY <3>2, <1>1, <1>4, <2>1, <2>2
    <3> HIDE DEF q
    <3>4. CASE q.st = "ok"
      <4>1. r = [c |-> q.c, ok |-> TRUE, n |-> s.n]
        BY <3>1, <3>4 DEF SendResult
      <4>2. b = a + f.len
        BY <4>1
      <4> HIDE DEF r, b
      <4> QED
        BY <4>1, <4>2, <3>2, <3>4, <2>1, <2>2, <1>4
    <3>5. CASE q.st = "EWATCH"
      <4>1. r = [c |-> [q.c EXCEPT !.open = FALSE], ok |-> FALSE, n |-> s.n]
        BY <3>1, <3>5 DEF SendResult
      <4>2. b \in Nat /\ w + s.n \in Nat /\ w + s.n <= b
        BY <4>1, <1>1, <2>1, <2>2
      <4>3. LET d == [q.c EXCEPT !.open = FALSE]
            IN  /\ ConnInv(d, b, w + s.n) /\ Settled(d) /\ ~d.open
                /\ d.close_after_write = q.c.close_after_write
        BY <3>2, <4>2, GivenUpInv
      <4> HIDE DEF r, b
      <4> QED
        BY <4>1, <4>3, <3>2, <2>1, <2>2, <1>4
    <3> QED
      BY <3>2, <3>3, <3>4, <3>5
  <2>4. CASE s.st = "ok" /\ s.n = f.len
    <3>1. r = [c |-> c, ok |-> TRUE, n |-> f.len]
      <4>1. ~(s.st = "ok" /\ s.n < f.len)
        BY <2>4, <1>1
      <4>2. r = SendResult(c, s.st, s.n)
        BY <1>1, <1>4, <4>1 DEF SendFrame, s
      <4> QED
        BY <4>2, <2>4 DEF SendResult
    <3>2. b = a + f.len
      BY <3>1
    <3>3. OpenInv(c, a + f.len, w + f.len)
      <4>1. w + f.len + c.queued_bytes = a + f.len
        BY <2>2, <1>1
      <4>2. Contiguous(c, a + f.len, w + f.len)
        BY <2>2, <1>4 DEF Contiguous
      <4> QED
        BY <4>1, <4>2, <2>2 DEF OpenInv
    <3>4. ConnInv(c, a + f.len, w + f.len)
      BY <3>3, <1>1, <2>2 DEF ConnInv
    <3> HIDE DEF r, b
    <3> QED
      BY <3>1, <3>2, <3>4, <1>1, <1>4, <2>2
  <2>5. CASE s.st # "ok"
    <3>1. s.st \notin {"ok", "ENOBUFS"}
      BY <2>1, <2>5, QueueAssumption
    <3>2. r = [c |-> [c EXCEPT !.open = FALSE], ok |-> FALSE, n |-> s.n]
      <4>1. r = SendResult(c, s.st, s.n)
        BY <1>1, <1>4, <2>5 DEF SendFrame, s
      <4> QED
        BY <4>1, <3>1 DEF SendResult
    <3>3. b \in Nat /\ w + s.n \in Nat /\ w + s.n <= b
      BY <3>2, <1>1, <2>1, <2>2, <2>5
    <3>4. c.fd = Fd
      BY <2>2 DEF OpenInv
    <3>5. LET d == [c EXCEPT !.open = FALSE]
          IN  /\ ConnInv(d, b, w + s.n) /\ Settled(d) /\ ~d.open
              /\ d.close_after_write = c.close_after_write
      BY <1>1, <3>3, <3>4, GivenUpInv
    <3> HIDE DEF r, b
    <3> QED
      BY <3>2, <3>5, <2>1, <2>2, <1>4
  <2> QED
    BY <2>1, <2>3, <2>4, <2>5, <1>1
<1> QED
  BY <1>1, <1>2, <1>3, <1>4

-----------------------------------------------------------------------------
\* What a call r that tried to send f on a stream at a and w leaves behind.
SendPost(a, w, f, r) ==
  /\ r.n \in Nat /\ r.ok \in BOOLEAN
  /\ ConnInv(r.c, IF r.ok \/ r.n > 0 THEN a + f.len ELSE a, w + r.n)
  /\ Settled(r.c)
  /\ r.n > 0 => w = a

\* close_after_write() closes the socket or marks an open connection that has
\* something to write.
LEMMA CloseAfterWriteInv ==
  ASSUME NEW c, NEW a, NEW w, ConnInv(c, a, w), Settled(c)
  PROVE  LET d == CloseAfterWrite(c)
         IN  ConnInv(d, a, w) /\ Settled(d) /\ (d.open => d.close_after_write)
<1> DEFINE d == CloseAfterWrite(c)
<1>1. CASE ~c.open
  BY <1>1 DEF CloseAfterWrite
<1>2. CASE c.open /\ c.write_queue = <<>>
  <2>1. d = CloseSocket(c)
    BY <1>2 DEF CloseAfterWrite
  <2>2. c \in ConnType
    BY DEF ConnInv
  <2> QED
    BY <2>1, <2>2, CloseSocketInv, CloseSocketClosed
<1>3. CASE c.open /\ c.write_queue # <<>>
  <2> DEFINE e == [c EXCEPT !.close_after_write = TRUE]
  <2>1. d = e
    BY <1>3 DEF CloseAfterWrite
  <2>2. /\ e \in ConnType /\ e.fd = c.fd /\ e.open = c.open /\ e.upgraded = c.upgraded
        /\ e.write_queue = c.write_queue /\ e.write_queue_offset = c.write_queue_offset
        /\ e.queued_bytes = c.queued_bytes /\ e.write_watched = c.write_watched
        /\ e.interest = c.interest /\ e.close_after_write = TRUE
    BY DEF ConnInv, ConnType
  <2> HIDE DEF e
  <2>3. OpenInv(e, a, w)
    <3>1. OpenInv(c, a, w)
      BY <1>3 DEF ConnInv
    <3> QED
      BY <3>1, <2>2 DEF OpenInv, Contiguous
  <2>4. ConnInv(e, a, w)
    BY <2>2, <2>3 DEF ConnInv
  <2>5. Settled(e)
    BY <2>2, <1>3 DEF Settled
  <2>6. e.close_after_write
    BY <2>2
  <2> QED
    BY <2>1, <2>4, <2>5, <2>6
<1> QED
  BY <1>1, <1>2, <1>3

\* Connection::close() ends in a state in which nothing more can be sent.
LEMMA CloseInv ==
  ASSUME NEW c, NEW a, NEW w, ConnInv(c, a, w), Settled(c),
         NEW f \in Frame, f.at = a, NEW k \in KernelAnswers(f.len)
  PROVE  LET r == Close(c, f, k)
         IN  /\ SendPost(a, w, f, r) /\ (r.c.open => r.c.close_after_write)
             /\ ~CanSend(c) => ~r.ok /\ r.n = 0
<1> DEFINE s == SendFrame(c, f, k)
           r == Close(c, f, k)
<1> SUFFICES /\ SendPost(a, w, f, r) /\ (r.c.open => r.c.close_after_write)
             /\ ~CanSend(c) => ~r.ok /\ r.n = 0
  OBVIOUS
<1>1. SendPost(a, w, f, s) /\ (~CanSend(c) => ~s.ok /\ s.n = 0)
  BY SendFrameInv DEF SendPost
<1>2. CASE c.defer_close
  <2> DEFINE d == [c EXCEPT !.open = FALSE]
  <2>1. r = [c |-> d, ok |-> FALSE, n |-> 0]
    BY <1>2 DEF Close
  <2>2. a \in Nat /\ w \in Nat /\ w <= a /\ w + 0 = w
    BY DEF ConnInv
  <2>3. ConnInv(d, a, w) /\ Settled(d) /\ ~d.open
    BY <2>2, NotOpenInv
  <2> HIDE DEF d
  <2> QED
    BY <2>1, <2>2, <2>3 DEF SendPost
<1>3. CASE ~c.defer_close
  <2> DEFINE d == CloseAfterWrite(s.c)
             b == IF s.ok \/ s.n > 0 THEN a + f.len ELSE a
  <2>1. r.c = d /\ r.ok = s.ok /\ r.n = s.n
    <3>1. s = [c |-> s.c, ok |-> s.ok, n |-> s.n]
      BY DEF SendFrame, SendResult
    <3>2. r = [s EXCEPT !.c = d]
      BY <1>3 DEF Close
    <3> HIDE DEF s, d, r
    <3> QED
      BY <3>1, <3>2
  <2>2. ConnInv(d, b, w + s.n) /\ Settled(d) /\ (d.open => d.close_after_write)
    BY <1>1, CloseAfterWriteInv DEF SendPost
  <2> HIDE DEF d, s, r
  <2> QED
    BY <1>1, <2>1, <2>2 DEF SendPost
<1> QED
  BY <1>2, <1>3

\* close_with_code() likewise.
LEMMA CloseWithCodeInv ==
  ASSUME NEW c, NEW a, NEW w, ConnInv(c, a, w), Settled(c),
         NEW f \in Frame, f.at = a, NEW k \in KernelAnswers(f.len)
  PROVE  LET r == CloseWithCode(c, f, k)
         IN  /\ SendPost(a, w, f, r) /\ (r.c.open => r.c.close_after_write)
             /\ ~CanSend(c) => ~r.ok /\ r.n = 0
<1> DEFINE s == SendFrame(c, f, k)
           r == CloseWithCode(c, f, k)
           d == IF s.ok THEN CloseAfterWrite(s.c) ELSE CloseSocket(s.c)
           b == IF s.ok \/ s.n > 0 THEN a + f.len ELSE a
<1> SUFFICES /\ SendPost(a, w, f, r) /\ (r.c.open => r.c.close_after_write)
             /\ ~CanSend(c) => ~r.ok /\ r.n = 0
  OBVIOUS
<1>1. SendPost(a, w, f, s) /\ (~CanSend(c) => ~s.ok /\ s.n = 0)
  BY SendFrameInv DEF SendPost
<1>2. r.c = d /\ r.ok = s.ok /\ r.n = s.n
  <2>1. s = [c |-> s.c, ok |-> s.ok, n |-> s.n]
    BY DEF SendFrame, SendResult
  <2>2. r = [s EXCEPT !.c = d]
    BY DEF CloseWithCode
  <2> HIDE DEF s, d, r
  <2> QED
    BY <2>1, <2>2
<1>3. ConnInv(d, b, w + s.n) /\ Settled(d) /\ (d.open => d.close_after_write)
  <2> HIDE DEF s
  <2>1. ConnInv(s.c, b, w + s.n) /\ Settled(s.c) /\ s.c \in ConnType
    BY <1>1 DEF SendPost, ConnInv
  <2> HIDE DEF b
  <2> QED
    BY <2>1, CloseAfterWriteInv, CloseSocketInv, CloseSocketClosed
<1> HIDE DEF d, s, r
<1> QED
  BY <1>1, <1>2, <1>3 DEF SendPost

\* What Tail does to a non-empty sequence.
LEMMA TailFacts ==
  ASSUME NEW S, NEW q \in Seq(S), q # <<>>
  PROVE  /\ Len(q) \in Nat /\ Len(q) >= 1
         /\ Head(q) = q[1] /\ q[1] \in S
         /\ Tail(q) \in Seq(S) /\ Len(Tail(q)) = Len(q) - 1
         /\ \A i \in 1..(Len(q) - 1) : Tail(q)[i] = q[i + 1]
         /\ Tail(q) = <<>> <=> Len(q) = 1
<1>1. /\ Len(q) \in Nat /\ Len(q) >= 1
      /\ Head(q) = q[1] /\ q[1] \in S
      /\ Tail(q) \in Seq(S) /\ Len(Tail(q)) = Len(q) - 1
  OBVIOUS
<1>2. \A i \in 1..(Len(q) - 1) : Tail(q)[i] = q[i + 1]
  OBVIOUS
<1>3. Tail(q) = <<>> <=> Len(Tail(q)) = 0
  <2> DEFINE t == Tail(q)
  <2>1. t \in Seq(S)
    BY <1>1
  <2> HIDE DEF t
  <2>2. t = <<>> <=> Len(t) = 0
    BY <2>1
  <2> QED
    BY <2>2 DEF t
<1> QED
  BY <1>1, <1>2, <1>3

\* The arithmetic of a partial write: n bytes of a frame that starts at at and
\* is written from byte o on, in a stream at w of a with qb bytes queued.
LEMMA PartialWrite ==
  ASSUME NEW at \in Nat, NEW len \in Nat, NEW o \in Nat, NEW n \in Nat,
         NEW w \in Nat, NEW a \in Nat, NEW qb \in Nat,
         at + o = w, o < len, at + len <= a, w + qb = a, n <= len - o
  PROVE  /\ w + n \in Nat /\ w + n <= a /\ n <= qb
         /\ qb - n \in Nat /\ qb - n <= qb /\ o + n \in Nat
         /\ (w + n) + (qb - n) = a
         /\ at + (o + n) = w + n
         /\ ~(o + n < len) => w + n = at + len
  OBVIOUS

\* One frame of flush(): it is written where the stream stands, and what is
\* left of the queue continues the stream.
LEMMA FlushFrameInv ==
  ASSUME NEW c, NEW a, NEW w, ConnInv(c, a, w), c.open, c.write_queue # <<>>,
         NEW k \in KernelAnswers(Head(c.write_queue).len)
  PROVE  LET r == FlushFrame(c, k)
         IN  /\ r.n \in Nat
             /\ Head(c.write_queue).at + c.write_queue_offset = w
             /\ ConnInv(r.c, a, w + r.n)
             /\ r.c.close_after_write = c.close_after_write
             /\ r.c.fd = Fd
             /\ r.st = "next" => r.c.open
             /\ r.st # "next" => Settled(r.c)
<1> DEFINE r == FlushFrame(c, k)
           q == c.write_queue
           f == Head(q)
           o == c.write_queue_offset
           s == WriteSome(f.len - o, k)
           qb == c.queued_bytes
           left == IF s.n > qb THEN 0 ELSE qb - s.n
           Goal == /\ r.n \in Nat
                   /\ f.at + o = w
                   /\ ConnInv(r.c, a, w + r.n)
                   /\ r.c.close_after_write = c.close_after_write
                   /\ r.c.fd = Fd
                   /\ r.st = "next" => r.c.open
                   /\ r.st # "next" => Settled(r.c)
<1> SUFFICES Goal
  OBVIOUS
<1>1. /\ c \in ConnType /\ a \in Nat /\ w \in Nat /\ OpenInv(c, a, w) /\ c.fd = Fd
      /\ q \in Seq(Frame) /\ q # <<>> /\ o \in Nat /\ qb \in Nat
  BY DEF ConnInv, ConnType, OpenInv
<1>2. /\ Len(q) \in Nat /\ Len(q) >= 1
      /\ Head(q) = q[1] /\ q[1] \in Frame
      /\ Tail(q) \in Seq(Frame) /\ Len(Tail(q)) = Len(q) - 1
      /\ \A i \in 1..(Len(q) - 1) : Tail(q)[i] = q[i + 1]
      /\ Tail(q) = <<>> <=> Len(q) = 1
  BY <1>1, TailFacts
<1>3. /\ \A i \in 1..Len(q) : i < Len(q) => q[i + 1].at = q[i].at + q[i].len
      /\ \A i \in 1..Len(q) : q[i].at + q[i].len <= a
      /\ q[Len(q)].at + q[Len(q)].len = a
      /\ q[1].at + o = w /\ o < q[1].len
      /\ w + qb = a /\ qb <= MaxQueuedBytes /\ c.write_watched
  BY <1>1 DEF OpenInv, Contiguous
<1>4. \A g \in Frame : g.at \in Nat /\ g.len \in Nat /\ g.len > 0
  BY Bounds DEF Frame
<1>5. f.at \in Nat /\ f.len \in Nat /\ f = q[1] /\ f.at + f.len <= a
  BY <1>2, <1>3, <1>4
<1>6. /\ s.n \in Nat /\ s.n <= f.len - o /\ (s.st # "ok" => s.n < f.len - o)
  <2>1. f.len - o \in Nat
    BY <1>1, <1>3, <1>5
  <2> QED
    BY <1>5, <2>1, WriteSomeResult
<1>7. /\ f.at + o = w /\ w + s.n \in Nat /\ w + s.n <= a /\ s.n <= qb
      /\ left = qb - s.n /\ left \in Nat /\ left <= qb /\ o + s.n \in Nat
      /\ w + s.n + left = a /\ f.at + (o + s.n) = w + s.n
      /\ ~(o + s.n < f.len) => w + s.n = f.at + f.len
  <2>1. f.at + o = w /\ o < f.len /\ w + qb = a
    BY <1>3, <1>5
  <2>2. o \in Nat /\ qb \in Nat /\ w \in Nat /\ a \in Nat
    BY <1>1
  <2> HIDE DEF s, f, q, o, qb
  <2>3. /\ w + s.n \in Nat /\ w + s.n <= a /\ s.n <= qb
        /\ qb - s.n \in Nat /\ qb - s.n <= qb /\ o + s.n \in Nat
        /\ (w + s.n) + (qb - s.n) = a
        /\ f.at + (o + s.n) = w + s.n
        /\ ~(o + s.n < f.len) => w + s.n = f.at + f.len
    <3> DEFINE n == s.n
               at == f.at
               len == f.len
    <3>1. /\ n \in Nat /\ at \in Nat /\ len \in Nat
          /\ at + o = w /\ o < len /\ at + len <= a /\ w + qb = a /\ n <= len - o
      BY <2>1, <1>5, <1>6
    <3> HIDE DEF n, at, len
    <3>2. /\ w + n \in Nat /\ w + n <= a /\ n <= qb
          /\ qb - n \in Nat /\ qb - n <= qb /\ o + n \in Nat
          /\ (w + n) + (qb - n) = a
          /\ at + (o + n) = w + n
          /\ ~(o + n < len) => w + n = at + len
      BY <2>2, <3>1, PartialWrite
    <3> QED
      BY <3>2 DEF n, at, len
  <2>4. left = qb - s.n
    BY <2>2, <2>3, <1>6
  <2> QED
    BY <2>1, <2>3, <2>4
<1>8. CASE s.st # "ok"
  <2>1. r = [c |-> [c EXCEPT !.open = FALSE], st |-> "error", n |-> s.n]
    BY <1>8 DEF FlushFrame
  <2> DEFINE d == [c EXCEPT !.open = FALSE]
  <2>2. ConnInv(d, a, w + s.n) /\ Settled(d) /\ d.close_after_write = c.close_after_write
    BY <1>1, <1>7, GivenUpInv
  <2>3. d.fd = Fd
    BY <1>1 DEF ConnType
  <2> HIDE DEF d, s, r
  <2> QED
    BY <2>1, <2>2, <2>3, <1>6, <1>7 DEF d
<1>9. CASE s.st = "ok" /\ o + s.n < f.len
  <2> DEFINE d == [c EXCEPT !.queued_bytes = left, !.write_queue_offset = @ + s.n]
  <2>1. r = [c |-> d, st |-> "full", n |-> s.n]
    BY <1>9 DEF FlushFrame
  <2>2. /\ d \in ConnType /\ d.fd = Fd /\ d.open /\ d.upgraded = c.upgraded
        /\ d.close_after_write = c.close_after_write
        /\ d.write_queue = q /\ d.write_queue_offset = o + s.n
        /\ d.queued_bytes = left /\ d.write_watched = c.write_watched
        /\ d.interest = c.interest
    <3> HIDE DEF left, s
    <3> QED
      BY <1>1, <1>7 DEF ConnType
  <2> HIDE DEF d, s, r, left
  <2>3. Contiguous(d, a, w + s.n)
    <3>1. q[1].at + (o + s.n) = w + s.n
      BY <1>5, <1>7
    <3> QED
      BY <2>2, <3>1, <1>1, <1>3, <1>5, <1>9 DEF Contiguous
  <2>4. OpenInv(d, a, w + s.n)
    <3>1. w + s.n + left = a /\ left <= MaxQueuedBytes
      <4>1. qb \in Nat /\ qb <= MaxQueuedBytes /\ MaxQueuedBytes \in Nat
        BY <1>1, <1>3, Bounds
      <4> QED
        BY <4>1, <1>7
    <3> QED
      BY <2>2, <2>3, <3>1, <1>1 DEF OpenInv
  <2>5. ConnInv(d, a, w + s.n)
    BY <2>2, <2>4, <1>1, <1>7 DEF ConnInv, Fd, NoFd
  <2>6. Settled(d)
    BY <2>2, <1>1 DEF Settled
  <2> QED
    BY <2>1, <2>2, <2>5, <2>6, <1>6, <1>7
<1>10. CASE s.st = "ok" /\ ~(o + s.n < f.len)
  <2> DEFINE d == [c EXCEPT !.queued_bytes = left, !.write_queue_offset = 0,
                            !.write_queue = Tail(@)]
  <2>1. r = [c |-> d, st |-> "next", n |-> s.n]
    BY <1>10 DEF FlushFrame
  <2>2. /\ d \in ConnType /\ d.fd = Fd /\ d.open /\ d.upgraded = c.upgraded
        /\ d.close_after_write = c.close_after_write
        /\ d.write_queue = Tail(q) /\ d.write_queue_offset = 0
        /\ d.queued_bytes = left /\ d.write_watched = c.write_watched
        /\ d.interest = c.interest
    <3> HIDE DEF left, s
    <3> QED
      BY <1>1, <1>2, <1>7 DEF ConnType
  <2> HIDE DEF d, s, r, left
  <2>3. w + s.n = q[1].at + q[1].len
    BY <1>5, <1>7, <1>10
  <2> DEFINE p == Tail(q)
  <2>4. Contiguous(d, a, w + s.n)
    <3>1. ASSUME NEW i \in 1..Len(p), i < Len(p)
          PROVE  p[i + 1].at = p[i].at + p[i].len
      <4>1. i \in 1..(Len(q) - 1) /\ i + 1 \in 1..(Len(q) - 1) /\ i + 1 \in 1..Len(q) /\ i + 1 < Len(q)
        BY <3>1, <1>2
      <4>2. p[i] = q[i + 1] /\ p[i + 1] = q[i + 1 + 1]
        BY <4>1, <1>2
      <4> QED
        BY <4>1, <4>2, <1>3
    <3>2. ASSUME NEW i \in 1..Len(p) PROVE p[i].at + p[i].len <= a
      <4>1. i \in 1..(Len(q) - 1) /\ i + 1 \in 1..Len(q)
        BY <3>2, <1>2
      <4> QED
        BY <4>1, <1>2, <1>3
    <3>3. ASSUME p # <<>>
          PROVE  /\ p[Len(p)].at + p[Len(p)].len = a
                 /\ p[1].at + 0 = w + s.n /\ 0 < p[1].len
      <4>1. Len(q) > 1 /\ Len(p) \in 1..(Len(q) - 1) /\ 1 \in 1..(Len(q) - 1) /\ 1 \in 1..Len(q)
        BY <3>3, <1>2
      <4>2. p[Len(p)] = q[Len(p) + 1] /\ Len(p) + 1 = Len(q)
        BY <4>1, <1>2
      <4>3. p[1] = q[1 + 1] /\ q[1 + 1].at = q[1].at + q[1].len
        BY <4>1, <1>2, <1>3
      <4>4. q[1 + 1] \in Frame
        BY <4>1, <1>1
      <4>5. p[1].at \in Nat /\ p[1].len \in Nat /\ p[1].len > 0
        BY <4>3, <4>4, <1>4
      <4>6. q[Len(q)].at + q[Len(q)].len = a
        BY <1>3
      <4> QED
        <5>1. p[Len(p)].at + p[Len(p)].len = a
          BY <4>2, <4>6
        <5>2. p[1].at = w + s.n
          BY <4>3, <2>3
        <5>3. p[1].at + 0 = p[1].at
          <6> DEFINE x == p[1].at
          <6>1. x \in Nat
            BY <4>5
          <6> HIDE DEF x
          <6>2. x + 0 = x
            BY <6>1
          <6> QED
            BY <6>2 DEF x
        <5>4. 0 < p[1].len
          BY <4>5
        <5> QED
          BY <5>1, <5>2, <5>3, <5>4
    <3>4. ASSUME p = <<>> PROVE w + s.n = a
      <4>1. Len(q) = 1
        BY <3>4, <1>2
      <4> QED
        BY <4>1, <2>3, <1>3
    <3>5. d.write_queue = p /\ d.write_queue_offset = 0
      BY <2>2
    <3> HIDE DEF p
    <3> QED
      BY <3>1, <3>2, <3>3, <3>4, <3>5 DEF Contiguous
  <2>5. OpenInv(d, a, w + s.n)
    <3>1. w + s.n + left = a /\ left <= MaxQueuedBytes
      <4>1. qb \in Nat /\ qb <= MaxQueuedBytes /\ MaxQueuedBytes \in Nat
        BY <1>1, <1>3, Bounds
      <4> QED
        BY <4>1, <1>7
    <3> QED
      BY <2>2, <2>4, <3>1, <1>1, <1>3 DEF OpenInv
  <2>6. ConnInv(d, a, w + s.n)
    BY <2>2, <2>5, <1>1, <1>7 DEF ConnInv, Fd, NoFd
  <2> QED
    BY <2>1, <2>2, <2>6, <1>6, <1>7
<1> QED
  BY <1>8, <1>9, <1>10

\* The end of flush(): nothing is waiting, and a draining socket is closed.
LEMMA FlushEndInv ==
  ASSUME NEW c, NEW a, NEW w, ConnInv(c, a, w), c.open, c.write_queue = <<>>
  PROVE  LET d == FlushEnd(c)
         IN  ConnInv(d, a, w) /\ Settled(d) /\ w = a /\ (d.open => ~c.close_after_write)
<1> DEFINE d == FlushEnd(c)
           u == [c EXCEPT !.interest = IF c.write_watched THEN @ \ {"write"} ELSE @,
                          !.write_watched = FALSE]
<1>1. c \in ConnType /\ OpenInv(c, a, w) /\ a \in Nat /\ w \in Nat /\ w <= a
  BY DEF ConnInv
<1>2. /\ u \in ConnType /\ u.fd = c.fd /\ u.open = c.open /\ u.upgraded = c.upgraded
      /\ u.write_queue = c.write_queue /\ u.write_queue_offset = c.write_queue_offset
      /\ u.queued_bytes = c.queued_bytes /\ u.write_watched = FALSE
      /\ u.interest = (IF c.write_watched THEN c.interest \ {"write"} ELSE c.interest)
      /\ u.close_after_write = c.close_after_write
  BY <1>1 DEF ConnType, Interests
<1>3. d = IF u.close_after_write THEN CloseSocket(u) ELSE u
  BY DEF FlushEnd
<1> HIDE DEF u, d
<1>4. w = a
  BY <1>1 DEF OpenInv, Contiguous
<1>5. "read" \in u.interest /\ "write" \notin u.interest
  BY <1>1, <1>2 DEF OpenInv
<1>6. OpenInv(u, a, w)
  <2>1. Contiguous(u, a, w)
    BY <1>1, <1>2 DEF OpenInv, Contiguous
  <2> QED
    BY <1>1, <1>2, <1>5, <2>1 DEF OpenInv
<1>7. u.fd # NoFd /\ u.open
  BY <1>6, <1>2 DEF OpenInv, Fd, NoFd
<1>8. ConnInv(u, a, w)
  BY <1>1, <1>2, <1>6, <1>7 DEF ConnInv
<1>9. CASE u.close_after_write
  <2>1. d = CloseSocket(u)
    BY <1>3, <1>9
  <2>2. ~d.open
    BY <2>1, <1>2, CloseSocketClosed
  <2> QED
    BY <2>1, <2>2, <1>4, <1>8, CloseSocketInv DEF d
<1>10. CASE ~u.close_after_write
  <2>1. d = u
    BY <1>3, <1>10
  <2>2. Settled(u)
    BY <1>2, <1>10 DEF Settled
  <2> QED
    BY <2>1, <2>2, <1>2, <1>4, <1>8, <1>10 DEF d
<1> QED
  BY <1>9, <1>10

-----------------------------------------------------------------------------
\* The inductive invariant: the connection invariant at the stream positions
\* the history records, outside flush() a settled connection, and after a
\* request to close a connection on which nothing can be sent.
IInv ==
  /\ ConnInv(conn, accepted, wire)
  /\ pc \in {"onOpen", "loop", "flush", "heartbeat"}
  /\ torn = FALSE
  /\ closing \in BOOLEAN /\ asked \in BOOLEAN /\ closeSent \in BOOLEAN
  /\ pc # "flush" => Settled(conn)
  /\ pc = "flush" => conn.open
  /\ closing => (conn.open => conn.close_after_write)

\* The frames an action may send are at the end of the accepted stream.
LEMMA FramesFacts ==
  ASSUME accepted \in Nat, NEW op \in Opcodes, NEW f \in Frames(op)
  PROVE  f \in Frame /\ f.at = accepted /\ f.op = op
<1>1. PICK l \in FrameSizes : f = [at |-> accepted, len |-> l, op |-> op]
  BY DEF Frames
<1> QED
  BY <1>1 DEF Frame

\* After a call that keeps SendPost nothing is torn.
LEMMA TriedInv ==
  ASSUME IInv, NEW f \in Frame, f.at = accepted, NEW STATE r,
         SendPost(accepted, wire, f, r), Tried(f, r), conn' = r.c
  PROVE  /\ ConnInv(conn', accepted', wire') /\ Settled(conn')
         /\ torn' = FALSE /\ closeSent' \in BOOLEAN
<1>1. accepted \in Nat /\ wire \in Nat /\ torn = FALSE /\ closeSent \in BOOLEAN
  BY DEF IInv, ConnInv
<1>2. /\ accepted' = (IF r.ok \/ r.n > 0 THEN accepted + f.len ELSE accepted)
      /\ wire' = wire + r.n
      /\ torn' = (torn \/ (r.n > 0 /\ wire # f.at + 0))
      /\ closeSent' = (closeSent \/ (r.ok /\ f.op = "close"))
  BY DEF Tried, Emit
<1>3. ConnInv(conn', accepted', wire') /\ Settled(conn')
  BY <1>2 DEF SendPost
<1>4. torn' = FALSE
  <2>1. f.at + 0 = accepted
    BY <1>1
  <2>2. r.n > 0 => wire = accepted
    BY DEF SendPost
  <2> QED
    BY <2>1, <2>2, <1>1, <1>2
<1>5. closeSent' \in BOOLEAN
  BY <1>1, <1>2
<1> QED
  BY <1>3, <1>4, <1>5

\* The invariant holds when on_open is about to run.
LEMMA InitIInv == Init => IInv
<1> SUFFICES ASSUME Init PROVE IInv
  OBVIOUS
<1> DEFINE c == [Opened(Fd) EXCEPT !.upgraded = TRUE, !.defer_close = TRUE]
<1>1. conn = c /\ accepted = 0 /\ wire = 0
  BY DEF Init
<1>2. <<>> \in Seq(Frame) /\ Len(<<>>) = 0
  OBVIOUS
<1>3. /\ c \in ConnType /\ c.open /\ c.fd = Fd /\ c.upgraded /\ c.write_queue = <<>>
      /\ c.queued_bytes = 0 /\ c.write_watched = FALSE /\ c.interest = {"read"}
      /\ c.close_after_write = FALSE
  BY <1>2 DEF Opened, ConnType, Interests
<1> HIDE DEF c
<1>4. OpenInv(c, 0, 0)
  BY <1>2, <1>3, Bounds DEF OpenInv, Contiguous
<1>5. ConnInv(c, 0, 0) /\ Settled(c)
  BY <1>3, <1>4 DEF ConnInv, Settled, Fd, NoFd
<1> QED
  BY <1>1, <1>5 DEF Init, IInv

\* close_with_code() keeps the invariant wherever it is called.
LEMMA GiveUpStep ==
  ASSUME IInv, pc # "flush", GiveUp
  PROVE  IInv' /\ (closing => accepted' = accepted)
<1>0. PICK f \in Frames("close") : \E k \in KernelAnswers(f.len) :
        LET r == CloseWithCode(conn, f, k) IN conn' = r.c /\ Tried(f, r)
  BY DEF GiveUp
<1>1. PICK k \in KernelAnswers(f.len) :
        LET r == CloseWithCode(conn, f, k) IN conn' = r.c /\ Tried(f, r)
  BY <1>0
<1> DEFINE r == CloseWithCode(conn, f, k)
<1>2. /\ accepted \in Nat /\ ConnInv(conn, accepted, wire) /\ Settled(conn)
      /\ asked' = asked /\ asked \in BOOLEAN /\ closing' = TRUE /\ pc' = "loop"
  BY DEF IInv, ConnInv, GiveUp
<1>3. f \in Frame /\ f.at = accepted
  BY <1>2, FramesFacts DEF Opcodes
<1>4. /\ SendPost(accepted, wire, f, r) /\ (r.c.open => r.c.close_after_write)
      /\ ~CanSend(conn) => ~r.ok /\ r.n = 0
  BY <1>2, <1>3, CloseWithCodeInv
<1>5. conn' = r.c /\ Tried(f, r)
  BY <1>1
<1> HIDE DEF r
<1>6. /\ ConnInv(conn', accepted', wire') /\ Settled(conn')
      /\ torn' = FALSE /\ closeSent' \in BOOLEAN
  BY <1>3, <1>4, <1>5, TriedInv
<1>7. IInv'
  BY <1>2, <1>4, <1>5, <1>6 DEF IInv
<1>8. closing => accepted' = accepted
  <2>1. closing => ~CanSend(conn)
    BY DEF IInv, CanSend
  <2>2. r.n \in Nat
    BY <1>4 DEF SendPost
  <2>3. r.n = 0 => ~(r.n > 0)
    OBVIOUS
  <2> QED
    BY <2>1, <2>3, <1>4, <1>5 DEF Tried
<1> QED
  BY <1>7, <1>8

\* Connection::close() keeps the invariant.
LEMMA UserCloseStep ==
  ASSUME IInv, UserClose
  PROVE  IInv' /\ (closing => accepted' = accepted)
<1>0. PICK f \in Frames("close") : \E k \in KernelAnswers(f.len) :
        LET r == Close(conn, f, k) IN conn' = r.c /\ Tried(f, r)
  BY DEF UserClose
<1>1. PICK k \in KernelAnswers(f.len) :
        LET r == Close(conn, f, k) IN conn' = r.c /\ Tried(f, r)
  BY <1>0
<1> DEFINE r == Close(conn, f, k)
<1>2. /\ accepted \in Nat /\ ConnInv(conn, accepted, wire) /\ Settled(conn)
      /\ closing' = TRUE /\ pc' = pc /\ pc \in {"onOpen", "loop"}
  BY DEF IInv, ConnInv, UserClose
<1>3. f \in Frame /\ f.at = accepted
  BY <1>2, FramesFacts DEF Opcodes
<1>4. /\ SendPost(accepted, wire, f, r) /\ (r.c.open => r.c.close_after_write)
      /\ ~CanSend(conn) => ~r.ok /\ r.n = 0
  BY <1>2, <1>3, CloseInv
<1>5. conn' = r.c /\ Tried(f, r)
  BY <1>1
<1> HIDE DEF r
<1>6. /\ ConnInv(conn', accepted', wire') /\ Settled(conn')
      /\ torn' = FALSE /\ closeSent' \in BOOLEAN
  BY <1>3, <1>4, <1>5, TriedInv
<1>7. asked' \in BOOLEAN
  BY DEF UserClose, IInv, ConnInv, ConnType
<1>8. IInv'
  BY <1>2, <1>4, <1>5, <1>6, <1>7 DEF IInv
<1>9. closing => accepted' = accepted
  <2>1. closing => ~CanSend(conn)
    BY DEF IInv, CanSend
  <2>2. r.n = 0 => ~(r.n > 0)
    OBVIOUS
  <2> QED
    BY <2>1, <2>2, <1>4, <1>5 DEF Tried
<1> QED
  BY <1>8, <1>9

\* A frame sent by send(), as a pong or as a ping keeps the invariant.
LEMMA SentFrame ==
  ASSUME IInv, pc # "flush", conn.open, ~conn.close_after_write,
         NEW op \in Opcodes, NEW f \in Frames(op), NEW k \in KernelAnswers(f.len),
         Tried(f, SendFrame(conn, f, k))
  PROVE  LET r == SendFrame(conn, f, k)
         IN  /\ ConnInv(r.c, accepted', wire') /\ Settled(r.c)
             /\ torn' = FALSE /\ closeSent' \in BOOLEAN
             /\ r.ok \in BOOLEAN /\ ~closing
<1> DEFINE r == SendFrame(conn, f, k)
<1>1. accepted \in Nat /\ wire \in Nat /\ ConnInv(conn, accepted, wire) /\ Settled(conn) /\ ~closing
  BY DEF IInv, ConnInv
<1>2. f \in Frame /\ f.at = accepted
  BY <1>1, FramesFacts
<1>3. SendPost(accepted, wire, f, r)
  BY <1>1, <1>2, SendFrameInv DEF SendPost
<1>4. /\ accepted' = (IF r.ok \/ r.n > 0 THEN accepted + f.len ELSE accepted)
      /\ wire' = wire + r.n
      /\ torn' = (torn \/ (r.n > 0 /\ wire # f.at + 0))
      /\ closeSent' = (closeSent \/ (r.ok /\ f.op = "close"))
  BY DEF Tried, Emit
<1> HIDE DEF r
<1>5. ConnInv(r.c, accepted', wire') /\ Settled(r.c) /\ r.ok \in BOOLEAN
  BY <1>3, <1>4 DEF SendPost
<1>6. torn' = FALSE
  <2>1. f.at + 0 = accepted
    BY <1>1, <1>2
  <2>2. r.n > 0 => wire = accepted
    BY <1>3 DEF SendPost
  <2>3. torn = FALSE
    BY DEF IInv
  <2> QED
    BY <2>1, <2>2, <2>3, <1>4
<1>7. closeSent' \in BOOLEAN
  <2>1. closeSent \in BOOLEAN
    BY DEF IInv
  <2> QED
    BY <2>1, <1>4
<1> QED
  BY <1>1, <1>5, <1>6, <1>7 DEF r

-----------------------------------------------------------------------------
\* What a step promises besides the invariant: nothing is accepted after a
\* request to close, and flush() closes a socket only when it is drained.
StepPromise ==
  /\ closing => accepted' = accepted
  /\ pc = "flush" /\ conn.fd # NoFd /\ conn'.fd = NoFd => wire' = accepted'

\* Every step keeps the invariant and the promises.
LEMMA NextIInv == IInv /\ [Next]_vars => IInv' /\ StepPromise
<1> SUFFICES ASSUME IInv, [Next]_vars PROVE IInv' /\ StepPromise
  OBVIOUS
<1>0. /\ ConnInv(conn, accepted, wire) /\ conn \in ConnType
      /\ accepted \in Nat /\ wire \in Nat /\ wire <= accepted
  BY DEF IInv, ConnInv
<1>1. CASE Send
  <2>1. PICK f \in Frames("data") \cup Frames("close") : \E k \in KernelAnswers(f.len) :
          LET r == SendFrame(conn, f, k) IN conn' = r.c /\ Tried(f, r)
    BY <1>1 DEF Send
  <2>2. PICK k \in KernelAnswers(f.len) :
          LET r == SendFrame(conn, f, k) IN conn' = r.c /\ Tried(f, r)
    BY <2>1
  <2> DEFINE r == SendFrame(conn, f, k)
  <2>3. PICK op \in Opcodes : f \in Frames(op)
    BY DEF Opcodes
  <2>4. /\ pc # "flush" /\ conn.open /\ ~conn.close_after_write
        /\ pc' = pc /\ closing' = closing /\ asked' = asked
    BY <1>1 DEF Send
  <2>5. Tried(f, r) /\ conn' = r.c
    BY <2>2
  <2>6. /\ ConnInv(r.c, accepted', wire') /\ Settled(r.c)
        /\ torn' = FALSE /\ closeSent' \in BOOLEAN /\ ~closing
    BY <2>3, <2>4, <2>5, SentFrame
  <2> HIDE DEF r
  <2> QED
    BY <2>4, <2>5, <2>6 DEF IInv, StepPromise
<1>2. CASE UserClose
  <2>1. IInv' /\ (closing => accepted' = accepted)
    BY <1>2, UserCloseStep
  <2>2. pc # "flush"
    BY <1>2 DEF UserClose
  <2> QED
    BY <2>1, <2>2 DEF StepPromise
<1>3. CASE OnOpenReturns
  <2>1. PICK z \in BOOLEAN : conn' = [conn EXCEPT !.defer_close = FALSE, !.open = @ /\ ~z]
    BY <1>3 DEF OnOpenReturns
  <2>2. pc = "onOpen" /\ pc' = "loop" /\ UNCHANGED history
    BY <1>3 DEF OnOpenReturns
  <2> DEFINE d == [conn EXCEPT !.defer_close = FALSE, !.open = @ /\ ~z]
  <2>3. /\ d \in ConnType /\ (d.open => conn.open) /\ d.fd = conn.fd
        /\ d.upgraded = conn.upgraded
        /\ d.write_queue = conn.write_queue /\ d.write_queue_offset = conn.write_queue_offset
        /\ d.queued_bytes = conn.queued_bytes /\ d.write_watched = conn.write_watched
        /\ d.interest = conn.interest /\ d.close_after_write = conn.close_after_write
    BY <1>0 DEF ConnType
  <2>4. conn' = d
    BY <2>1
  <2> HIDE DEF d
  <2>5. d.open => OpenInv(d, accepted, wire)
    <3> SUFFICES ASSUME d.open PROVE OpenInv(d, accepted, wire)
      OBVIOUS
    <3>1. OpenInv(conn, accepted, wire)
      BY <2>3, <1>0 DEF ConnInv
    <3> QED
      BY <3>1, <2>3 DEF OpenInv, Contiguous
  <2>6. ConnInv(d, accepted, wire)
    BY <2>3, <2>5, <1>0 DEF ConnInv
  <2>7. Settled(d)
    BY <2>2, <2>3 DEF Settled, IInv
  <2>8. closing => (d.open => d.close_after_write)
    BY <2>3 DEF IInv
  <2> QED
    BY <2>2, <2>4, <2>6, <2>7, <2>8 DEF IInv, StepPromise, history
<1>4. CASE OnOpenThrows
  <2> DEFINE e == [conn EXCEPT !.defer_close = FALSE, !.open = FALSE]
  <2>1. /\ e \in ConnType /\ ~e.open /\ e.fd = conn.fd /\ e.interest = conn.interest
        /\ e.write_queue = conn.write_queue
    BY <1>0 DEF ConnType
  <2>2. conn' = CloseSocket(e) /\ pc = "onOpen" /\ pc' = "loop" /\ UNCHANGED history
    BY <1>4 DEF OnOpenThrows
  <2> HIDE DEF e
  <2>3. ConnInv(e, accepted, wire)
    BY <2>1, <1>0 DEF ConnInv
  <2>4. ConnInv(conn', accepted, wire) /\ Settled(conn') /\ ~conn'.open
    BY <2>1, <2>2, <2>3, CloseSocketInv, CloseSocketClosed
  <2> QED
    BY <2>2, <2>4 DEF IInv, StepPromise, history
<1>5. CASE ReceivePing
  <2>1. PICK f \in Frames("pong") : \E k \in KernelAnswers(f.len) :
          LET r == SendFrame(conn, f, k)
          IN  conn' = (IF r.ok THEN r.c ELSE CloseSocket(r.c)) /\ Tried(f, r)
    BY <1>5 DEF ReceivePing
  <2>2. PICK k \in KernelAnswers(f.len) :
          LET r == SendFrame(conn, f, k)
          IN  conn' = (IF r.ok THEN r.c ELSE CloseSocket(r.c)) /\ Tried(f, r)
    BY <2>1
  <2> DEFINE r == SendFrame(conn, f, k)
  <2>3. /\ pc = "loop" /\ conn.open /\ ~conn.close_after_write
        /\ pc' = pc /\ closing' = closing /\ asked' = asked
    BY <1>5 DEF ReceivePing, Reading
  <2>4. Tried(f, r) /\ conn' = (IF r.ok THEN r.c ELSE CloseSocket(r.c))
    BY <2>2
  <2>5. /\ ConnInv(r.c, accepted', wire') /\ Settled(r.c)
        /\ torn' = FALSE /\ closeSent' \in BOOLEAN /\ ~closing
    BY <2>3, <2>4, SentFrame DEF Opcodes
  <2> HIDE DEF r
  <2>6. ConnInv(conn', accepted', wire') /\ Settled(conn')
    BY <2>4, <2>5, CloseSocketInv
  <2> QED
    BY <2>3, <2>5, <2>6 DEF IInv, StepPromise
<1>6. CASE ReceivePong
  <2> DEFINE d == [conn EXCEPT !.awaiting_pong = FALSE]
  <2>1. conn' = d /\ pc = "loop" /\ pc' = pc /\ UNCHANGED history
    BY <1>6 DEF ReceivePong, Reading
  <2>2. /\ d \in ConnType /\ d.open = conn.open /\ d.fd = conn.fd
        /\ d.upgraded = conn.upgraded
        /\ d.write_queue = conn.write_queue /\ d.write_queue_offset = conn.write_queue_offset
        /\ d.queued_bytes = conn.queued_bytes /\ d.write_watched = conn.write_watched
        /\ d.interest = conn.interest /\ d.close_after_write = conn.close_after_write
    BY <1>0 DEF ConnType
  <2> HIDE DEF d
  <2>3. ConnInv(d, accepted, wire)
    BY <2>2, <1>0 DEF ConnInv, OpenInv, Contiguous
  <2>4. Settled(d) /\ (closing => (d.open => d.close_after_write))
    BY <2>1, <2>2 DEF Settled, IInv
  <2> QED
    BY <2>1, <2>3, <2>4 DEF IInv, StepPromise, history
<1>7. CASE ReceiveEnd
  <2> DEFINE d == [conn EXCEPT !.open = FALSE]
  <2>1. conn' = d /\ pc = "loop" /\ pc' = pc /\ UNCHANGED history
    BY <1>7 DEF ReceiveEnd, Reading
  <2>2. ConnInv(d, accepted, wire) /\ Settled(d) /\ ~d.open
    BY <1>0, NotOpenInv
  <2> HIDE DEF d
  <2> QED
    BY <2>1, <2>2 DEF IInv, StepPromise, history
<1>8. CASE ReceiveClose \/ Expire \/ PongTimeout \/ PingFailed
  <2>1. GiveUp /\ pc # "flush"
    BY <1>8 DEF ReceiveClose, Expire, PongTimeout, PingFailed, Reading
  <2>2. IInv' /\ (closing => accepted' = accepted)
    BY <2>1, GiveUpStep
  <2> QED
    BY <2>1, <2>2 DEF StepPromise
<1>9. CASE SendPing
  <2>1. PICK f \in Frames("ping") : \E k \in KernelAnswers(f.len) :
          LET r == SendFrame(conn, f, k)
          IN  /\ conn' = (IF r.ok THEN [r.c EXCEPT !.awaiting_pong = TRUE] ELSE r.c)
              /\ pc' = (IF r.ok THEN "loop" ELSE "heartbeat") /\ Tried(f, r)
    BY <1>9 DEF SendPing
  <2>2. PICK k \in KernelAnswers(f.len) :
          LET r == SendFrame(conn, f, k)
          IN  /\ conn' = (IF r.ok THEN [r.c EXCEPT !.awaiting_pong = TRUE] ELSE r.c)
              /\ pc' = (IF r.ok THEN "loop" ELSE "heartbeat") /\ Tried(f, r)
    BY <2>1
  <2> DEFINE r == SendFrame(conn, f, k)
             d == [r.c EXCEPT !.awaiting_pong = TRUE]
  <2>3. /\ pc = "loop" /\ conn.open /\ ~conn.close_after_write
        /\ closing' = closing /\ asked' = asked
    BY <1>9 DEF SendPing, Reading
  <2>4. /\ Tried(f, r) /\ conn' = (IF r.ok THEN d ELSE r.c)
        /\ pc' \in {"loop", "heartbeat"}
    BY <2>2
  <2>5. /\ ConnInv(r.c, accepted', wire') /\ Settled(r.c)
        /\ torn' = FALSE /\ closeSent' \in BOOLEAN /\ ~closing
    BY <2>3, <2>4, SentFrame DEF Opcodes
  <2> HIDE DEF r
  <2>6. /\ d \in ConnType /\ d.open = r.c.open /\ d.fd = r.c.fd
        /\ d.upgraded = r.c.upgraded
        /\ d.write_queue = r.c.write_queue /\ d.write_queue_offset = r.c.write_queue_offset
        /\ d.queued_bytes = r.c.queued_bytes /\ d.write_watched = r.c.write_watched
        /\ d.interest = r.c.interest /\ d.close_after_write = r.c.close_after_write
    BY <2>5 DEF ConnInv, ConnType
  <2> HIDE DEF d
  <2>7. ConnInv(d, accepted', wire') /\ Settled(d)
    BY <2>5, <2>6 DEF ConnInv, OpenInv, Contiguous, Settled
  <2>8. ConnInv(conn', accepted', wire') /\ Settled(conn')
    BY <2>4, <2>5, <2>7
  <2> QED
    BY <2>3, <2>4, <2>5, <2>8 DEF IInv, StepPromise
<1>10. CASE FlushBegin
  BY <1>0, <1>10 DEF FlushBegin, IInv, StepPromise, history
<1>11. CASE FlushStep
  <2> DEFINE f == Head(conn.write_queue)
  <2>1. PICK k \in KernelAnswers(f.len) :
          LET r == FlushFrame(conn, k)
          IN  /\ conn' = r.c /\ pc' = (IF r.st = "next" THEN "flush" ELSE "loop")
              /\ Emit(f, conn.write_queue_offset, r.n)
    BY <1>11 DEF FlushStep
  <2> DEFINE r == FlushFrame(conn, k)
  <2>2. /\ pc = "flush" /\ conn.write_queue # <<>> /\ conn.open
        /\ accepted' = accepted /\ closing' = closing /\ asked' = asked
        /\ closeSent' = closeSent
    BY <1>11 DEF FlushStep, IInv
  <2>3. /\ r.n \in Nat /\ f.at + conn.write_queue_offset = wire
        /\ ConnInv(r.c, accepted, wire + r.n)
        /\ r.c.close_after_write = conn.close_after_write /\ r.c.fd = Fd
        /\ r.st = "next" => r.c.open
        /\ r.st # "next" => Settled(r.c)
    BY <1>0, <2>2, FlushFrameInv
  <2>4. /\ conn' = r.c /\ pc' = (IF r.st = "next" THEN "flush" ELSE "loop")
        /\ wire' = wire + r.n
        /\ torn' = (torn \/ (r.n > 0 /\ wire # f.at + conn.write_queue_offset))
    BY <2>1 DEF Emit
  <2> HIDE DEF r, f
  <2>5. torn' = FALSE
    BY <2>3, <2>4 DEF IInv
  <2>6. closing => (conn'.open => conn'.close_after_write)
    BY <2>2, <2>3, <2>4 DEF IInv
  <2>7. conn'.fd # NoFd
    BY <2>3, <2>4 DEF Fd, NoFd
  <2> QED
    BY <2>2, <2>3, <2>4, <2>5, <2>6, <2>7 DEF IInv, StepPromise
<1>12. CASE FlushFinish
  <2>1. /\ pc = "flush" /\ conn.write_queue = <<>> /\ conn.open
        /\ conn' = FlushEnd(conn) /\ pc' = "loop" /\ UNCHANGED history
    BY <1>12 DEF FlushFinish, IInv
  <2>2. /\ ConnInv(conn', accepted, wire) /\ Settled(conn') /\ wire = accepted
        /\ (conn'.open => ~conn.close_after_write)
    BY <1>0, <2>1, FlushEndInv
  <2>3. closing => ~conn'.open
    BY <2>1, <2>2 DEF IInv
  <2> QED
    BY <2>1, <2>2, <2>3 DEF IInv, StepPromise, history
<1>13. CASE Purge \/ Shutdown
  <2>1. conn' = CloseSocket(conn) /\ pc = "loop" /\ pc' = pc /\ UNCHANGED history
    BY <1>13 DEF Purge, Shutdown
  <2>2. ConnInv(conn', accepted, wire) /\ Settled(conn') /\ ~conn'.open
    BY <1>0, <2>1, CloseSocketInv, CloseSocketClosed
  <2> QED
    BY <2>1, <2>2 DEF IInv, StepPromise, history
<1>14. CASE UNCHANGED vars
  BY <1>14 DEF vars, IInv, StepPromise
<1> QED
  BY <1>1, <1>2, <1>3, <1>4, <1>5, <1>6, <1>7, <1>8, <1>9, <1>10, <1>11, <1>12,
     <1>13, <1>14 DEF Next

\* The invariant says what the specification's properties say.
LEMMA IInvImplies ==
  IInv => /\ TypeOK /\ WireIntact /\ QueueAccounting
          /\ WatchFollowsQueue
<1> SUFFICES ASSUME IInv
             PROVE  /\ TypeOK /\ WireIntact /\ QueueAccounting
                    /\ WatchFollowsQueue
  OBVIOUS
<1>1. TypeOK
  BY DEF IInv, ConnInv, TypeOK
<1>2. WireIntact
  BY DEF IInv, WireIntact
<1>3. QueueAccounting
  BY DEF IInv, ConnInv, OpenInv, Contiguous, QueueAccounting, QueueContiguous
<1>4. WatchFollowsQueue
  BY DEF IInv, ConnInv, OpenInv, Settled, WatchFollowsQueue
<1> QED
  BY <1>1, <1>2, <1>3, <1>4

\* The inductive invariant holds in every reachable state.
THEOREM Invariance == Spec => []IInv
  BY InitIInv, NextIInv, PTL DEF Spec

\* Type correctness of the connection object through every operation.
THEOREM TypeCorrect == Spec => []TypeOK
  BY Invariance, IInvImplies, PTL

\* The stream stays parseable: write_some(), queue_frame() and flush() never
\* tear or interleave frames, for any limit, any sizes and any partial writes.
THEOREM StreamIntact == Spec => []WireIntact
  BY Invariance, IInvImplies, PTL

\* queued_bytes counts the unsent bytes exactly and never passes the limit.
THEOREM QueueIsExact == Spec => []QueueAccounting
  BY Invariance, IInvImplies, PTL

\* The driver's write interest follows the queue, a draining connection has a
\* write to wait for, and a closed socket leaves nothing behind.
THEOREM WatchIsExact == Spec => []WatchFollowsQueue
  BY Invariance, IInvImplies, PTL

\* After close() or close_with_code() no frame is accepted.
THEOREM SilentAfterClose == Spec => NothingAfterClose
<1>1. IInv /\ [Next]_vars => [closing => accepted' = accepted]_vars
  BY NextIInv DEF StepPromise
<1> QED
  BY <1>1, Invariance, PTL DEF Spec, NothingAfterClose

\* flush() closes a draining socket only after its last byte.
THEOREM DrainedOnClose == Spec => DrainsCompletely
<1>1. IInv /\ [Next]_vars =>
        [pc = "flush" /\ conn.fd # NoFd /\ conn'.fd = NoFd => wire' = accepted']_vars
  BY NextIInv DEF StepPromise
<1> QED
  BY <1>1, Invariance, PTL DEF Spec, DrainsCompletely

-----------------------------------------------------------------------------
(* WriteQueue implements ByteStream.  The argument: what send_frame() does *)
(* to the status of the stream (SendFrameStatus), what a caller may do     *)
(* after it (Continues), and that the two together are one step of the     *)
(* stream (CallIsStep).                                                    *)

\* The status of the stream, as a function of the connection.
StatusOf(c) ==
  IF c.fd = NoFd THEN "closed"
  ELSE IF ~c.open THEN "failed"
  ELSE IF c.close_after_write THEN "draining" ELSE "open"

\* The status of the stream is read off the connection, before and after a step.
LEMMA StatusIsOf == Status = StatusOf(conn) /\ Status' = StatusOf(conn')
  BY DEF Status, StatusOf

\* An open connection has its descriptor, so only these statuses are open.
LEMMA StatusFacts ==
  ASSUME NEW c, NEW a, NEW w, ConnInv(c, a, w)
  PROVE  /\ StatusOf(c) \in {"open", "draining", "failed", "closed"}
         /\ StatusOf(c) = "open" <=> c.open /\ ~c.close_after_write
         /\ StatusOf(c) = "draining" <=> c.open /\ c.close_after_write
         /\ StatusOf(c) = "closed" <=> c.fd = NoFd
<1>1. c.open => c.fd = Fd
  BY DEF ConnInv, OpenInv
<1>2. Fd # NoFd
  BY DEF Fd, NoFd
<1> QED
  BY <1>1, <1>2 DEF StatusOf

\* An open connection with an empty queue has delivered everything, one with
\* pending writes has not.
LEMMA QueueTellsRest ==
  ASSUME NEW c, NEW a, NEW w, ConnInv(c, a, w), c.open
  PROVE  /\ c.write_queue = <<>> => w = a
         /\ c.write_queue # <<>> => w < a
<1>1. /\ c \in ConnType /\ Contiguous(c, a, w) /\ a \in Nat /\ w \in Nat
  BY DEF ConnInv, OpenInv
<1>2. c.write_queue = <<>> => w = a
  BY <1>1 DEF Contiguous
<1>3. ASSUME c.write_queue # <<>>
      PROVE  w < a
  <2> DEFINE q == c.write_queue
  <2>1. q \in Seq(Frame) /\ c.write_queue_offset \in Nat
    BY <1>1 DEF ConnType
  <2>2. Len(q) \in Nat /\ 1 \in 1..Len(q) /\ q[1] \in Frame
    BY <1>3, <2>1
  <2>3. q[1].at \in Nat /\ q[1].len \in Nat
    BY <2>2, Bounds DEF Frame
  <2>4. /\ q[1].at + q[1].len <= a
        /\ q[1].at + c.write_queue_offset = w
        /\ c.write_queue_offset < q[1].len
    BY <1>1, <1>3, <2>2 DEF Contiguous
  <2> QED
    BY <1>1, <2>1, <2>3, <2>4
<1> QED
  BY <1>2, <1>3

\* What send_frame() does to the status: it never closes the socket, it sends
\* only on an open stream, and bytes of a frame that failed give it up.
LEMMA SendFrameStatus ==
  ASSUME NEW c, NEW a, NEW w, ConnInv(c, a, w), Settled(c),
         NEW f \in Frame, f.at = a, NEW k \in KernelAnswers(f.len)
  PROVE  LET r == SendFrame(c, f, k)
         IN  /\ r.c.fd = c.fd
             /\ r.ok => r.c.open /\ CanSend(c)
             /\ ~r.ok /\ r.n > 0 => ~r.c.open
<1> DEFINE r == SendFrame(c, f, k)
           s == WriteSome(f.len, k)
           q == QueueFrame(c, f, IF c.write_queue = <<>> THEN s.n ELSE 0, k)
<1>1. f.len \in Nat /\ f.len > 0 /\ MaxQueuedBytes \in Nat /\ a \in Nat /\ w \in Nat
  BY Bounds DEF Frame, ConnInv
<1>2. CASE ~CanSend(c) \/ f.len > MaxQueuedBytes
  BY <1>2 DEF SendFrame
<1>3. CASE CanSend(c) /\ f.len <= MaxQueuedBytes
  <2>1. c.open /\ c \in ConnType /\ OpenInv(c, a, w)
    BY <1>3 DEF CanSend, ConnInv
  <2>2. /\ s.n \in Nat /\ s.n <= f.len /\ s.st \in {"ok"} \cup SendErrnos
    BY <1>1, WriteSomeResult
  <2>3. r = IF c.write_queue # <<>> THEN SendResult(q.c, q.st, 0)
            ELSE IF s.st = "ok" /\ s.n < f.len THEN SendResult(q.c, q.st, s.n)
            ELSE SendResult(c, s.st, s.n)
    BY <1>1, <1>3 DEF SendFrame
  <2> DEFINE o == IF c.write_queue = <<>> THEN s.n ELSE 0
  <2>4. o < f.len =>
        /\ q.st \in {"ok", "ENOBUFS", "EWATCH"}
        /\ q.st = "ENOBUFS" => q.c = c /\ c.queued_bytes + f.len - o > MaxQueuedBytes
        /\ q.c \in ConnType /\ q.c.fd = Fd
        /\ q.st = "ok" => q.c.open
    <3>1. o \in Nat /\ (c.write_queue # <<>> => o = 0)
      BY <2>2
    <3> HIDE DEF o, q
    <3> SUFFICES ASSUME o < f.len
                 PROVE  /\ q.st \in {"ok", "ENOBUFS", "EWATCH"}
                        /\ q.st = "ENOBUFS" => q.c = c /\ c.queued_bytes + f.len - o > MaxQueuedBytes
                        /\ q.c \in ConnType /\ q.c.fd = Fd
                        /\ q.st = "ok" => q.c.open
      OBVIOUS
    <3>2. q = QueueFrame(c, f, o, k)
      BY DEF q, o
    <3> QED
      BY <2>1, <3>1, <3>2, QueueFrameInv
  <2>5. c.fd = Fd /\ c.queued_bytes \in Nat
    BY <2>1 DEF OpenInv, ConnType
  <2> HIDE DEF s, q, r
  <2>6. CASE c.write_queue # <<>>
    <3>1. r = SendResult(q.c, q.st, 0) /\ o < f.len
      BY <1>1, <2>3, <2>6
    <3> HIDE DEF o
    <3>2. r.n = 0 /\ r.ok = (q.st = "ok")
          /\ r.c = (IF q.st \in {"ok", "ENOBUFS"} THEN q.c ELSE [q.c EXCEPT !.open = FALSE])
      BY <3>1 DEF SendResult
    <3>3. r.c.fd = Fd /\ (r.ok => r.c.open)
      BY <2>4, <3>1, <3>2 DEF ConnType
    <3> QED
      BY <1>3, <2>5, <3>2, <3>3 DEF r
  <2>7. CASE c.write_queue = <<>> /\ s.st = "ok" /\ s.n < f.len
    <3>1. r = SendResult(q.c, q.st, s.n) /\ o = s.n
      BY <2>3, <2>7
    <3> HIDE DEF o
    <3>2. c.queued_bytes = 0
      BY <1>1, <2>1, <2>5, <2>7 DEF OpenInv, Contiguous
    <3>3. q.st # "ENOBUFS"
      BY <1>1, <1>3, <2>2, <2>4, <2>7, <3>1, <3>2
    <3>4. r.ok = (q.st = "ok")
          /\ r.c = (IF q.st \in {"ok", "ENOBUFS"} THEN q.c ELSE [q.c EXCEPT !.open = FALSE])
      BY <3>1 DEF SendResult
    <3>5. r.c.fd = Fd /\ (r.ok => r.c.open) /\ (~r.ok => ~r.c.open)
      BY <2>2, <2>4, <2>7, <3>1, <3>3, <3>4 DEF ConnType
    <3> QED
      BY <1>3, <2>5, <3>5 DEF r
  <2>8. CASE c.write_queue = <<>> /\ ~(s.st = "ok" /\ s.n < f.len)
    <3>1. r = SendResult(c, s.st, s.n)
      BY <2>3, <2>8
    <3>2. s.st # "ENOBUFS"
      BY <2>2, QueueAssumption
    <3>3. r.ok = (s.st = "ok")
          /\ r.c = (IF s.st = "ok" THEN c ELSE [c EXCEPT !.open = FALSE])
      BY <3>1, <3>2 DEF SendResult
    <3>4. r.c.fd = c.fd /\ (r.ok => r.c.open) /\ (~r.ok => ~r.c.open)
      BY <2>1, <3>3 DEF ConnType
    <3> QED
      BY <1>3, <3>4 DEF r
  <2> QED
    BY <2>6, <2>7, <2>8
<1> QED
  BY <1>1, <1>2, <1>3

\* A step of the byte stream from (a, w, s) to (b, v, t), or a stutter.
StreamStep(a, w, s, b, v, t) ==
  \/ b = a /\ v = w /\ t = s
  \/ s \in {"open", "draining"} /\ v \in w..a /\ t \in {s, "failed"} /\ b = a
  \/ s = "open" /\ b \in Nat /\ b > a /\ v \in w..b
       /\ t \in {"open", "draining", "failed"}
  \/ s = "open" /\ w < a /\ t = "draining" /\ b = a /\ v = w
  \/ s \in {"open", "draining"} /\ a \in Nat /\ b = a /\ v = a /\ t = "closed"
  \/ s # "closed" /\ t \in {"failed", "closed"} /\ b = a /\ v = w
  \/ s = "open" /\ b \in Nat /\ b > a /\ v \in w..b /\ t = "closed"

\* What a step does to the stream is a step of ByteStream.
LEMMA StreamStepIsNext ==
  ASSUME accepted \in Nat,
         StreamStep(accepted, wire, StatusOf(conn), accepted', wire', StatusOf(conn'))
  PROVE  [Stream!BSNext]_(Stream!bsvars)
<1> DEFINE s == StatusOf(conn)
           t == StatusOf(conn')
<1>1. Status = s /\ Status' = t
  BY StatusIsOf
<1>2. StreamStep(accepted, wire, s, accepted', wire', t)
  OBVIOUS
<1> HIDE DEF s, t
<1>3. accepted >= accepted
  OBVIOUS
<1> QED
  BY <1>1, <1>2, <1>3 DEF StreamStep, Stream!BSNext, Stream!bsvars, Stream!Deliver, Stream!Accept,
     Stream!Drain, Stream!Finish, Stream!Abort, Stream!AbortTruncated

\* How a call goes on after send_frame() left connection c, with the stream at
\* a and w: it leaves the status alone, waits for the queue, or closes.
Continues(c, a, w, d) ==
  \/ StatusOf(d) = StatusOf(c)
  \/ StatusOf(d) = "closed"
  \/ StatusOf(d) = "draining" /\ c.open /\ w < a

\* close_socket() sends nothing and ends the stream.
LEMMA CloseSocketContinues ==
  ASSUME NEW c, NEW a, NEW w, ConnInv(c, a, w)
  PROVE  StatusOf(CloseSocket(c)) = "closed" /\ Continues(c, a, w, CloseSocket(c))
<1>1. CloseSocket(c).fd = NoFd
  BY CloseSocketClosed DEF ConnInv
<1> QED
  BY <1>1 DEF Continues, StatusOf

\* close_after_write() sends nothing; it drains or ends the stream.
LEMMA CloseAfterWriteContinues ==
  ASSUME NEW c, NEW a, NEW w, ConnInv(c, a, w)
  PROVE  Continues(c, a, w, CloseAfterWrite(c))
<1>1. CASE ~c.open
  BY <1>1 DEF CloseAfterWrite, Continues
<1>2. CASE c.open /\ c.write_queue = <<>>
  BY <1>2, CloseSocketContinues DEF CloseAfterWrite
<1>3. CASE c.open /\ c.write_queue # <<>>
  <2> DEFINE d == [c EXCEPT !.close_after_write = TRUE]
  <2>1. d = CloseAfterWrite(c)
    BY <1>3 DEF CloseAfterWrite
  <2>2. d.fd = c.fd /\ d.open = c.open /\ d.close_after_write
    BY DEF ConnInv, ConnType
  <2>3. c.fd = Fd /\ Fd # NoFd
    BY <1>3 DEF ConnInv, OpenInv, Fd, NoFd
  <2> HIDE DEF d
  <2>4. StatusOf(d) = "draining"
    BY <1>3, <2>2, <2>3 DEF StatusOf
  <2> QED
    BY <1>3, <2>1, <2>4, QueueTellsRest DEF Continues
<1> QED
  BY <1>1, <1>2, <1>3

\* Whatever a call does after send_frame(), it is one step of the stream.
LEMMA CallIsStep ==
  ASSUME NEW c, NEW a, NEW w, ConnInv(c, a, w), Settled(c),
         NEW f \in Frame, f.at = a, NEW k \in KernelAnswers(f.len),
         NEW b, b = (IF SendFrame(c, f, k).ok \/ SendFrame(c, f, k).n > 0 THEN a + f.len ELSE a),
         NEW v, v = w + SendFrame(c, f, k).n,
         NEW d, Continues(SendFrame(c, f, k).c, b, v, d)
  PROVE  StreamStep(a, w, StatusOf(c), b, v, StatusOf(d))
<1> DEFINE r == SendFrame(c, f, k)
<1>1. /\ r.n \in Nat /\ r.ok \in BOOLEAN
      /\ ConnInv(r.c, b, v)
      /\ ~CanSend(c) => r.c = c /\ ~r.ok /\ r.n = 0
      /\ r.c.open => c.open
      /\ r.c.close_after_write = c.close_after_write
  BY SendFrameInv
<1>2. /\ r.c.fd = c.fd
      /\ r.ok => r.c.open /\ CanSend(c)
      /\ ~r.ok /\ r.n > 0 => ~r.c.open
  BY SendFrameStatus
<1>3. b = (IF r.ok \/ r.n > 0 THEN a + f.len ELSE a) /\ v = w + r.n
  OBVIOUS
<1>4. Continues(r.c, b, v, d)
  OBVIOUS
<1> HIDE DEF r
<1>5. f.len \in Nat /\ f.len > 0 /\ a \in Nat /\ w \in Nat /\ w <= a
  BY Bounds DEF Frame, ConnInv
<1>6. b \in Nat /\ v \in Nat /\ v <= b /\ w <= v
  BY <1>1, <1>3, <1>5 DEF ConnInv
<1>7. /\ StatusOf(c) = "open" <=> c.open /\ ~c.close_after_write
      /\ StatusOf(c) = "draining" <=> c.open /\ c.close_after_write
      /\ StatusOf(c) = "closed" <=> c.fd = NoFd
  BY StatusFacts
<1>8. /\ StatusOf(r.c) \in {"open", "draining", "failed", "closed"}
      /\ StatusOf(r.c) = "open" <=> r.c.open /\ ~r.c.close_after_write
      /\ StatusOf(r.c) = "draining" <=> r.c.open /\ r.c.close_after_write
      /\ StatusOf(r.c) = "closed" <=> r.c.fd = NoFd
  BY <1>1, StatusFacts
<1>9. CASE CanSend(c) /\ (r.ok \/ r.n > 0)
  <2>1. b > a /\ v \in w..b /\ StatusOf(c) = "open"
    BY <1>3, <1>5, <1>6, <1>7, <1>9 DEF CanSend
  <2>2. StatusOf(d) \in {"open", "draining", "failed", "closed"}
    BY <1>4, <1>8 DEF Continues
  <2> QED
    BY <1>6, <2>1, <2>2 DEF StreamStep
<1>10. CASE CanSend(c) /\ ~r.ok /\ ~(r.n > 0)
  <2>1. b = a /\ v = w /\ StatusOf(c) = "open"
    BY <1>1, <1>3, <1>5, <1>7, <1>10 DEF CanSend
  <2>2. StatusOf(r.c) \in {"open", "failed"}
    BY <1>1, <1>2, <1>8, <1>10 DEF CanSend
  <2> QED
    BY <1>4, <2>1, <2>2 DEF StreamStep, Continues
<1>11. CASE ~CanSend(c)
  <2>1. b = a /\ v = w /\ r.c = c
    BY <1>1, <1>3, <1>5, <1>11
  <2>2. c.open => c.close_after_write
    BY <1>11 DEF CanSend, ConnInv, OpenInv, Fd, NoFd
  <2> QED
    BY <1>4, <1>7, <2>1, <2>2 DEF StreamStep, Continues
<1> QED
  BY <1>1, <1>9, <1>10, <1>11

\* The current step of the connection, seen as a step of the stream.
StreamMoves ==
  StreamStep(accepted, wire, StatusOf(conn), accepted', wire', StatusOf(conn'))

\* An action that tries to send a frame.
LEMMA TriedMoves ==
  ASSUME IInv, pc # "flush", NEW op \in Opcodes, NEW f \in Frames(op),
         NEW k \in KernelAnswers(f.len), NEW STATE r, Tried(f, r),
         r.ok = SendFrame(conn, f, k).ok, r.n = SendFrame(conn, f, k).n,
         Continues(SendFrame(conn, f, k).c, accepted', wire', conn')
  PROVE  StreamMoves
<1>1. ConnInv(conn, accepted, wire) /\ Settled(conn) /\ accepted \in Nat
  BY DEF IInv, ConnInv
<1>2. f \in Frame /\ f.at = accepted
  BY <1>1, FramesFacts
<1>3. /\ accepted' = (IF SendFrame(conn, f, k).ok \/ SendFrame(conn, f, k).n > 0
                      THEN accepted + f.len ELSE accepted)
      /\ wire' = wire + SendFrame(conn, f, k).n
  BY DEF Tried, Emit
<1> QED
  BY <1>1, <1>2, <1>3, CallIsStep DEF StreamMoves

\* send_frame() leaves the connection of the stream the call accepted.
LEMMA TriedInvariant ==
  ASSUME IInv, pc # "flush", NEW op \in Opcodes, NEW f \in Frames(op),
         NEW k \in KernelAnswers(f.len), NEW STATE r, Tried(f, r),
         r.ok = SendFrame(conn, f, k).ok, r.n = SendFrame(conn, f, k).n
  PROVE  ConnInv(SendFrame(conn, f, k).c, accepted', wire')
<1>1. ConnInv(conn, accepted, wire) /\ Settled(conn) /\ accepted \in Nat
  BY DEF IInv, ConnInv
<1>2. f \in Frame /\ f.at = accepted
  BY <1>1, FramesFacts
<1>3. /\ accepted' = (IF SendFrame(conn, f, k).ok \/ SendFrame(conn, f, k).n > 0
                      THEN accepted + f.len ELSE accepted)
      /\ wire' = wire + SendFrame(conn, f, k).n
  BY DEF Tried, Emit
<1> QED
  BY <1>1, <1>2, <1>3, SendFrameInv

\* A record of the shape SendFrame returns, with another connection in it.
LEMMA ResultWith ==
  ASSUME NEW c, NEW f, NEW k, NEW d
  PROVE  LET r == [SendFrame(c, f, k) EXCEPT !.c = d]
         IN  r.c = d /\ r.ok = SendFrame(c, f, k).ok /\ r.n = SendFrame(c, f, k).n
<1> DEFINE s == SendFrame(c, f, k)
<1>1. s = [c |-> s.c, ok |-> s.ok, n |-> s.n]
  BY DEF SendFrame, SendResult
<1> HIDE DEF s
<1>2. LET r == [s EXCEPT !.c = d] IN r.c = d /\ r.ok = s.ok /\ r.n = s.n
  BY <1>1
<1> QED
  BY <1>2 DEF s

\* Connections that agree on three fields have the same status.
LEMMA SameStatus ==
  ASSUME NEW c, NEW d, d.fd = c.fd, d.open = c.open,
         d.close_after_write = c.close_after_write
  PROVE  StatusOf(d) = StatusOf(c)
  BY DEF StatusOf

\* A connection that stops being open without touching the stream.
LEMMA AbortMoves ==
  ASSUME IInv, accepted' = accepted, wire' = wire, ~conn'.open,
         conn'.fd = conn.fd \/ conn'.fd = NoFd
  PROVE  StreamMoves
  BY DEF StreamMoves, StreamStep, StatusOf

\* close_with_code() is a step of the stream.
LEMMA GiveUpMoves ==
  ASSUME IInv, pc # "flush", GiveUp
  PROVE  StreamMoves
<1>1. PICK f \in Frames("close") : \E k \in KernelAnswers(f.len) :
        LET r == CloseWithCode(conn, f, k) IN conn' = r.c /\ Tried(f, r)
  BY DEF GiveUp
<1>2. PICK k \in KernelAnswers(f.len) :
        LET r == CloseWithCode(conn, f, k) IN conn' = r.c /\ Tried(f, r)
  BY <1>1
<1> DEFINE s == SendFrame(conn, f, k)
           d == IF s.ok THEN CloseAfterWrite(s.c) ELSE CloseSocket(s.c)
           r == CloseWithCode(conn, f, k)
<1>3. conn' = r.c /\ Tried(f, r) /\ "close" \in Opcodes
  BY <1>2 DEF Opcodes
<1>4. r.c = d /\ r.ok = s.ok /\ r.n = s.n
  BY ResultWith DEF CloseWithCode
<1> HIDE DEF r, d
<1>5. ConnInv(s.c, accepted', wire')
  BY <1>3, <1>4, TriedInvariant
<1>6. Continues(s.c, accepted', wire', d)
  BY <1>5, CloseAfterWriteContinues, CloseSocketContinues DEF d
<1> QED
  BY <1>3, <1>4, <1>6, TriedMoves

\* Connection::close() is a step of the stream.
LEMMA UserCloseMoves ==
  ASSUME IInv, UserClose
  PROVE  StreamMoves
<1>1. PICK f \in Frames("close") : \E k \in KernelAnswers(f.len) :
        LET r == Close(conn, f, k) IN conn' = r.c /\ Tried(f, r)
  BY DEF UserClose
<1>2. PICK k \in KernelAnswers(f.len) :
        LET r == Close(conn, f, k) IN conn' = r.c /\ Tried(f, r)
  BY <1>1
<1> DEFINE s == SendFrame(conn, f, k)
           r == Close(conn, f, k)
<1>3. conn' = r.c /\ Tried(f, r) /\ "close" \in Opcodes /\ pc # "flush"
  BY <1>2 DEF Opcodes, UserClose
<1>4. CASE conn.defer_close
  <2> DEFINE d == [conn EXCEPT !.open = FALSE]
  <2>1. r = [c |-> d, ok |-> FALSE, n |-> 0]
    BY <1>4 DEF Close
  <2>2. ~d.open /\ d.fd = conn.fd
    BY DEF IInv, ConnInv, ConnType
  <2>3. accepted' = accepted /\ wire' = wire + 0
    BY <1>3, <2>1 DEF Tried, Emit
  <2>4. wire \in Nat
    BY DEF IInv, ConnInv
  <2>5. conn' = d
    BY <1>3, <2>1
  <2> HIDE DEF d, r
  <2> QED
    BY <2>2, <2>3, <2>4, <2>5, AbortMoves
<1>5. CASE ~conn.defer_close
  <2> DEFINE d == CloseAfterWrite(s.c)
  <2>1. r.c = d /\ r.ok = s.ok /\ r.n = s.n
    BY <1>5, ResultWith DEF Close
  <2> HIDE DEF r, d
  <2>2. ConnInv(s.c, accepted', wire')
    BY <1>3, <2>1, TriedInvariant
  <2>3. Continues(s.c, accepted', wire', d)
    BY <2>2, CloseAfterWriteContinues DEF d
  <2> QED
    BY <1>3, <2>1, <2>3, TriedMoves
<1> QED
  BY <1>4, <1>5

\* Every step of the connection is a step of the stream or changes nothing of it.
LEMMA NextMoves == IInv /\ [Next]_vars => StreamMoves
<1> SUFFICES ASSUME IInv, [Next]_vars PROVE StreamMoves
  OBVIOUS
<1>0. /\ ConnInv(conn, accepted, wire) /\ conn \in ConnType
      /\ accepted \in Nat /\ wire \in Nat /\ wire <= accepted
  BY DEF IInv, ConnInv
<1>1. CASE Send
  <2>1. PICK f \in Frames("data") \cup Frames("close") : \E k \in KernelAnswers(f.len) :
          LET r == SendFrame(conn, f, k) IN conn' = r.c /\ Tried(f, r)
    BY <1>1 DEF Send
  <2>2. PICK k \in KernelAnswers(f.len) :
          LET r == SendFrame(conn, f, k) IN conn' = r.c /\ Tried(f, r)
    BY <2>1
  <2>3. PICK op \in Opcodes : f \in Frames(op)
    BY DEF Opcodes
  <2> DEFINE r == SendFrame(conn, f, k)
  <2>4. conn' = r.c /\ Tried(f, r) /\ pc # "flush"
    BY <1>1, <2>2 DEF Send
  <2>5. Continues(r.c, accepted', wire', conn')
    BY <2>4 DEF Continues
  <2> QED
    BY <2>3, <2>4, <2>5, TriedMoves
<1>2. CASE UserClose
  BY <1>2, UserCloseMoves
<1>3. CASE OnOpenReturns
  <2>1. PICK z \in BOOLEAN : conn' = [conn EXCEPT !.defer_close = FALSE, !.open = @ /\ ~z]
    BY <1>3 DEF OnOpenReturns
  <2>2. accepted' = accepted /\ wire' = wire
    BY <1>3 DEF OnOpenReturns, history
  <2>3. /\ conn'.fd = conn.fd /\ conn'.close_after_write = conn.close_after_write
        /\ conn'.open = (conn.open /\ ~z)
    BY <1>0, <2>1 DEF ConnType
  <2>4. CASE conn'.open = conn.open
    BY <2>2, <2>3, <2>4, SameStatus DEF StreamMoves, StreamStep
  <2>5. CASE ~conn'.open
    BY <2>2, <2>3, <2>5, AbortMoves
  <2> QED
    BY <1>0, <2>3, <2>4, <2>5 DEF ConnType
<1>4. CASE OnOpenThrows
  <2> DEFINE e == [conn EXCEPT !.defer_close = FALSE, !.open = FALSE]
  <2>1. e \in ConnType
    BY <1>0 DEF ConnType
  <2>2. conn' = CloseSocket(e) /\ accepted' = accepted /\ wire' = wire
    BY <1>4 DEF OnOpenThrows, history
  <2> HIDE DEF e
  <2> QED
    BY <2>1, <2>2, CloseSocketClosed, AbortMoves
<1>5. CASE ReceivePing
  <2>1. PICK f \in Frames("pong") : \E k \in KernelAnswers(f.len) :
          LET r == SendFrame(conn, f, k)
          IN  conn' = (IF r.ok THEN r.c ELSE CloseSocket(r.c)) /\ Tried(f, r)
    BY <1>5 DEF ReceivePing
  <2>2. PICK k \in KernelAnswers(f.len) :
          LET r == SendFrame(conn, f, k)
          IN  conn' = (IF r.ok THEN r.c ELSE CloseSocket(r.c)) /\ Tried(f, r)
    BY <2>1
  <2> DEFINE r == SendFrame(conn, f, k)
  <2>3. /\ conn' = (IF r.ok THEN r.c ELSE CloseSocket(r.c)) /\ Tried(f, r)
        /\ pc # "flush" /\ "pong" \in Opcodes
    BY <1>5, <2>2 DEF ReceivePing, Reading, Opcodes
  <2>4. ConnInv(r.c, accepted', wire')
    BY <2>3, TriedInvariant
  <2>5. Continues(r.c, accepted', wire', conn')
    BY <2>3, <2>4, CloseSocketContinues DEF Continues
  <2> QED
    BY <2>3, <2>5, TriedMoves
<1>6. CASE ReceivePong
  <2>1. /\ conn' = [conn EXCEPT !.awaiting_pong = FALSE]
        /\ accepted' = accepted /\ wire' = wire
    BY <1>6 DEF ReceivePong, history
  <2>2. /\ conn'.fd = conn.fd /\ conn'.close_after_write = conn.close_after_write
        /\ conn'.open = conn.open
    BY <1>0, <2>1 DEF ConnType
  <2> QED
    BY <2>1, <2>2, SameStatus DEF StreamMoves, StreamStep
<1>7. CASE ReceiveEnd
  <2>1. /\ conn' = [conn EXCEPT !.open = FALSE]
        /\ accepted' = accepted /\ wire' = wire
    BY <1>7 DEF ReceiveEnd, history
  <2>2. conn'.fd = conn.fd /\ ~conn'.open
    BY <1>0, <2>1 DEF ConnType
  <2> QED
    BY <2>1, <2>2, AbortMoves
<1>8. CASE ReceiveClose \/ Expire \/ PongTimeout \/ PingFailed
  <2>1. GiveUp /\ pc # "flush"
    BY <1>8 DEF ReceiveClose, Expire, PongTimeout, PingFailed, Reading
  <2> QED
    BY <2>1, GiveUpMoves
<1>9. CASE SendPing
  <2>1. PICK f \in Frames("ping") : \E k \in KernelAnswers(f.len) :
          LET r == SendFrame(conn, f, k)
          IN  /\ conn' = (IF r.ok THEN [r.c EXCEPT !.awaiting_pong = TRUE] ELSE r.c)
              /\ Tried(f, r)
    BY <1>9 DEF SendPing
  <2>2. PICK k \in KernelAnswers(f.len) :
          LET r == SendFrame(conn, f, k)
          IN  /\ conn' = (IF r.ok THEN [r.c EXCEPT !.awaiting_pong = TRUE] ELSE r.c)
              /\ Tried(f, r)
    BY <2>1
  <2> DEFINE r == SendFrame(conn, f, k)
  <2>3. /\ conn' = (IF r.ok THEN [r.c EXCEPT !.awaiting_pong = TRUE] ELSE r.c)
        /\ Tried(f, r) /\ pc # "flush" /\ "ping" \in Opcodes
    BY <1>9, <2>2 DEF SendPing, Reading, Opcodes
  <2>4. r.c \in ConnType
    BY <2>3, TriedInvariant DEF ConnInv
  <2>5. /\ conn'.fd = r.c.fd /\ conn'.open = r.c.open
        /\ conn'.close_after_write = r.c.close_after_write
    <3> HIDE DEF r
    <3> QED
      BY <2>3, <2>4 DEF ConnType
  <2>6. Continues(r.c, accepted', wire', conn')
    BY <2>5, SameStatus DEF Continues
  <2> QED
    BY <2>3, <2>6, TriedMoves
<1>10. CASE FlushBegin \/ UNCHANGED vars
  BY <1>10 DEF FlushBegin, history, vars, StreamMoves, StreamStep
<1>11. CASE FlushStep
  <2> DEFINE f == Head(conn.write_queue)
  <2>1. PICK k \in KernelAnswers(f.len) :
          LET r == FlushFrame(conn, k)
          IN  conn' = r.c /\ Emit(f, conn.write_queue_offset, r.n)
    BY <1>11 DEF FlushStep
  <2> DEFINE r == FlushFrame(conn, k)
  <2>2. conn.write_queue # <<>> /\ conn.open /\ accepted' = accepted
    BY <1>11 DEF FlushStep, IInv
  <2>3. /\ r.n \in Nat /\ ConnInv(r.c, accepted, wire + r.n)
        /\ r.c.close_after_write = conn.close_after_write /\ r.c.fd = Fd
    BY <1>0, <2>2, FlushFrameInv
  <2>4. conn' = r.c /\ wire' = wire + r.n
    BY <2>1 DEF Emit
  <2> HIDE DEF r, f
  <2>5. wire' \in wire..accepted
    BY <1>0, <2>3, <2>4 DEF ConnInv
  <2>6. StatusOf(conn) \in {"open", "draining"} /\ conn.fd = Fd
    BY <1>0, <2>2, StatusFacts DEF ConnInv, OpenInv
  <2>7. StatusOf(conn') \in {StatusOf(conn), "failed"}
    BY <2>2, <2>3, <2>4, <2>6 DEF StatusOf
  <2> QED
    BY <2>2, <2>5, <2>6, <2>7 DEF StreamMoves, StreamStep
<1>12. CASE FlushFinish
  <2>1. /\ conn.write_queue = <<>> /\ conn.open /\ conn' = FlushEnd(conn)
        /\ accepted' = accepted /\ wire' = wire
    BY <1>12 DEF FlushFinish, IInv, history
  <2>2. wire = accepted
    BY <1>0, <2>1, QueueTellsRest
  <2>3. StatusOf(conn) \in {"open", "draining"}
    BY <1>0, <2>1, StatusFacts
  <2> DEFINE u == [conn EXCEPT !.interest = IF conn.write_watched THEN @ \ {"write"} ELSE @,
                               !.write_watched = FALSE]
  <2>4. conn' = IF u.close_after_write THEN CloseSocket(u) ELSE u
    BY <2>1 DEF FlushEnd
  <2>5. /\ u \in ConnType /\ u.fd = conn.fd /\ u.open = conn.open
        /\ u.close_after_write = conn.close_after_write
    BY <1>0 DEF ConnType, Interests
  <2> HIDE DEF u
  <2>6. StatusOf(conn') \in {"closed", StatusOf(conn)}
    BY <2>4, <2>5, CloseSocketClosed, SameStatus DEF StatusOf
  <2> QED
    BY <1>0, <2>1, <2>2, <2>3, <2>6 DEF StreamMoves, StreamStep
<1>13. CASE Purge \/ Shutdown
  <2>1. conn' = CloseSocket(conn) /\ accepted' = accepted /\ wire' = wire
    BY <1>13 DEF Purge, Shutdown, history
  <2> QED
    BY <1>0, <2>1, CloseSocketClosed, AbortMoves
<1> QED
  BY <1>1, <1>2, <1>3, <1>4, <1>5, <1>6, <1>7, <1>8, <1>9, <1>10, <1>11, <1>12,
     <1>13 DEF Next

\* websocket_connection.c keeps the promise of module ByteStream: whatever the
\* callbacks, the heartbeat, the flushes and the system do, bytes go out in
\* order, a draining stream accepts nothing, and a stream that is neither
\* failed nor given up closes only when everything accepted has been delivered.
THEOREM StreamRefinement == Spec => ImplementsByteStream
<1>1. Init => Stream!BSInit
  <2> SUFFICES ASSUME Init PROVE Stream!BSInit
    OBVIOUS
  <2>1. conn.fd = Fd /\ conn.open /\ ~conn.close_after_write
    BY DEF Init, Opened
  <2> QED
    BY <2>1 DEF Init, Status, Fd, NoFd, Stream!BSInit
<1>2. IInv /\ [Next]_vars => [Stream!BSNext]_(Stream!bsvars)
  BY NextMoves, StreamStepIsNext DEF StreamMoves, IInv, ConnInv
<1> QED
  BY <1>1, <1>2, Invariance, PTL DEF Spec, ImplementsByteStream, Stream!BSSpec
=============================================================================
