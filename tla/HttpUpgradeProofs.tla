------------------------- MODULE HttpUpgradeProofs --------------------------
(***************************************************************************)
(* What the opening handshake keeps and what it answers, for every         *)
(* request, whatever follows it, every way in which the stream arrives in  *)
(* pieces and every read limit.                                            *)
(***************************************************************************)
EXTENDS HttpUpgrade, SequenceFacts

\* The units of this connection's stream.
Units == ToSet(request) \cup ToSet(tail) \cup {CR, LF}

Whole == Stream(request) \o tail

InHandshake == open /\ ~upgraded

\* The three places of the stream are sequences, and hold it.
PlacesInv ==
  /\ scene \in Scenes
  /\ buffer \in Seq(Units) /\ socket \in Seq(Units) /\ unsent \in Seq(Units)
  /\ open \in BOOLEAN /\ upgraded \in BOOLEAN
  /\ StreamIsKept

\* Where process_handshake() is says what it has done so far.
CourseInv ==
  /\ pc \in {"parse", "handshake", "finish"} => InHandshake
  /\ InHandshake => answer.status = 0
  /\ pc \in {"handshake", "finish"} =>
       parsed.bytes_consumed = Len(Stream(request)) /\ parsed.bytes_consumed <= Len(buffer)

UpgradeInv == PlacesInv /\ CourseInv

-----------------------------------------------------------------------------
(* The stream. *)

\* What Stream() is made of: its length, and the CR and LF at their places.
LEMMA StreamShape ==
  ASSUME NEW lines, lines \in Seq(ToSet(lines))
  PROVE  /\ Stream(lines) \in Seq(ToSet(lines) \cup {CR, LF})
         /\ Len(Stream(lines)) = 3 * Len(lines) + 2
         /\ \A k \in 1..(3 * Len(lines)) : k % 3 = 2 => Stream(lines)[k] = CR
         /\ \A k \in 1..(3 * Len(lines)) : k % 3 = 0 => Stream(lines)[k] = LF
         /\ Stream(lines)[3 * Len(lines) + 1] = CR
         /\ Stream(lines)[3 * Len(lines) + 2] = LF
<1> DEFINE n == Len(lines)
<1>1. n \in Nat /\ DOMAIN lines = 1..n
  BY LenProperties
<1>2. \A k \in 1..(3 * n) : ((k - 1) \div 3) + 1 \in 1..n /\ ((k - 1) % 3) + 1 \in 1..3
  BY <1>1, SMT
<1>3. \A i \in 1..n : lines[i] \in ToSet(lines)
  BY <1>1 DEF ToSet
<1>4. Stream(lines) = [k \in 1..(3 * n + 2) |->
        IF k > 3 * n THEN <<CR, LF>>[k - 3 * n]
        ELSE <<lines[((k - 1) \div 3) + 1], CR, LF>>[((k - 1) % 3) + 1]]
  BY DEF Stream
<1> DEFINE A == ToSet(lines) \cup {CR, LF}
<1>5. \A k \in 1..(3 * n + 2) : Stream(lines)[k] \in A
  <2> TAKE k \in 1..(3 * n + 2)
  <2>1. CASE k > 3 * n
    <3>1. k - 3 * n \in {1, 2}
      BY <1>1, <2>1
    <3>2. Stream(lines)[k] = <<CR, LF>>[k - 3 * n]
      BY <1>4, <2>1
    <3> QED
      BY <3>1, <3>2
  <2>2. CASE k <= 3 * n
    <3>1. k \in 1..(3 * n)
      BY <1>1, <2>2
    <3> DEFINE i == ((k - 1) \div 3) + 1
               j == ((k - 1) % 3) + 1
    <3>2. i \in 1..n /\ j \in {1, 2, 3}
      BY <1>2, <3>1
    <3>3. Stream(lines)[k] = <<lines[i], CR, LF>>[j]
      BY <1>1, <1>4, <2>2
    <3>4. lines[i] \in A
      BY <1>3, <3>2
    <3> HIDE DEF i, j
    <3> QED
      BY <3>2, <3>3, <3>4
  <2> QED
    BY <1>1, <2>1, <2>2
<1>6. Stream(lines) \in Seq(A) /\ Len(Stream(lines)) = 3 * n + 2
  <2> HIDE DEF A
  <2>1. 3 * n + 2 \in Nat /\ DOMAIN Stream(lines) = 1..(3 * n + 2)
    BY <1>1, <1>4
  <2>2. Stream(lines) \in [1..(3 * n + 2) -> A]
    BY <1>4, <1>5
  <2> HIDE DEF n
  <2> QED
    BY <2>1, <2>2
<1>7. ASSUME NEW k \in 1..(3 * n), k % 3 = 2
      PROVE  Stream(lines)[k] = CR
  <2>1. ((k - 1) % 3) + 1 = 2 /\ k <= 3 * n /\ k \in 1..(3 * n + 2)
    BY <1>1, <1>7
  <2> QED
    BY <1>1, <1>4, <2>1
<1>8. ASSUME NEW k \in 1..(3 * n), k % 3 = 0
      PROVE  Stream(lines)[k] = LF
  <2>1. ((k - 1) % 3) + 1 = 3 /\ k <= 3 * n /\ k \in 1..(3 * n + 2)
    BY <1>1, <1>8
  <2> QED
    BY <1>1, <1>4, <2>1
<1>9. Stream(lines)[3 * n + 1] = CR /\ Stream(lines)[3 * n + 2] = LF
  <2>1. /\ 3 * n + 1 \in 1..(3 * n + 2) /\ 3 * n + 2 \in 1..(3 * n + 2)
        /\ 3 * n + 1 > 3 * n /\ 3 * n + 2 > 3 * n
        /\ (3 * n + 1) - 3 * n = 1 /\ (3 * n + 2) - 3 * n = 2
    BY <1>1
  <2>2. Stream(lines)[3 * n + 1] = <<CR, LF>>[1] /\ Stream(lines)[3 * n + 2] = <<CR, LF>>[2]
    BY <1>4, <2>1
  <2> QED
    BY <2>2
<1> QED
  BY <1>6, <1>7, <1>8, <1>9

\* Four units of a buffer are an end of line and an empty line, or they are not.
LEMMA EndAt ==
  ASSUME NEW S, NEW buf \in Seq(S), NEW i \in 1..(Len(buf) - 3)
  PROVE  SubSeq(buf, i, i + 3) = <<CR, LF, CR, LF>> <=>
           buf[i] = CR /\ buf[i + 1] = LF /\ buf[i + 2] = CR /\ buf[i + 3] = LF
<1>1. Len(buf) \in Nat /\ i \in Nat
  BY LenProperties
<1> DEFINE four == SubSeq(buf, i, i + 3)
<1>2. \A k \in i..(i + 3) : buf[k] \in S
  BY <1>1, ElementOfSeq
<1>3. /\ four \in Seq(S) /\ Len(four) = 4
      /\ \A k \in 1..4 : four[k] = buf[i + k - 1]
  BY <1>1, <1>2, SubSeqProperties
<1>4. four[1] = buf[i] /\ four[2] = buf[i + 1] /\ four[3] = buf[i + 2] /\ four[4] = buf[i + 3]
  BY <1>1, <1>3
<1> HIDE DEF four
<1>5. four = <<four[1], four[2], four[3], four[4]>>
  BY <1>3
<1> QED
  BY <1>4, <1>5 DEF four

\* The first empty line of a stream, whatever the lines hold: find_header_end()
\* finds it as soon as the whole request has arrived, and not before.
LEMMA HeaderEnd ==
  ASSUME NEW lines, lines \in Seq(ToSet(lines)), lines # <<>>,
         NEW S, NEW buf \in Seq(S),
         \A k \in 1..Len(buf) : k <= Len(Stream(lines)) => buf[k] = Stream(lines)[k]
  PROVE  /\ Len(buf) < Len(Stream(lines)) => FindHeaderEnd(buf) = 0
         /\ Len(buf) >= Len(Stream(lines)) => FindHeaderEnd(buf) = Len(Stream(lines)) - 3
<1> DEFINE n == Len(lines)
           s == Stream(lines)
           m == Len(s)
           b == Len(buf)
           found == {i \in 1..(b - 3) : SubSeq(buf, i, i + 3) = <<CR, LF, CR, LF>>}
<1>1. n \in Nat /\ n >= 1 /\ b \in Nat /\ m = 3 * n + 2
  <2>1. n \in Nat /\ b \in Nat
    BY LenProperties
  <2>2. n # 0
    BY EmptySeq
  <2>3. m = 3 * n + 2
    BY StreamShape
  <2> QED
    BY <2>1, <2>2, <2>3
<1>2. FindHeaderEnd(buf) = IF found = {} THEN 0 ELSE Min(found)
  <2>1. Len(<<CR, LF, CR, LF>>) = 4
    OBVIOUS
  <2>2. b - 4 + 1 = b - 3 /\ \A i \in 1..(b - 3) : i + 4 - 1 = i + 3
    BY <1>1
  <2>3. found = {i \in 1..(b - Len(<<CR, LF, CR, LF>>) + 1) :
                   SubSeq(buf, i, i + Len(<<CR, LF, CR, LF>>) - 1) = <<CR, LF, CR, LF>>}
    BY <1>1, <2>1, <2>2
  <2> QED
    BY <2>3 DEF FindHeaderEnd, FirstAt
<1>3. CR # LF
  BY DEF CR, LF
<1>4. /\ \A k \in 1..(3 * n) : k % 3 = 2 => s[k] = CR
      /\ \A k \in 1..(3 * n) : k % 3 = 0 => s[k] = LF
      /\ s[3 * n + 1] = CR /\ s[3 * n + 2] = LF
  BY StreamShape
<1>5. \A k \in 1..b : k <= m => buf[k] = s[k]
  OBVIOUS
<1> HIDE DEF n, s, m, b
<1>6. ASSUME NEW i \in found
      PROVE  i \in Nat /\ i >= 3 * n - 1 /\ i + 3 <= b
  <2>1. /\ i \in 1..(b - 3)
        /\ buf[i] = CR /\ buf[i + 1] = LF /\ buf[i + 2] = CR /\ buf[i + 3] = LF
    BY EndAt DEF b
  <2>2. i \in Nat /\ i + 3 <= b
    BY <1>1, <2>1
  <2>3. SUFFICES ASSUME i < 3 * n - 1
                 PROVE  FALSE
    BY <1>1, <2>2
  <2>4. CASE i % 3 = 0
    <3>1. i \in 1..(3 * n) /\ i \in 1..b /\ i <= m
      BY <1>1, <2>1, <2>2, <2>3
    <3> QED
      BY <1>3, <1>4, <1>5, <2>1, <2>4, <3>1
  <2>5. CASE i % 3 = 1
    <3>1. i + 1 \in 1..(3 * n) /\ i + 1 \in 1..b /\ i + 1 <= m
      BY <1>1, <2>1, <2>2, <2>3
    <3>2. (i + 1) % 3 = 2
      BY <2>2, <2>5
    <3> QED
      BY <1>3, <1>4, <1>5, <2>1, <3>1, <3>2
  <2>6. CASE i % 3 = 2
    <3>1. i + 3 \in 1..(3 * n) /\ i + 3 \in 1..b /\ i + 3 <= m /\ (i + 3) % 3 = 2
      BY <1>1, <2>1, <2>2, <2>3, <2>6
    <3> QED
      BY <1>3, <1>4, <1>5, <2>1, <3>1
  <2> QED
    BY <2>2, <2>4, <2>5, <2>6
<1>7. CASE b < m
  <2>1. found = {}
    BY <1>1, <1>6, <1>7
  <2> QED
    BY <1>1, <1>2, <1>7, <2>1 DEF m, b, s
<1>8. CASE b >= m
  <2> DEFINE e == 3 * n - 1
  <2>1. /\ e \in 1..(b - 3) /\ e \in 1..(3 * n) /\ e % 3 = 2
        /\ e + 1 \in 1..(3 * n) /\ (e + 1) % 3 = 0
        /\ e + 2 = 3 * n + 1 /\ e + 3 = 3 * n + 2
        /\ e \in 1..b /\ e + 1 \in 1..b /\ e + 2 \in 1..b /\ e + 3 \in 1..b
        /\ e <= m /\ e + 1 <= m /\ e + 2 <= m /\ e + 3 <= m
    BY <1>1, <1>8
  <2>2. buf[e] = CR /\ buf[e + 1] = LF /\ buf[e + 2] = CR /\ buf[e + 3] = LF
    BY <1>4, <1>5, <2>1
  <2>3. e \in found
    BY <2>1, <2>2, EndAt DEF b
  <2>4. \A i \in found : e <= i
    BY <1>6
  <2>5. \A x \in found : (\A y \in found : x <= y) => x = e
    <3> SUFFICES ASSUME NEW x \in found, \A y \in found : x <= y
                 PROVE  x = e
      OBVIOUS
    <3>1. x <= e /\ e <= x /\ x \in Nat /\ e \in Nat
      BY <1>1, <1>6, <2>1, <2>3, <2>4
    <3> QED
      BY <3>1
  <2> HIDE DEF e, found
  <2>6. Min(found) = e
    BY <2>3, <2>4, <2>5 DEF Min
  <2> QED
    BY <1>1, <1>2, <1>8, <2>3, <2>6 DEF m, b, s, e
<1> QED
  BY <1>1, <1>7, <1>8 DEF m, b, s

\* A request that parses is taken from the buffer whole and alone.
LEMMA ParsedWhole ==
  ASSUME NEW lines, lines \in Seq(ToSet(lines)),
         NEW S, NEW buf \in Seq(S),
         \A k \in 1..Len(buf) : k <= Len(Stream(lines)) => buf[k] = Stream(lines)[k],
         ParseUpgrade(buf).result = "OK"
  PROVE  /\ ParseUpgrade(buf).bytes_consumed = Len(Stream(lines))
         /\ Len(Stream(lines)) <= Len(buf)
         /\ lines # <<>>
<1>1. /\ FindHeaderEnd(buf) # 0 /\ IsLine(buf[1])
      /\ ParseUpgrade(buf).bytes_consumed = FindHeaderEnd(buf) + 3
  BY DEF ParseUpgrade
<1>2. Len(buf) \in Nat /\ Len(Stream(lines)) \in Nat /\ Len(lines) \in Nat
  BY LenProperties, StreamShape
<1>3. Len(buf) >= 4
  <2> SUFFICES ASSUME Len(buf) < 4
               PROVE  FindHeaderEnd(buf) = 0
    BY <1>1, <1>2
  <2>1. 1..(Len(buf) - 4 + 1) = {}
    BY <1>2
  <2>2. Len(<<CR, LF, CR, LF>>) = 4
    OBVIOUS
  <2> DEFINE found == {i \in 1..(Len(buf) - Len(<<CR, LF, CR, LF>>) + 1) :
                         SubSeq(buf, i, i + Len(<<CR, LF, CR, LF>>) - 1) = <<CR, LF, CR, LF>>}
  <2>3. FindHeaderEnd(buf) = IF found = {} THEN 0 ELSE Min(found)
    BY DEF FindHeaderEnd, FirstAt
  <2>4. found = {}
    BY <2>1, <2>2
  <2> HIDE DEF found
  <2> QED
    BY <2>3, <2>4
<1>4. lines # <<>>
  <2> SUFFICES ASSUME lines = <<>>
               PROVE  buf[1] = CR
    BY <1>1 DEF IsLine, CR
  <2>1. Len(lines) = 0
    OBVIOUS
  <2>2. Len(Stream(lines)) = 3 * Len(lines) + 2 /\ Stream(lines)[3 * Len(lines) + 1] = CR
    BY StreamShape
  <2>3. 3 * Len(lines) + 2 = 2 /\ 3 * Len(lines) + 1 = 1
    BY <2>1
  <2> QED
    BY <1>2, <1>3, <2>2, <2>3
<1>5. CASE Len(buf) < Len(Stream(lines))
  BY <1>1, <1>4, <1>5, HeaderEnd
<1>6. CASE Len(buf) >= Len(Stream(lines))
  BY <1>1, <1>2, <1>4, <1>6, HeaderEnd
<1> QED
  BY <1>2, <1>4, <1>5, <1>6

-----------------------------------------------------------------------------
(* Sequences that are cut and joined; the provers see concatenation by its *)
(* laws alone.                                                             *)

Join(s, t) == s \o t
First(t, n) == SubSeq(t, 1, n)
Rest(t, n) == SubSeq(t, n + 1, Len(t))

\* Two sequences join to one.
LEMMA JoinSeq ==
  ASSUME NEW S, NEW s \in Seq(S), NEW t \in Seq(S)
  PROVE  Join(s, t) \in Seq(S)
  BY ConcatProperties DEF Join

\* The order of joining does not matter.
LEMMA JoinAssociative ==
  ASSUME NEW S, NEW s \in Seq(S), NEW t \in Seq(S), NEW u \in Seq(S)
  PROVE  Join(Join(s, t), u) = Join(s, Join(t, u))
  BY ConcatAssociative DEF Join

\* A sequence is joined of its beginning and its end.
LEMMA CutAndJoin ==
  ASSUME NEW S, NEW t \in Seq(S), NEW n \in 0..Len(t)
  PROVE  /\ First(t, n) \in Seq(S) /\ Len(First(t, n)) = n
         /\ Rest(t, n) \in Seq(S)
         /\ Join(First(t, n), Rest(t, n)) = t
<1>1. Len(t) \in Nat /\ n \in Nat
  BY LenProperties
<1>2. \A i \in 1..n : t[i] \in S
  BY <1>1, ElementOfSeq
<1>3. \A i \in (n + 1)..Len(t) : t[i] \in S
  BY <1>1, ElementOfSeq
<1>4. SubSeq(t, 1, n) \in Seq(S) /\ Len(SubSeq(t, 1, n)) = n
  BY <1>1, <1>2, SubSeqProperties
<1>5. SubSeq(t, n + 1, Len(t)) \in Seq(S)
  BY <1>1, <1>3, SubSeqProperties
<1>6. SubSeq(t, 1, n) \o SubSeq(t, n + 1, Len(t)) = t
  <2>1. 1 \in 1..(Len(t) + 1) /\ n \in (1 - 1)..Len(t) /\ Len(t) \in n..Len(t)
    BY <1>1
  <2>2. SubSeq(t, 1, n) \o SubSeq(t, n + 1, Len(t)) = SubSeq(t, 1, Len(t))
    BY <2>1, ConcatAdjacentSubSeq
  <2> QED
    BY <2>2, SubSeqFull
<1> QED
  BY <1>4, <1>5, <1>6 DEF Join, First, Rest

\* The beginning of t moves behind s: nothing is lost between them.
LEMMA MoveOver ==
  ASSUME NEW S, NEW s \in Seq(S), NEW t \in Seq(S), NEW n \in 0..Len(t),
         NEW s1, NEW t1, s1 = Join(s, First(t, n)), t1 = Rest(t, n)
  PROVE  s1 \in Seq(S) /\ t1 \in Seq(S) /\ Join(s1, t1) = Join(s, t)
<1> DEFINE a == First(t, n)
<1>1. a \in Seq(S) /\ t1 \in Seq(S) /\ Join(a, t1) = t
  BY CutAndJoin
<1>2. s1 = Join(s, a)
  OBVIOUS
<1> HIDE DEF a
<1>3. s1 \in Seq(S)
  BY <1>1, <1>2, JoinSeq
<1>4. Join(Join(s, a), t1) = Join(s, Join(a, t1))
  BY <1>1, JoinAssociative
<1> QED
  BY <1>1, <1>2, <1>3, <1>4

\* What is joined in another way behind b is the same behind b.
LEMMA JoinBehind ==
  ASSUME NEW S, NEW b \in Seq(S), NEW s \in Seq(S), NEW t \in Seq(S),
         NEW u \in Seq(S), NEW v \in Seq(S), Join(s, t) = Join(u, v)
  PROVE  Join(Join(b, s), t) = Join(Join(b, u), v)
  BY JoinAssociative

\* Beginnings of the same length can be taken off equal sequences.
LEMMA CancelLeft ==
  ASSUME NEW S, NEW s \in Seq(S), NEW t \in Seq(S), NEW u \in Seq(S), NEW v \in Seq(S),
         Join(s, t) = Join(u, v), Len(s) = Len(u)
  PROVE  t = v
<1>0. s \o t = u \o v
  BY DEF Join
<1>1. Len(s) \in Nat /\ Len(t) \in Nat /\ Len(u) \in Nat /\ Len(v) \in Nat
  BY LenProperties
<1>2. Len(s \o t) = Len(s) + Len(t) /\ Len(u \o v) = Len(u) + Len(v)
  BY ConcatProperties
<1>3. Len(t) = Len(v)
  BY <1>0, <1>1, <1>2
<1>4. ASSUME NEW i \in 1..Len(t)
      PROVE  t[i] = v[i]
  <2>1. /\ Len(s) + i \in 1..(Len(s) + Len(t)) /\ Len(u) + i \in 1..(Len(u) + Len(v))
        /\ ~(Len(s) + i <= Len(s)) /\ (Len(s) + i) - Len(s) = i
        /\ ~(Len(u) + i <= Len(u)) /\ (Len(u) + i) - Len(u) = i
    BY <1>1, <1>3
  <2>2. (s \o t)[Len(s) + i] = t[i]
    BY <2>1, ConcatProperties
  <2>3. (u \o v)[Len(u) + i] = v[i]
    BY <2>1, ConcatProperties
  <2> QED
    BY <1>0, <2>2, <2>3
<1> QED
  BY <1>3, <1>4, SeqEqual

\* When the head of a stream is taken off its first part, the rest remains.
LEMMA DropHead ==
  ASSUME NEW S, NEW b \in Seq(S), NEW s \in Seq(S), NEW t \in Seq(S),
         NEW r \in Seq(S), NEW v \in Seq(S), NEW d,
         Join(Join(b, s), t) = Join(r, v), Len(r) <= Len(b),
         d = Rest(b, Len(r))
  PROVE  d \in Seq(S) /\ Join(Join(d, s), t) = v
<1> DEFINE h == First(b, Len(r))
           w == Join(Join(d, s), t)
<1>1. Len(r) \in 0..Len(b)
  BY LenProperties
<1>2. h \in Seq(S) /\ Len(h) = Len(r) /\ d \in Seq(S) /\ Join(h, d) = b
  BY <1>1, CutAndJoin
<1> HIDE DEF h
<1>3. Join(d, s) \in Seq(S)
  BY <1>2, JoinSeq
<1>4. w \in Seq(S)
  BY <1>3, JoinSeq
<1>5. Join(b, s) = Join(h, Join(d, s))
  BY <1>2, JoinAssociative
<1>6. Join(Join(h, Join(d, s)), t) = Join(h, w)
  BY <1>2, <1>3, JoinAssociative
<1> HIDE DEF w
<1>7. Join(h, w) = Join(r, v)
  BY <1>5, <1>6
<1>8. w = v
  BY <1>2, <1>4, <1>7, CancelLeft
<1> QED
  BY <1>2, <1>8 DEF w

\* What StreamIsKept says, with Join.
Kept ==
  open => Join(Join(buffer, socket), unsent) = IF upgraded THEN tail ELSE Join(Stream(request), tail)

\* The property in terms of the opaque operators.
LEMMA KeptIsKept == StreamIsKept <=> Kept
  BY DEF StreamIsKept, Kept, Join

\* The stream and its parts are sequences of the connection's units.
LEMMA StreamTypes ==
  ASSUME scene \in Scenes
  PROVE  /\ request \in Seq(ToSet(request))
         /\ Stream(request) \in Seq(Units) /\ tail \in Seq(Units) /\ Whole \in Seq(Units)
<1>1. request \in Seq(ToSet(request)) /\ tail \in Seq(ToSet(tail))
  BY UpgradeAssumption DEF request, tail
<1>2. tail \in Seq(Units)
  BY <1>1, SeqMonotonic DEF Units
<1>3. Stream(request) \in Seq(ToSet(request) \cup {CR, LF})
  BY <1>1, StreamShape
<1>4. Stream(request) \in Seq(Units)
  BY <1>3, SeqMonotonic DEF Units
<1> QED
  BY <1>1, <1>2, <1>4, JoinSeq DEF Whole, Join

\* Until the upgrade the buffer is a beginning of the stream.
LEMMA BufferBegins ==
  ASSUME PlacesInv, InHandshake
  PROVE  \A k \in 1..Len(buffer) : k <= Len(Stream(request)) => buffer[k] = Stream(request)[k]
<1> SUFFICES ASSUME NEW k \in 1..Len(buffer), k <= Len(Stream(request))
             PROVE  buffer[k] = Stream(request)[k]
  OBVIOUS
<1> DEFINE rest == Join(socket, unsent)
<1>1. /\ buffer \in Seq(Units) /\ socket \in Seq(Units) /\ unsent \in Seq(Units)
      /\ Stream(request) \in Seq(Units) /\ tail \in Seq(Units)
  BY StreamTypes DEF PlacesInv
<1>2. rest \in Seq(Units)
  BY <1>1, JoinSeq
<1>3. buffer \o rest = Stream(request) \o tail
  <2>1. Join(Join(buffer, socket), unsent) = Join(Stream(request), tail)
    BY KeptIsKept DEF PlacesInv, InHandshake, Kept
  <2>2. Join(Join(buffer, socket), unsent) = Join(buffer, rest)
    BY <1>1, JoinAssociative
  <2>3. Join(buffer, rest) = Join(Stream(request), tail)
    BY <2>1, <2>2
  <2> HIDE DEF rest
  <2> QED
    BY <2>3 DEF Join
<1> HIDE DEF rest
<1>4. /\ Len(buffer) \in Nat /\ Len(rest) \in Nat
      /\ Len(Stream(request)) \in Nat /\ Len(tail) \in Nat
  BY <1>1, <1>2, LenProperties
<1>5. k \in 1..(Len(buffer) + Len(rest)) /\ k \in 1..(Len(Stream(request)) + Len(tail))
  BY <1>4
<1>6. k <= Len(buffer)
  BY <1>4
<1>7. (buffer \o rest)[k] = buffer[k]
  BY <1>1, <1>2, <1>5, <1>6, ConcatProperties
<1>8. (Stream(request) \o tail)[k] = Stream(request)[k]
  BY <1>1, <1>5, ConcatProperties
<1> QED
  BY <1>3, <1>7, <1>8

-----------------------------------------------------------------------------
(* The steps. *)

AnswerKept == answer.status # 0 => answer' = answer

StepOK == UpgradeInv' /\ AnswerKept

\* The stream of a connection does not change.
LEMMA SceneStays ==
  ASSUME scene' = scene
  PROVE  request' = request /\ tail' = tail /\ Units' = Units /\ Whole' = Whole
  BY DEF request, tail, Units, Whole

\* A step that leaves the stream where it is.
LEMMA PlacesStay ==
  ASSUME UpgradeInv, UNCHANGED <<scene, unsent, socket, buffer>>,
         open' \in BOOLEAN, upgraded' = upgraded, open' => open
  PROVE  PlacesInv'
  BY SceneStays DEF UpgradeInv, PlacesInv, StreamIsKept

\* Initially everything is still to be sent.
LEMMA InitUpgradeInv == Init => UpgradeInv
<1> SUFFICES ASSUME Init
             PROVE  UpgradeInv
  OBVIOUS
<1>1. /\ scene \in Scenes /\ unsent = Whole /\ socket = <<>> /\ buffer = <<>>
      /\ open = TRUE /\ upgraded = FALSE /\ pc = "wait" /\ answer = [status |-> 0]
  BY DEF Init, Whole
<1>2. Whole \in Seq(Units)
  BY <1>1, StreamTypes
<1>3. buffer \o socket \o unsent = Whole
  BY <1>1, <1>2
<1>4. <<>> \in Seq(Units)
  BY EmptySeq
<1> QED
  BY <1>1, <1>2, <1>3, <1>4 DEF UpgradeInv, PlacesInv, StreamIsKept, CourseInv, InHandshake, Whole

\* What the peer sends moves from the stream to the socket.
LEMMA PeerSendsStep ==
  ASSUME UpgradeInv, PeerSends
  PROVE  StepOK
<1>1. PICK n \in {s \in scene.sizes : s <= Len(unsent)} \cup {Len(unsent)} :
        /\ socket' = socket \o SubSeq(unsent, 1, n)
        /\ unsent' = SubSeq(unsent, n + 1, Len(unsent))
  BY DEF PeerSends
<1>2. scene' = scene /\ UNCHANGED <<buffer, open, upgraded, parsed, pc, answer>>
  BY DEF PeerSends
<1>3. /\ scene \in Scenes /\ buffer \in Seq(Units) /\ socket \in Seq(Units)
      /\ unsent \in Seq(Units)
  BY DEF UpgradeInv, PlacesInv
<1>4. n \in 0..Len(unsent)
  <2>1. Len(unsent) \in Nat
    BY <1>3, LenProperties
  <2>2. scene.sizes \subseteq Nat \ {0}
    BY <1>3, UpgradeAssumption
  <2> QED
    BY <2>1, <2>2
<1>5. socket' = Join(socket, First(unsent, n)) /\ unsent' = Rest(unsent, n)
  BY <1>1 DEF Join, First, Rest
<1>6. /\ socket' \in Seq(Units) /\ unsent' \in Seq(Units)
      /\ Join(socket', unsent') = Join(socket, unsent)
  BY <1>3, <1>4, <1>5, MoveOver
<1>7. Join(Join(buffer, socket'), unsent') = Join(Join(buffer, socket), unsent)
  BY <1>3, <1>6, JoinBehind
<1>8. PlacesInv'
  <2>1. Kept'
    BY <1>2, <1>7, SceneStays, KeptIsKept DEF UpgradeInv, PlacesInv, Kept
  <2>2. StreamIsKept'
    BY <2>1 DEF StreamIsKept, Kept, Join
  <2> QED
    BY <1>2, <1>3, <1>6, <2>2, SceneStays DEF UpgradeInv, PlacesInv
<1>9. CourseInv'
  BY <1>2, SceneStays DEF UpgradeInv, CourseInv, InHandshake
<1> QED
  BY <1>2, <1>8, <1>9 DEF StepOK, UpgradeInv, AnswerKept

\* recv() moves it from the socket to the buffer.
LEMMA RecvStep ==
  ASSUME UpgradeInv, Recv
  PROVE  StepOK
<1>1. /\ buffer' = buffer \o SubSeq(socket, 1, Arrived)
      /\ socket' = SubSeq(socket, Arrived + 1, Len(socket))
      /\ pc' = "parse" /\ open /\ ~upgraded
      /\ UNCHANGED <<scene, unsent, open, upgraded, parsed, answer>>
  BY DEF Recv, Receiving
<1>2. /\ scene \in Scenes /\ buffer \in Seq(Units) /\ socket \in Seq(Units)
      /\ unsent \in Seq(Units)
  BY DEF UpgradeInv, PlacesInv
<1>3. Arrived \in 0..Len(socket)
  <2>1. Len(socket) \in Nat
    BY <1>2, LenProperties
  <2> QED
    BY <2>1, UpgradeAssumption DEF Arrived
<1>4. /\ buffer' \in Seq(Units) /\ socket' \in Seq(Units)
      /\ Join(buffer', socket') = Join(buffer, socket)
  <2>1. buffer' = Join(buffer, First(socket, Arrived)) /\ socket' = Rest(socket, Arrived)
    BY <1>1 DEF Join, First, Rest
  <2> QED
    BY <1>2, <1>3, <2>1, MoveOver
<1>5. PlacesInv'
  <2>1. Kept'
    BY <1>1, <1>4, SceneStays, KeptIsKept DEF UpgradeInv, PlacesInv, Kept
  <2>2. StreamIsKept'
    BY <2>1 DEF StreamIsKept, Kept, Join
  <2> QED
    BY <1>1, <1>2, <1>4, <2>2, SceneStays DEF UpgradeInv, PlacesInv
<1>6. CourseInv'
  BY <1>1 DEF UpgradeInv, CourseInv, InHandshake
<1> QED
  BY <1>1, <1>5, <1>6 DEF StepOK, UpgradeInv, AnswerKept

\* A request above the limit is answered and ends the connection.
LEMMA RecvTooLargeStep ==
  ASSUME UpgradeInv, RecvTooLarge
  PROVE  StepOK
<1>1. /\ socket' = SubSeq(socket, Arrived + 1, Len(socket))
      /\ pc = "recv" /\ open /\ ~upgraded /\ open' = FALSE
      /\ UNCHANGED <<scene, unsent, buffer, upgraded, parsed, pc>>
  BY DEF RecvTooLarge, Receiving
<1>2. /\ scene \in Scenes /\ buffer \in Seq(Units) /\ socket \in Seq(Units)
      /\ unsent \in Seq(Units)
  BY DEF UpgradeInv, PlacesInv
<1>3. Arrived \in 0..Len(socket)
  <2>1. Len(socket) \in Nat
    BY <1>2, LenProperties
  <2> QED
    BY <2>1, UpgradeAssumption DEF Arrived
<1>4. socket' \in Seq(Units)
  BY <1>1, <1>2, <1>3, CutAndJoin DEF Rest
<1>5. PlacesInv'
  BY <1>1, <1>2, <1>4, SceneStays DEF UpgradeInv, PlacesInv, StreamIsKept
<1>6. CourseInv' /\ answer.status = 0
  BY <1>1 DEF UpgradeInv, CourseInv, InHandshake
<1> QED
  BY <1>5, <1>6 DEF StepOK, UpgradeInv, AnswerKept

\* Only a complete request is parsed, and the parser has found its end.
LEMMA ParseStep ==
  ASSUME UpgradeInv, Parse
  PROVE  StepOK
<1> DEFINE p == ParseUpgrade(buffer)
<1>1. pc = "parse" /\ UNCHANGED <<scene, unsent, socket, buffer, upgraded>>
  BY DEF Parse
<1>2. open /\ ~upgraded /\ InHandshake /\ answer.status = 0
  BY <1>1 DEF UpgradeInv, CourseInv, InHandshake
<1>3. \/ /\ pc' = "recv" /\ UNCHANGED <<open, parsed, answer>>
      \/ /\ open' = FALSE /\ pc' = "recv" /\ UNCHANGED parsed
      \/ /\ p.result = "OK" /\ parsed' = p /\ pc' \in {"handshake", "finish"}
         /\ UNCHANGED <<open, answer>>
  BY DEF Parse
<1>4. p.result = "OK" => p.bytes_consumed = Len(Stream(request)) /\ p.bytes_consumed <= Len(buffer)
  <2> SUFFICES ASSUME p.result = "OK"
               PROVE  p.bytes_consumed = Len(Stream(request)) /\ p.bytes_consumed <= Len(buffer)
    OBVIOUS
  <2>1. PlacesInv /\ scene \in Scenes /\ buffer \in Seq(Units)
    BY DEF UpgradeInv, PlacesInv
  <2>2. request \in Seq(ToSet(request))
    BY <2>1, StreamTypes
  <2>3. \A k \in 1..Len(buffer) : k <= Len(Stream(request)) => buffer[k] = Stream(request)[k]
    BY <1>2, <2>1, BufferBegins
  <2> QED
    BY <2>1, <2>2, <2>3, ParsedWhole
<1> HIDE DEF p
<1>5. open' \in BOOLEAN
  BY <1>2, <1>3
<1>6. PlacesInv'
  BY <1>1, <1>2, <1>5, PlacesStay
<1>7. CourseInv'
  BY <1>1, <1>2, <1>3, <1>4, SceneStays DEF CourseInv, InHandshake
<1> QED
  BY <1>2, <1>6, <1>7 DEF StepOK, UpgradeInv, AnswerKept

\* The answer is given, and the request taken from the buffer as a whole.
LEMMA FinishUpgradeStep ==
  ASSUME UpgradeInv, FinishUpgrade
  PROVE  StepOK
<1>1. pc = "finish" /\ UNCHANGED <<scene, unsent, socket, parsed>>
  BY DEF FinishUpgrade
<1>2. /\ open /\ ~upgraded /\ answer.status = 0
      /\ parsed.bytes_consumed = Len(Stream(request)) /\ Len(Stream(request)) <= Len(buffer)
  BY <1>1 DEF UpgradeInv, CourseInv, InHandshake
<1>3. CASE open' = FALSE /\ pc' = "recv" /\ UNCHANGED <<buffer, upgraded>>
  <2>1. PlacesInv'
    BY <1>1, <1>2, <1>3, PlacesStay
  <2>2. CourseInv'
    BY <1>3 DEF CourseInv, InHandshake
  <2> QED
    BY <1>2, <2>1, <2>2 DEF StepOK, UpgradeInv, AnswerKept
<1>4. CASE /\ upgraded' = TRUE /\ buffer' = DiscardReadBytes(parsed.bytes_consumed)
           /\ pc' = "opening" /\ UNCHANGED open
  <2>1. /\ scene \in Scenes
        /\ buffer \in Seq(Units) /\ socket \in Seq(Units) /\ unsent \in Seq(Units)
        /\ Join(Join(buffer, socket), unsent) = Join(Stream(request), tail)
    BY <1>2, KeptIsKept DEF UpgradeInv, PlacesInv, Kept
  <2>2. Stream(request) \in Seq(Units) /\ tail \in Seq(Units)
    BY <2>1, StreamTypes
  <2>3. buffer' = Rest(buffer, Len(Stream(request)))
    BY <1>2, <1>4 DEF DiscardReadBytes, Rest
  <2>4. buffer' \in Seq(Units) /\ Join(Join(buffer', socket), unsent) = tail
    BY <1>2, <2>1, <2>2, <2>3, DropHead
  <2>5. PlacesInv'
    <3>1. Kept'
      BY <1>1, <1>4, <2>4, SceneStays DEF Kept
    <3>2. StreamIsKept'
      BY <3>1 DEF StreamIsKept, Kept, Join
    <3> QED
      BY <1>1, <1>2, <1>4, <2>1, <2>4, <3>2, SceneStays DEF PlacesInv
  <2>6. CourseInv'
    BY <1>4 DEF CourseInv, InHandshake
  <2> QED
    BY <1>2, <2>5, <2>6 DEF StepOK, UpgradeInv, AnswerKept
<1> QED
  BY <1>3, <1>4 DEF FinishUpgrade

\* The steps that only close the connection, or move on in the handshake.
LEMMA OtherSteps ==
  ASSUME UpgradeInv,
         \/ PeerCloses \/ VisitExpires \/ Visit \/ RecvEnd \/ RecvAgain \/ HandshakeReturns \/ HandshakeRejects \/ HandshakeThrows
         \/ OpenReturns \/ OpenEnds
  PROVE  StepOK
<1>1. CASE PeerCloses
  <2>1. PlacesInv'
    BY <1>1, PlacesStay DEF PeerCloses, UpgradeInv, PlacesInv
  <2>2. CourseInv' /\ AnswerKept
    BY <1>1, SceneStays DEF PeerCloses, UpgradeInv, CourseInv, InHandshake, AnswerKept
  <2> QED
    BY <2>1, <2>2 DEF StepOK, UpgradeInv
<1>2. CASE RecvEnd \/ VisitExpires
  <2>1. PlacesInv'
    BY <1>2, PlacesStay DEF RecvEnd, VisitExpires
  <2>2. CourseInv' /\ AnswerKept
    BY <1>2 DEF RecvEnd, VisitExpires, CourseInv, InHandshake, AnswerKept
  <2> QED
    BY <2>1, <2>2 DEF StepOK, UpgradeInv
<1>8. CASE RecvAgain \/ Visit
  <2>1. PlacesInv'
    BY <1>8, PlacesStay DEF RecvAgain, Visit, UpgradeInv, PlacesInv
  <2>2. CourseInv' /\ AnswerKept
    BY <1>8, SceneStays DEF RecvAgain, Visit, UpgradeInv, CourseInv, InHandshake, AnswerKept
  <2> QED
    BY <2>1, <2>2 DEF StepOK, UpgradeInv
<1>3. CASE HandshakeReturns
  <2>1. PlacesInv'
    BY <1>3, PlacesStay DEF HandshakeReturns, UpgradeInv, PlacesInv
  <2>2. CourseInv' /\ AnswerKept
    BY <1>3, SceneStays DEF HandshakeReturns, UpgradeInv, CourseInv, InHandshake, AnswerKept
  <2> QED
    BY <2>1, <2>2 DEF StepOK, UpgradeInv
<1>4. CASE HandshakeRejects
  <2>1. /\ pc = "handshake" /\ open' = FALSE /\ pc' = "recv"
        /\ UNCHANGED <<scene, unsent, socket, buffer, upgraded>>
    BY <1>4 DEF HandshakeRejects
  <2>2. PlacesInv'
    BY <2>1, PlacesStay
  <2>3. CourseInv' /\ AnswerKept
    BY <2>1 DEF UpgradeInv, CourseInv, InHandshake, AnswerKept
  <2> QED
    BY <2>2, <2>3 DEF StepOK, UpgradeInv
<1>5. CASE HandshakeThrows
  <2>1. PlacesInv'
    BY <1>5, PlacesStay DEF HandshakeThrows, UpgradeInv, PlacesInv
  <2>2. CourseInv' /\ AnswerKept
    BY <1>5, SceneStays DEF HandshakeThrows, UpgradeInv, CourseInv, InHandshake, AnswerKept
  <2> QED
    BY <2>1, <2>2 DEF StepOK, UpgradeInv
<1>6. CASE OpenReturns
  <2>1. PlacesInv'
    BY <1>6, PlacesStay DEF OpenReturns, UpgradeInv, PlacesInv
  <2>2. CourseInv' /\ AnswerKept
    BY <1>6, SceneStays DEF OpenReturns, UpgradeInv, CourseInv, InHandshake, AnswerKept
  <2> QED
    BY <2>1, <2>2 DEF StepOK, UpgradeInv
<1>7. CASE OpenEnds
  <2>1. PlacesInv'
    BY <1>7, PlacesStay DEF OpenEnds
  <2>2. CourseInv' /\ AnswerKept
    BY <1>7 DEF OpenEnds, CourseInv, InHandshake, AnswerKept
  <2> QED
    BY <2>1, <2>2 DEF StepOK, UpgradeInv
<1> QED
  BY <1>1, <1>2, <1>3, <1>4, <1>5, <1>6, <1>7, <1>8

\* Every step of the connection, and none.
LEMMA UpgradeStep ==
  ASSUME UpgradeInv, [Next]_upgradeVars
  PROVE  UpgradeInv' /\ [answer.status # 0 => answer' = answer]_upgradeVars
<1>1. CASE UNCHANGED upgradeVars
  BY <1>1 DEF upgradeVars, UpgradeInv, PlacesInv, CourseInv, StreamIsKept, InHandshake,
              Units, request, tail
<1>2. CASE Next
  <2>1. StepOK
    BY <1>2, PeerSendsStep, RecvStep, RecvTooLargeStep, ParseStep, FinishUpgradeStep, OtherSteps
       DEF Next, ServerSteps
  <2> QED
    BY <2>1 DEF StepOK, AnswerKept
<1> QED
  BY <1>1, <1>2

\* UpgradeInv holds in every state of the handshake.
THEOREM UpgradeInvariance == Spec => []UpgradeInv
<1>1. Init => UpgradeInv
  BY InitUpgradeInv
<1>2. UpgradeInv /\ [Next]_upgradeVars => UpgradeInv'
  BY UpgradeStep
<1> QED
  BY <1>1, <1>2, PTL DEF Spec

(***************************************************************************)
(* No byte of the stream is lost by the handshake: for every request,      *)
(* every tail and every cut into pieces, the upgrade takes exactly the     *)
(* request from the buffer (find_header_end(), bytes_consumed,             *)
(* discard_read_bytes()).                                                  *)
(***************************************************************************)
THEOREM NothingIsLost == Spec => []StreamIsKept
<1>1. UpgradeInv => StreamIsKept
  BY DEF UpgradeInv, PlacesInv
<1> QED
  BY <1>1, UpgradeInvariance, PTL

(***************************************************************************)
(* A connection is answered once: after a 400 or a rejection nothing else  *)
(* is written, and 101 is the last the handshake writes.                   *)
(***************************************************************************)
THEOREM OneAnswer == Spec => AnsweredOnce
<1>1. UpgradeInv /\ [Next]_upgradeVars => [answer.status # 0 => answer' = answer]_upgradeVars
  BY UpgradeStep
<1> QED
  BY <1>1, UpgradeInvariance, PTL DEF Spec, AnsweredOnce

-----------------------------------------------------------------------------
(* The headers of a request, one after the other. *)

\* The header at position i has this name.
IsNamed(name, i) == i >= 2 /\ HasColon(request[i]) /\ Lower(request[i].name) = name

\* What Named(), ValuesOf(), LastOf() and Agreed are of the first n lines.
NamedTo(name, n) == {i \in 2..n : IsNamed(name, i)}
ValuesAt(name, i) == IF IsNamed(name, i) THEN request[i].parts ELSE <<>>
ValuesTo(name, n) == FlattenSeq([i \in 1..n |-> ValuesAt(name, i)])
LastTo(name, n) == request[Max(NamedTo(name, n))].parts

FirstWanted(tokens) ==
  LET wanted == {k \in 1..Len(tokens) : tokens[k] \in Supported}
  IN  IF wanted = {} THEN None ELSE tokens[Min(wanted)]

UpgradeTo(n) == NamedTo("upgrade", n) # {} /\ ContainsToken(LastTo("upgrade", n), "websocket")
ConnectionTo(n) == NamedTo("connection", n) # {} /\ ContainsToken(LastTo("connection", n), "upgrade")
VersionTo(n) == NamedTo("sec-websocket-version", n) # {} /\ LastTo("sec-websocket-version", n) = <<"13">>

OneKey(keys) == \E k \in keys : keys = {k} /\ ValidateKey(request[k].parts)
AcceptOf(keys) ==
  IF keys = {} THEN <<None>> ELSE IF OneKey(keys) THEN AcceptKey(request[Max(keys)].parts[1]) ELSE <<Bad>>

SelectedOf(tokens) == IF ToSet(tokens) \subseteq ValidTokens THEN FirstWanted(tokens) ELSE Bad

\* p holds what the first n lines say.
Fields == {"upgrade", "connection", "version", "accept", "selected", "headers"}
HeadersTo(headers, n) ==
  \A name : /\ name \in DOMAIN headers => headers[name] = ValuesTo(name, n)
            /\ name \notin DOMAIN headers => ValuesTo(name, n) = <<>> /\ NamedTo(name, n) = {}
ReadTo(p, n) ==
  /\ DOMAIN p = Fields
  /\ p.upgrade = UpgradeTo(n) /\ p.connection = ConnectionTo(n) /\ p.version = VersionTo(n)
  /\ p.accept = AcceptOf(NamedTo("sec-websocket-key", n))
  /\ p.selected = SelectedOf(ValuesTo("sec-websocket-protocol", n))
  /\ HeadersTo(p.headers, n)

\* The headers of one name, with one line more.
LEMMA NamedNext ==
  ASSUME NEW name, NEW n \in Nat, n >= 1
  PROVE  /\ IsNamed(name, n + 1) => /\ NamedTo(name, n + 1) = NamedTo(name, n) \cup {n + 1}
                                    /\ Max(NamedTo(name, n + 1)) = n + 1
         /\ ~IsNamed(name, n + 1) => NamedTo(name, n + 1) = NamedTo(name, n)
         /\ n + 1 \notin NamedTo(name, n)
<1>1. n + 1 \notin NamedTo(name, n)
  BY DEF NamedTo
<1>2. ASSUME ~IsNamed(name, n + 1)
      PROVE  NamedTo(name, n + 1) = NamedTo(name, n)
  <2>1. 2..(n + 1) = (2..n) \cup {n + 1}
    OBVIOUS
  <2> QED
    BY <1>2, <2>1 DEF NamedTo
<1>3. ASSUME IsNamed(name, n + 1)
      PROVE  /\ NamedTo(name, n + 1) = NamedTo(name, n) \cup {n + 1}
             /\ Max(NamedTo(name, n + 1)) = n + 1
  <2> DEFINE T == NamedTo(name, n + 1)
  <2>1. 2..(n + 1) = (2..n) \cup {n + 1}
    OBVIOUS
  <2>2. T = NamedTo(name, n) \cup {n + 1}
    BY <1>3, <2>1 DEF NamedTo
  <2>3. n + 1 \in T /\ \A y \in T : y \in Nat /\ y <= n + 1
    BY <2>2 DEF NamedTo
  <2> HIDE DEF T
  <2>4. Max(T) \in T /\ \A y \in T : Max(T) >= y
    BY <2>3 DEF Max
  <2>5. Max(T) = n + 1
    BY <2>3, <2>4
  <2> QED
    BY <2>2, <2>5 DEF T
<1> QED
  BY <1>1, <1>2, <1>3

\* The parts of all values of this connection's request.
AllParts == UNION {ToSet(request[i].parts) : i \in {j \in 1..Len(request) : HasColon(request[j])}}

\* A header's value is a sequence of parts.
LEMMA PartsAreParts ==
  ASSUME scene \in Scenes, NEW i \in 1..Len(request), HasColon(request[i])
  PROVE  request[i].parts \in Seq(AllParts)
<1>1. request[i] \in ToSet(request)
  <2>1. request \in Seq(ToSet(request))
    BY StreamTypes
  <2> QED
    BY <2>1 DEF ToSet
<1>2. request[i].parts \in Seq(ToSet(request[i].parts))
  BY <1>1, UpgradeAssumption DEF request
<1>3. ToSet(request[i].parts) \subseteq AllParts
  BY DEF AllParts
<1> QED
  BY <1>2, <1>3, SeqMonotonic

\* The values of one name are parts.
LEMMA ValuesType ==
  ASSUME scene \in Scenes, NEW name, NEW n \in Nat, n <= Len(request)
  PROVE  /\ [i \in 1..n |-> ValuesAt(name, i)] \in Seq(Seq(AllParts))
         /\ \A i \in 1..n : ValuesAt(name, i) \in Seq(AllParts)
         /\ ValuesTo(name, n) \in Seq(AllParts)
<1>1. Len(request) \in Nat
  BY StreamTypes, LenProperties
<1>2. \A i \in 1..n : ValuesAt(name, i) \in Seq(AllParts)
  <2> TAKE i \in 1..n
  <2>1. CASE IsNamed(name, i)
    <3>1. i \in 1..Len(request) /\ HasColon(request[i])
      BY <1>1, <2>1 DEF IsNamed
    <3> QED
      BY <2>1, <3>1, PartsAreParts DEF ValuesAt
  <2>2. CASE ~IsNamed(name, i)
    BY <2>2, EmptySeq DEF ValuesAt
  <2> QED
    BY <2>1, <2>2
<1> DEFINE s == [i \in 1..n |-> ValuesAt(name, i)]
<1>3. s \in Seq(Seq(AllParts))
  <2>1. s \in [1..n -> Seq(AllParts)]
    BY <1>2
  <2> QED
    BY <2>1
<1>4. FlattenSeq(s) = ValuesTo(name, n)
  BY DEF ValuesTo
<1> HIDE DEF s
<1>5. FlattenSeq(s) \in Seq(AllParts)
  BY <1>3, FlattenType
<1> QED
  BY <1>2, <1>3, <1>4, <1>5 DEF s

\* The values of one name, with one line more.
LEMMA ValuesNext ==
  ASSUME scene \in Scenes, NEW name, NEW n \in Nat, n + 1 <= Len(request)
  PROVE  /\ ValuesTo(name, n) \in Seq(AllParts)
         /\ ValuesTo(name, n + 1) = ValuesTo(name, n) \o ValuesAt(name, n + 1)
         /\ ValuesAt(name, n + 1) \in Seq(AllParts)
         /\ ~IsNamed(name, n + 1) => ValuesTo(name, n + 1) = ValuesTo(name, n)
<1> DEFINE s == [i \in 1..n |-> ValuesAt(name, i)]
           t == [i \in 1..(n + 1) |-> ValuesAt(name, i)]
<1>1. Len(request) \in Nat
  BY StreamTypes, LenProperties
<1>2. n <= Len(request) /\ n + 1 \in Nat /\ n + 1 \in 1..(n + 1)
  BY <1>1
<1>3. /\ s \in Seq(Seq(AllParts)) /\ ValuesTo(name, n) \in Seq(AllParts)
      /\ t \in Seq(Seq(AllParts)) /\ ValuesAt(name, n + 1) \in Seq(AllParts)
  BY <1>2, ValuesType
<1>4. /\ Len(s) = n /\ Len(t) = n + 1 /\ \A i \in 1..n : t[i] = s[i]
      /\ t[n + 1] = ValuesAt(name, n + 1)
  BY <1>2
<1>5. FlattenSeq(s) = ValuesTo(name, n) /\ FlattenSeq(t) = ValuesTo(name, n + 1)
  BY DEF ValuesTo
<1> HIDE DEF s, t
<1>6. FlattenSeq(t) = FlattenSeq(s) \o t[n + 1]
  BY <1>3, <1>4, FlattenNext
<1>7. ASSUME ~IsNamed(name, n + 1)
      PROVE  ValuesTo(name, n) \o ValuesAt(name, n + 1) = ValuesTo(name, n)
  BY <1>3, <1>7, ConcatEmptySeq DEF ValuesAt
<1> QED
  BY <1>3, <1>4, <1>5, <1>6, <1>7

\* q is p after the header of this name and value.
HeaderRead(q, p, name, parts) ==
  /\ DOMAIN q = Fields
  /\ q.headers = AddHeader(p.headers, name, parts)
  /\ q.upgrade = IF name = "upgrade" THEN ContainsToken(parts, "websocket") ELSE p.upgrade
  /\ q.connection = IF name = "connection" THEN ContainsToken(parts, "upgrade") ELSE p.connection
  /\ q.version = IF name = "sec-websocket-version" THEN parts = <<"13">> ELSE p.version
  /\ q.accept = IF name # "sec-websocket-key" THEN p.accept
                ELSE IF p.accept = <<None>> /\ ValidateKey(parts) THEN AcceptKey(parts[1])
                ELSE <<Bad>>
  /\ q.selected = IF name # "sec-websocket-protocol" \/ p.selected = Bad THEN p.selected
                  ELSE IF ToSet(parts) \subseteq ValidTokens THEN SelectSubprotocol(p.selected, parts)
                  ELSE Bad

\* One turn of the loop over the headers.
LEMMA ReadHeaderFields ==
  ASSUME NEW p, DOMAIN p = Fields, NEW line
  PROVE  HeaderRead(ReadHeader(p, line), p, Lower(line.name), line.parts)
<1>0. PICK q : q = ReadHeader(p, line)
  OBVIOUS
<1> DEFINE name == Lower(line.name)
<1>1. DOMAIN q = Fields
  BY <1>0 DEF ReadHeader
<1>2. q.headers = AddHeader(p.headers, name, line.parts)
  BY <1>0 DEF ReadHeader, Fields
<1>3. q.upgrade = IF name = "upgrade" THEN ContainsToken(line.parts, "websocket") ELSE p.upgrade
  BY <1>0 DEF ReadHeader, Fields
<1>4. q.connection = IF name = "connection" THEN ContainsToken(line.parts, "upgrade") ELSE p.connection
  BY <1>0 DEF ReadHeader, Fields
<1>5. q.version = IF name = "sec-websocket-version" THEN line.parts = <<"13">> ELSE p.version
  BY <1>0 DEF ReadHeader, Fields
<1>6. q.accept = IF name # "sec-websocket-key" THEN p.accept
                 ELSE IF p.accept = <<None>> /\ ValidateKey(line.parts) THEN AcceptKey(line.parts[1])
                 ELSE <<Bad>>
  BY <1>0 DEF ReadHeader, Fields
<1>7. q.selected = IF name # "sec-websocket-protocol" \/ p.selected = Bad THEN p.selected
                   ELSE IF ToSet(line.parts) \subseteq ValidTokens
                        THEN SelectSubprotocol(p.selected, line.parts)
                   ELSE Bad
  BY <1>0 DEF ReadHeader, Fields
<1> QED
  BY <1>0, <1>1, <1>2, <1>3, <1>4, <1>5, <1>6, <1>7 DEF HeaderRead

\* Of two lists of tokens in a row, the first wanted token is the first list's,
\* or else the second's: headers of one name count as one (select_subprotocol()).
LEMMA SelectNext ==
  ASSUME NEW S, NEW s \in Seq(S), NEW t \in Seq(S)
  PROVE  SelectSubprotocol(FirstWanted(s), t) = FirstWanted(s \o t)
<1> DEFINE W(u) == {k \in 1..Len(u) : u[k] \in Supported}
           st == s \o t
<1>1. Len(s) \in Nat /\ Len(t) \in Nat
  BY LenProperties
<1>2. /\ Len(st) = Len(s) + Len(t)
      /\ \A i \in 1..(Len(s) + Len(t)) : st[i] = IF i <= Len(s) THEN s[i] ELSE t[i - Len(s)]
  BY ConcatProperties
<1> HIDE DEF st
<1>3. W(s) \subseteq Nat /\ W(t) \subseteq Nat /\ W(st) \subseteq Nat
  BY <1>1, <1>2
<1>4. FirstWanted(s) = IF W(s) = {} THEN None ELSE s[Min(W(s))]
  BY DEF FirstWanted
<1>5. FirstWanted(st) = IF W(st) = {} THEN None ELSE st[Min(W(st))]
  BY DEF FirstWanted
<1>6. SelectSubprotocol(FirstWanted(s), t) =
        IF FirstWanted(s) # None \/ W(t) = {} THEN FirstWanted(s) ELSE t[Min(W(t))]
  <2> DEFINE first == SelectInSeq(t, LAMBDA part : part \in Supported)
  <2>1. first = IF W(t) # {} THEN Min(W(t)) ELSE 0
    BY DEF SelectInSeq
  <2>2. W(t) # {} => Min(W(t)) # 0
    <3>1. ASSUME W(t) # {} PROVE Min(W(t)) \in W(t)
      <4> HIDE DEF W
      <4> QED
        BY <1>3, <3>1, MinIsLeast
    <3> QED
      BY <1>1, <3>1
  <2>3. SelectSubprotocol(FirstWanted(s), t) =
          IF FirstWanted(s) # None \/ first = 0 THEN FirstWanted(s) ELSE t[first]
    BY DEF SelectSubprotocol
  <2> HIDE DEF first, W
  <2> QED
    BY <2>1, <2>2, <2>3
<1>7. CASE W(s) # {}
  <2> DEFINE m == Min(W(s))
  <2>1. m \in W(s) /\ \A y \in W(s) : m <= y
    <3> HIDE DEF W
    <3> QED
      BY <1>3, <1>7, MinIsLeast
  <2>2. m \in 1..Len(s) /\ s[m] \in Supported
    BY <2>1
  <2> HIDE DEF m
  <2>3. m \in W(st) /\ st[m] = s[m]
    BY <1>1, <1>2, <2>2
  <2>4. \A y \in W(st) : m <= y
    <3> TAKE y \in W(st)
    <3>1. CASE y <= Len(s)
      <4>1. y \in W(s)
        BY <1>1, <1>2, <3>1
      <4> QED
        BY <2>1, <4>1
    <3>2. CASE ~(y <= Len(s))
      BY <1>1, <1>2, <2>2, <3>2
    <3> QED
      BY <3>1, <3>2
  <2>5. Min(W(st)) = m
    <3> HIDE DEF W
    <3> QED
      BY <1>3, <2>3, <2>4, MinOfSet
  <2>6. FirstWanted(s) = s[m] /\ FirstWanted(st) = s[m]
    BY <1>4, <1>5, <1>7, <2>3, <2>5 DEF m
  <2>7. s[m] # None
    BY <2>2, UpgradeAssumption
  <2> QED
    BY <1>6, <2>6, <2>7 DEF st
<1>8. CASE W(s) = {} /\ W(t) = {}
  <2>1. W(st) = {}
    <3> SUFFICES ASSUME NEW y \in W(st) PROVE FALSE
      OBVIOUS
    <3>1. CASE y <= Len(s)
      <4>1. y \in W(s)
        BY <1>1, <1>2, <3>1
      <4> QED
        BY <1>8, <4>1
    <3>2. CASE ~(y <= Len(s))
      <4>1. y - Len(s) \in W(t)
        BY <1>1, <1>2, <3>2
      <4> QED
        BY <1>8, <4>1
    <3> QED
      BY <3>1, <3>2
  <2> HIDE DEF W
  <2> QED
    BY <1>4, <1>5, <1>6, <1>8, <2>1 DEF st
<1>9. CASE W(s) = {} /\ W(t) # {}
  <2> DEFINE m == Min(W(t))
  <2>1. m \in W(t) /\ \A y \in W(t) : m <= y
    <3> HIDE DEF W
    <3> QED
      BY <1>3, <1>9, MinIsLeast
  <2>2. m \in 1..Len(t) /\ t[m] \in Supported
    BY <2>1
  <2> HIDE DEF m
  <2> DEFINE x == Len(s) + m
  <2>3. x \in W(st) /\ st[x] = t[m]
    <3>1. x \in 1..(Len(s) + Len(t)) /\ ~(x <= Len(s)) /\ x - Len(s) = m
      BY <1>1, <2>2
    <3> HIDE DEF x
    <3> QED
      BY <1>2, <2>2, <3>1
  <2>4. \A y \in W(st) : x <= y
    <3> TAKE y \in W(st)
    <3>1. CASE y <= Len(s)
      <4>1. y \in W(s)
        BY <1>1, <1>2, <3>1
      <4> QED
        BY <1>9, <4>1
    <3>2. CASE ~(y <= Len(s))
      <4>1. y - Len(s) \in W(t) /\ y \in Nat
        BY <1>1, <1>2, <3>2
      <4>2. m <= y - Len(s) /\ m \in Nat
        BY <2>1, <2>2, <4>1
      <4> QED
        BY <1>1, <4>1, <4>2
    <3> QED
      BY <3>1, <3>2
  <2> HIDE DEF x
  <2>5. Min(W(st)) = x
    <3> HIDE DEF W
    <3> QED
      BY <1>3, <2>3, <2>4, MinOfSet
  <2> HIDE DEF W
  <2> QED
    BY <1>4, <1>5, <1>6, <1>9, <2>3, <2>5 DEF st, m
<1> QED
  BY <1>7, <1>8, <1>9

\* The first wanted token is a supported one, or none.
LEMMA WantedIsGood ==
  ASSUME NEW S, NEW s \in Seq(S)
  PROVE  FirstWanted(s) # Bad
<1> DEFINE wanted == {k \in 1..Len(s) : s[k] \in Supported}
<1>1. FirstWanted(s) = IF wanted = {} THEN None ELSE s[Min(wanted)]
  BY DEF FirstWanted
<1>2. ASSUME wanted # {} PROVE s[Min(wanted)] \in Supported
  <2>1. wanted \subseteq Nat
    OBVIOUS
  <2>2. Min(wanted) \in wanted
    <3> HIDE DEF wanted
    <3> QED
      BY <1>2, <2>1, MinIsLeast
  <2> QED
    BY <2>2
<1>3. None # Bad
  BY DEF None, Bad
<1> QED
  BY <1>1, <1>2, <1>3, UpgradeAssumption

\* The selection of one list of tokens more.
LEMMA SelectedNext ==
  ASSUME NEW S, NEW s \in Seq(S), NEW t \in Seq(S)
  PROVE  SelectedOf(s \o t) = IF SelectedOf(s) = Bad THEN Bad
                              ELSE IF ToSet(t) \subseteq ValidTokens THEN SelectSubprotocol(SelectedOf(s), t)
                              ELSE Bad
<1>1. Len(s) \in Nat /\ Len(t) \in Nat /\ DOMAIN s = 1..Len(s) /\ DOMAIN t = 1..Len(t)
  BY LenProperties
<1>2. /\ s \o t \in Seq(S) /\ Len(s \o t) = Len(s) + Len(t)
      /\ \A i \in 1..(Len(s) + Len(t)) : (s \o t)[i] = IF i <= Len(s) THEN s[i] ELSE t[i - Len(s)]
  BY ConcatProperties
<1> DEFINE st == s \o t
<1>3. DOMAIN st = 1..(Len(s) + Len(t))
  BY <1>2, LenProperties
<1>4. ToSet(st) = ToSet(s) \cup ToSet(t)
  <2>1. ASSUME NEW i \in 1..(Len(s) + Len(t))
        PROVE  st[i] \in ToSet(s) \cup ToSet(t)
    <3>1. CASE i <= Len(s)
      BY <1>1, <1>2, <3>1 DEF ToSet
    <3>2. CASE ~(i <= Len(s))
      <4>1. i - Len(s) \in 1..Len(t)
        BY <1>1, <3>2
      <4> QED
        BY <1>1, <1>2, <3>2, <4>1 DEF ToSet
    <3> QED
      BY <3>1, <3>2
  <2>2. ASSUME NEW i \in 1..Len(s)
        PROVE  s[i] \in ToSet(st)
    <3>1. i \in 1..(Len(s) + Len(t)) /\ st[i] = s[i]
      BY <1>1, <1>2
    <3> HIDE DEF st
    <3> QED
      BY <1>3, <3>1 DEF ToSet
  <2>3. ASSUME NEW i \in 1..Len(t)
        PROVE  t[i] \in ToSet(st)
    <3>1. Len(s) + i \in 1..(Len(s) + Len(t)) /\ ~(Len(s) + i <= Len(s)) /\ (Len(s) + i) - Len(s) = i
      BY <1>1
    <3>2. st[Len(s) + i] = t[i]
      BY <1>2, <3>1
    <3> HIDE DEF st
    <3> QED
      BY <1>3, <3>1, <3>2 DEF ToSet
  <2> HIDE DEF st
  <2> QED
    BY <1>1, <1>3, <2>1, <2>2, <2>3 DEF ToSet
<1>5. FirstWanted(s) # Bad
  BY WantedIsGood
<1>6. SelectSubprotocol(FirstWanted(s), t) = FirstWanted(st)
  BY SelectNext
<1> HIDE DEF st
<1>7. SelectedOf(st) = IF ToSet(s) \cup ToSet(t) \subseteq ValidTokens THEN FirstWanted(st) ELSE Bad
  BY <1>4 DEF SelectedOf
<1> QED
  BY <1>5, <1>6, <1>7 DEF st, SelectedOf

\* The key of one header more: a second one spoils the first.
LEMMA AcceptNext ==
  ASSUME NEW n \in Nat, n >= 1, IsNamed("sec-websocket-key", n + 1)
  PROVE  AcceptOf(NamedTo("sec-websocket-key", n + 1)) =
           IF AcceptOf(NamedTo("sec-websocket-key", n)) = <<None>> /\ ValidateKey(request[n + 1].parts)
           THEN AcceptKey(request[n + 1].parts[1]) ELSE <<Bad>>
<1> DEFINE old == NamedTo("sec-websocket-key", n)
           new == NamedTo("sec-websocket-key", n + 1)
<1>1. new = old \cup {n + 1} /\ Max(new) = n + 1 /\ n + 1 \notin old
  BY NamedNext
<1>2. \A key : AcceptKey(key) # <<None>> /\ AcceptKey(key) # <<Bad>>
  BY DEF AcceptKey
<1>3. <<None>> # <<Bad>>
  BY DEF None, Bad
<1> HIDE DEF old, new
<1>4. AcceptOf(old) = <<None>> <=> old = {}
  BY <1>2, <1>3 DEF AcceptOf
<1>5. OneKey(new) <=> old = {} /\ ValidateKey(request[n + 1].parts)
  BY <1>1 DEF OneKey
<1>6. new # {}
  BY <1>1
<1>7. AcceptOf(new) = IF OneKey(new) THEN AcceptKey(request[n + 1].parts[1]) ELSE <<Bad>>
  BY <1>1, <1>6 DEF AcceptOf
<1> QED
  BY <1>4, <1>5, <1>7 DEF old, new

\* A turn of the loop: the header of line n + 1.
LEMMA ReadNext ==
  ASSUME scene \in Scenes, NEW n \in Nat, n >= 1, n + 1 <= Len(request),
         HasColon(request[n + 1]), NEW p, ReadTo(p, n)
  PROVE  ReadTo(ReadHeader(p, request[n + 1]), n + 1)
<1> DEFINE line == request[n + 1]
           it == Lower(line.name)
           parts == line.parts
<1>1. PICK q : q = ReadHeader(p, line)
  OBVIOUS
<1>2. \A name : IsNamed(name, n + 1) <=> name = it
  BY DEF IsNamed
<1>3. \A name : ValuesAt(name, n + 1) = IF name = it THEN parts ELSE <<>>
  BY <1>2 DEF ValuesAt
<1>4. HeaderRead(q, p, it, parts)
  BY <1>1, ReadHeaderFields DEF ReadTo
<1>5. /\ p.upgrade = UpgradeTo(n) /\ p.connection = ConnectionTo(n) /\ p.version = VersionTo(n)
      /\ p.accept = AcceptOf(NamedTo("sec-websocket-key", n))
      /\ p.selected = SelectedOf(ValuesTo("sec-websocket-protocol", n))
      /\ HeadersTo(p.headers, n)
  BY DEF ReadTo
<1>6. request[n + 1] = line /\ line.parts = parts
  OBVIOUS
<1>7. n + 1 \in Nat
  OBVIOUS
<1> HIDE DEF line, it, parts
<1>8. q.upgrade = UpgradeTo(n + 1)
  <2>1. CASE it = "upgrade"
    <3>0. IsNamed("upgrade", n + 1)
      BY <1>2, <2>1
    <3>1. NamedTo("upgrade", n + 1) # {} /\ Max(NamedTo("upgrade", n + 1)) = n + 1
      <4>1. /\ NamedTo("upgrade", n + 1) = NamedTo("upgrade", n) \cup {n + 1}
            /\ Max(NamedTo("upgrade", n + 1)) = n + 1
        BY <3>0, NamedNext
      <4> QED
        BY <4>1
    <3>2. LastTo("upgrade", n + 1) = parts
      BY <1>6, <3>1 DEF LastTo
    <3>3. UpgradeTo(n + 1) = ContainsToken(parts, "websocket")
      BY <3>1, <3>2 DEF UpgradeTo, ContainsToken
    <3>4. q.upgrade = ContainsToken(parts, "websocket")
      BY <1>4, <2>1 DEF HeaderRead
    <3> QED
      BY <3>3, <3>4
  <2>2. CASE it # "upgrade"
    <3>1. NamedTo("upgrade", n + 1) = NamedTo("upgrade", n)
      BY <1>2, <2>2, NamedNext
    <3>2. UpgradeTo(n + 1) = UpgradeTo(n)
      BY <3>1 DEF UpgradeTo, LastTo
    <3>3. q.upgrade = p.upgrade
      BY <1>4, <2>2 DEF HeaderRead
    <3> QED
      BY <1>5, <3>2, <3>3
  <2> QED
    BY <2>1, <2>2
<1>9. q.connection = ConnectionTo(n + 1)
  <2>1. CASE it = "connection"
    <3>0. IsNamed("connection", n + 1)
      BY <1>2, <2>1
    <3>1. NamedTo("connection", n + 1) # {} /\ Max(NamedTo("connection", n + 1)) = n + 1
      <4>1. /\ NamedTo("connection", n + 1) = NamedTo("connection", n) \cup {n + 1}
            /\ Max(NamedTo("connection", n + 1)) = n + 1
        BY <3>0, NamedNext
      <4> QED
        BY <4>1
    <3>2. LastTo("connection", n + 1) = parts
      BY <1>6, <3>1 DEF LastTo
    <3>3. ConnectionTo(n + 1) = ContainsToken(parts, "upgrade")
      BY <3>1, <3>2 DEF ConnectionTo, ContainsToken
    <3>4. q.connection = ContainsToken(parts, "upgrade")
      BY <1>4, <2>1 DEF HeaderRead
    <3> QED
      BY <3>3, <3>4
  <2>2. CASE it # "connection"
    <3>1. NamedTo("connection", n + 1) = NamedTo("connection", n)
      BY <1>2, <2>2, NamedNext
    <3>2. ConnectionTo(n + 1) = ConnectionTo(n)
      BY <3>1 DEF ConnectionTo, LastTo
    <3>3. q.connection = p.connection
      BY <1>4, <2>2 DEF HeaderRead
    <3> QED
      BY <1>5, <3>2, <3>3
  <2> QED
    BY <2>1, <2>2
<1>10. q.version = VersionTo(n + 1)
  <2>1. CASE it = "sec-websocket-version"
    <3>0. IsNamed("sec-websocket-version", n + 1)
      BY <1>2, <2>1
    <3>1. /\ NamedTo("sec-websocket-version", n + 1) # {}
          /\ Max(NamedTo("sec-websocket-version", n + 1)) = n + 1
      <4>1. /\ NamedTo("sec-websocket-version", n + 1) = NamedTo("sec-websocket-version", n) \cup {n + 1}
            /\ Max(NamedTo("sec-websocket-version", n + 1)) = n + 1
        BY <3>0, NamedNext
      <4> QED
        BY <4>1
    <3>2. LastTo("sec-websocket-version", n + 1) = parts
      BY <1>6, <3>1 DEF LastTo
    <3>3. VersionTo(n + 1) = (parts = <<"13">>)
      BY <3>1, <3>2 DEF VersionTo
    <3>4. q.version = (parts = <<"13">>)
      BY <1>4, <2>1 DEF HeaderRead
    <3> QED
      BY <3>3, <3>4
  <2>2. CASE it # "sec-websocket-version"
    <3>1. NamedTo("sec-websocket-version", n + 1) = NamedTo("sec-websocket-version", n)
      BY <1>2, <2>2, NamedNext
    <3>2. VersionTo(n + 1) = VersionTo(n)
      BY <3>1 DEF VersionTo, LastTo
    <3>3. q.version = p.version
      BY <1>4, <2>2 DEF HeaderRead
    <3> QED
      BY <1>5, <3>2, <3>3
  <2> QED
    BY <2>1, <2>2
<1>11. q.accept = AcceptOf(NamedTo("sec-websocket-key", n + 1))
  <2>1. CASE it = "sec-websocket-key"
    <3>1. IsNamed("sec-websocket-key", n + 1)
      BY <1>2, <2>1
    <3> QED
      BY <1>4, <1>5, <1>6, <2>1, <3>1, AcceptNext DEF HeaderRead
  <2>2. CASE it # "sec-websocket-key"
    <3>1. NamedTo("sec-websocket-key", n + 1) = NamedTo("sec-websocket-key", n)
      BY <1>2, <2>2, NamedNext
    <3> QED
      BY <1>4, <1>5, <2>2, <3>1 DEF HeaderRead
  <2> QED
    BY <2>1, <2>2
<1>12. q.selected = SelectedOf(ValuesTo("sec-websocket-protocol", n + 1))
  <2> DEFINE s == ValuesTo("sec-websocket-protocol", n)
  <2>1. CASE it = "sec-websocket-protocol"
    <3>1. /\ s \in Seq(AllParts) /\ parts \in Seq(AllParts)
          /\ ValuesTo("sec-websocket-protocol", n + 1) = s \o parts
      BY <1>3, <2>1, ValuesNext
    <3> HIDE DEF s
    <3>2. SelectedOf(s \o parts) = IF SelectedOf(s) = Bad THEN Bad
                                   ELSE IF ToSet(parts) \subseteq ValidTokens
                                        THEN SelectSubprotocol(SelectedOf(s), parts)
                                   ELSE Bad
      BY <3>1, SelectedNext
    <3>3. p.selected = SelectedOf(s)
      BY <1>5 DEF s
    <3> QED
      BY <1>4, <2>1, <3>1, <3>2, <3>3 DEF HeaderRead
  <2>2. CASE it # "sec-websocket-protocol"
    <3>1. ValuesTo("sec-websocket-protocol", n + 1) = s
      BY <1>2, <2>2, ValuesNext
    <3> QED
      BY <1>4, <1>5, <2>2, <3>1 DEF HeaderRead
  <2> QED
    BY <2>1, <2>2
<1>13. HeadersTo(q.headers, n + 1)
  <2> DEFINE h == p.headers
             g == q.headers
  <2>1. /\ DOMAIN g = DOMAIN h \cup {it}
        /\ \A name \in DOMAIN h \cup {it} :
             g[name] = (IF name \in DOMAIN h THEN h[name] ELSE <<>>) \o (IF name = it THEN parts ELSE <<>>)
    BY <1>4 DEF HeaderRead, AddHeader
  <2> SUFFICES ASSUME NEW name
               PROVE  /\ name \in DOMAIN g => g[name] = ValuesTo(name, n + 1)
                      /\ name \notin DOMAIN g => ValuesTo(name, n + 1) = <<>> /\ NamedTo(name, n + 1) = {}
    BY DEF HeadersTo
  <2>2. /\ name \in DOMAIN h => h[name] = ValuesTo(name, n)
        /\ name \notin DOMAIN h => ValuesTo(name, n) = <<>> /\ NamedTo(name, n) = {}
    BY <1>5 DEF HeadersTo
  <2> HIDE DEF g, h
  <2>3. /\ ValuesTo(name, n + 1) = ValuesTo(name, n) \o ValuesAt(name, n + 1)
        /\ ~IsNamed(name, n + 1) => ValuesTo(name, n + 1) = ValuesTo(name, n)
    BY ValuesNext
  <2>4. CASE name \in DOMAIN g
    <3>1. (IF name \in DOMAIN h THEN h[name] ELSE <<>>) = ValuesTo(name, n)
      BY <2>2
    <3>2. ValuesAt(name, n + 1) = IF name = it THEN parts ELSE <<>>
      BY <1>3
    <3> QED
      BY <2>1, <2>3, <2>4, <3>1, <3>2
  <2>5. CASE name \notin DOMAIN g
    <3>1. ~IsNamed(name, n + 1) /\ name \notin DOMAIN h
      BY <1>2, <2>1, <2>5
    <3>2. NamedTo(name, n + 1) = NamedTo(name, n)
      BY <3>1, NamedNext
    <3> QED
      BY <2>2, <2>3, <2>5, <3>1, <3>2
  <2> QED
    BY <2>4, <2>5
<1> QED
  BY <1>1, <1>4, <1>8, <1>9, <1>10, <1>11, <1>12, <1>13 DEF ReadTo, HeaderRead, line

\* Before the first header nothing has been read.
LEMMA ReadNothing == ReadTo(NothingParsed, 1)
<1>1. \A name : NamedTo(name, 1) = {}
  <2>1. 2..1 = {}
    OBVIOUS
  <2> QED
    BY <2>1 DEF NamedTo
<1>2. ASSUME NEW name PROVE ValuesTo(name, 1) = <<>>
  <2> DEFINE s == [i \in 1..1 |-> ValuesAt(name, i)]
             e == [i \in 1..0 |-> ValuesAt(name, i)]
  <2>1. ValuesAt(name, 1) = <<>>
    BY DEF ValuesAt, IsNamed
  <2>2. <<>> \in Seq({})
    BY EmptySeq
  <2>3. s \in Seq(Seq({})) /\ Len(s) = 0 + 1 /\ s[0 + 1] = <<>>
    <3>1. s \in [1..1 -> Seq({})]
      <4>1. \A i \in 1..1 : i = 1
        OBVIOUS
      <4> QED
        BY <2>1, <2>2, <4>1
    <3>2. s[1] = <<>>
      BY <2>1
    <3> QED
      BY <3>1, <3>2
  <2>4. e \in Seq(Seq({})) /\ Len(e) = 0 /\ \A i \in 1..0 : s[i] = e[i]
    <3>1. e \in [1..0 -> Seq({})]
      OBVIOUS
    <3> QED
      BY <3>1
  <2> HIDE DEF s, e
  <2>5. FlattenSeq(e) = <<>>
    BY <2>4, FlattenType
  <2>6. FlattenSeq(s) = FlattenSeq(e) \o s[0 + 1]
    <3>1. PICK z \in Nat : z = 0
      OBVIOUS
    <3>2. Len(e) = z /\ Len(s) = z + 1 /\ \A i \in 1..z : s[i] = e[i]
      BY <2>3, <2>4, <3>1
    <3>3. FlattenSeq(s) = FlattenSeq(e) \o s[z + 1]
      BY <2>3, <2>4, <3>2, FlattenNext
    <3> QED
      BY <3>1, <3>3
  <2>7. <<>> \o <<>> = <<>>
    BY <2>2, ConcatEmptySeq
  <2> QED
    BY <2>3, <2>5, <2>6, <2>7 DEF ValuesTo, s
<1>3. SelectedOf(<<>>) = None
  <2>1. ToSet(<<>>) = {} /\ 1..Len(<<>>) = {}
    BY DEF ToSet
  <2> QED
    BY <2>1 DEF SelectedOf, FirstWanted
<1>4. HeadersTo(<<>>, 1)
  <2>1. DOMAIN <<>> = {}
    OBVIOUS
  <2> QED
    BY <1>1, <1>2, <2>1 DEF HeadersTo
<1>5. DOMAIN NothingParsed = Fields
  BY DEF NothingParsed, Fields
<1>6. ~UpgradeTo(1) /\ ~ConnectionTo(1) /\ ~VersionTo(1)
  BY <1>1 DEF UpgradeTo, ConnectionTo, VersionTo
<1>7. /\ NothingParsed.upgrade = UpgradeTo(1) /\ NothingParsed.connection = ConnectionTo(1)
      /\ NothingParsed.version = VersionTo(1)
  <2>1. UpgradeTo(1) = FALSE /\ ConnectionTo(1) = FALSE /\ VersionTo(1) = FALSE
    BY <1>6 DEF UpgradeTo, ConnectionTo, VersionTo
  <2> QED
    BY <2>1 DEF NothingParsed
<1>8. NothingParsed.accept = AcceptOf(NamedTo("sec-websocket-key", 1))
  BY <1>1 DEF NothingParsed, AcceptOf
<1>9. NothingParsed.selected = SelectedOf(ValuesTo("sec-websocket-protocol", 1))
  BY <1>2, <1>3 DEF NothingParsed
<1>10. NothingParsed.headers = <<>>
  BY DEF NothingParsed
<1> QED
  BY <1>4, <1>5, <1>7, <1>8, <1>9, <1>10 DEF ReadTo

-----------------------------------------------------------------------------
(* Reading the buffer. *)

\* f[i] is what is parsed of the first i units.
IsReading(f, buf, n) ==
  f = [i \in 1..n |-> IF i = 1 THEN NothingParsed
                      ELSE IF IsLine(buf[i]) THEN ReadHeader(f[i - 1], buf[i])
                      ELSE f[i - 1]]

\* The loop computes something.
LEMMA ReadingExists ==
  ASSUME NEW buf, NEW n \in Nat
  PROVE  \E f : IsReading(f, buf, n)
<1> DEFINE Turn(p, i) == IF IsLine(buf[i]) THEN ReadHeader(p, buf[i]) ELSE p
           Without == {m \in Nat : ~ \E f : IsReading(f, buf, m)}
<1>0. \A f, m : IsReading(f, buf, m) <=>
                  f = [i \in 1..m |-> IF i = 1 THEN NothingParsed ELSE Turn(f[i - 1], i)]
  BY DEF IsReading
<1> HIDE DEF Turn
<1> SUFFICES ASSUME Without # {} PROVE FALSE
  OBVIOUS
<1>1. PICK x \in Without : \A y \in Without : x <= y
  <2>1. Without \subseteq Nat
    OBVIOUS
  <2> HIDE DEF Without
  <2> QED
    BY <2>1, LeastNat
<1>2. CASE x = 0
  <2>1. 1..0 = {}
    OBVIOUS
  <2> DEFINE g == [i \in 1..0 |-> 0]
  <2>2. g = [i \in 1..0 |-> IF i = 1 THEN NothingParsed ELSE Turn(g[i - 1], i)]
    BY <2>1
  <2> HIDE DEF g
  <2>3. IsReading(g, buf, 0)
    BY <1>0, <2>2
  <2> QED
    BY <1>2, <2>3
<1>3. CASE x # 0
  <2>1. x - 1 \in Nat /\ x - 1 \notin Without /\ x \in Nat
    BY <1>1, <1>3
  <2>2. PICK f : IsReading(f, buf, x - 1)
    BY <2>1
  <2> DEFINE last == IF x = 1 THEN NothingParsed ELSE Turn(f[x - 1], x)
             g == [i \in 1..x |-> IF i = x THEN last ELSE f[i]]
  <2>3. \A i \in 1..(x - 1) : f[i] = IF i = 1 THEN NothingParsed ELSE Turn(f[i - 1], i)
    BY <1>0, <2>2
  <2>4. ASSUME NEW i \in 1..x
        PROVE  g[i] = IF i = 1 THEN NothingParsed ELSE Turn(g[i - 1], i)
    <3>1. CASE i = 1
      BY <2>1, <2>3, <3>1
    <3>2. CASE i # 1
      <4>1. i - 1 \in 1..x /\ i - 1 # x
        BY <2>1, <3>2
      <4>2. g[i - 1] = f[i - 1]
        BY <4>1
      <4>3. g[i] = Turn(f[i - 1], i)
        BY <2>1, <2>3, <3>2
      <4> QED
        BY <3>2, <4>2, <4>3
    <3> QED
      BY <3>1, <3>2
  <2>5. g = [i \in 1..x |-> g[i]]
    OBVIOUS
  <2> HIDE DEF g
  <2>6. g = [i \in 1..x |-> IF i = 1 THEN NothingParsed ELSE Turn(g[i - 1], i)]
    BY <2>4, <2>5
  <2>7. IsReading(g, buf, x)
    BY <1>0, <2>6
  <2> QED
    BY <1>1, <2>7
<1> QED
  BY <1>2, <1>3

\* ReadHeaders by its own equations.
LEMMA ReadingIs ==
  ASSUME NEW buf, NEW n \in Nat
  PROVE  \E f : IsReading(f, buf, n) /\ ReadHeaders(buf, n) = f[n]
<1> DEFINE f == CHOOSE h : IsReading(h, buf, n)
<1>1. IsReading(f, buf, n)
  BY ReadingExists
<1>2. ReadHeaders(buf, n) = f[n]
  BY DEF ReadHeaders, IsReading
<1> QED
  BY <1>1, <1>2

\* Where the lines of a request are in its stream.
LEMMA StreamLines ==
  ASSUME NEW lines, lines \in Seq(ToSet(lines)), NEW i \in 1..Len(lines)
  PROVE  Stream(lines)[3 * i - 2] = lines[i]
<1> DEFINE n == Len(lines)
           k == 3 * i - 2
<1>1. n \in Nat
  BY LenProperties
<1>2. k \in 1..(3 * n + 2) /\ ~(k > 3 * n) /\ ((k - 1) \div 3) + 1 = i /\ ((k - 1) % 3) + 1 = 1
  BY <1>1
<1>3. Stream(lines) = [j \in 1..(3 * n + 2) |->
        IF j > 3 * n THEN <<CR, LF>>[j - 3 * n]
        ELSE <<lines[((j - 1) \div 3) + 1], CR, LF>>[((j - 1) % 3) + 1]]
  BY DEF Stream
<1> HIDE DEF n, k
<1> QED
  BY <1>2, <1>3 DEF k

\* buf holds the whole request.
Holds(buf) ==
  /\ Len(buf) >= Len(Stream(request))
  /\ \A k \in 1..Len(buf) : k <= Len(Stream(request)) => buf[k] = Stream(request)[k]

\* The units of a buffer that holds the request.
LEMMA UnitsOf ==
  ASSUME scene \in Scenes, NEW S, NEW buf \in Seq(S), Holds(buf), NEW i \in 1..Len(request)
  PROVE  buf[3 * i - 2] = request[i] /\ buf[3 * i - 1] = CR /\ buf[3 * i] = LF
<1> DEFINE n == Len(request)
<1>1. request \in Seq(ToSet(request)) /\ n \in Nat /\ Len(buf) \in Nat
  BY StreamTypes, LenProperties
<1>2. /\ Len(Stream(request)) = 3 * n + 2
      /\ \A k \in 1..(3 * n) : k % 3 = 2 => Stream(request)[k] = CR
      /\ \A k \in 1..(3 * n) : k % 3 = 0 => Stream(request)[k] = LF
  BY <1>1, StreamShape
<1>3. Stream(request)[3 * i - 2] = request[i]
  BY <1>1, StreamLines
<1>4. \A k \in 1..(3 * n) : buf[k] = Stream(request)[k]
  BY <1>1, <1>2 DEF Holds
<1>5. /\ 3 * i - 2 \in 1..(3 * n) /\ 3 * i - 1 \in 1..(3 * n) /\ 3 * i \in 1..(3 * n)
      /\ (3 * i - 1) % 3 = 2 /\ (3 * i) % 3 = 0
  BY <1>1
<1> HIDE DEF n
<1> QED
  BY <1>2, <1>3, <1>4, <1>5

\* The loop reads the headers of the request, each once and in order.
LEMMA HeadersRead ==
  ASSUME scene \in Scenes, NEW S, NEW buf \in Seq(S), Holds(buf), request # <<>>,
         \A i \in 1..Len(request) : IsLine(request[i]),
         \A i \in 2..Len(request) : HasColon(request[i])
  PROVE  ReadTo(ReadHeaders(buf, 3 * Len(request) - 1), Len(request))
<1> DEFINE n == Len(request)
           e == 3 * n - 1
<1>1. n \in Nat /\ n >= 1 /\ e \in Nat
  <2>1. n \in Nat /\ n # 0
    BY StreamTypes, LenProperties, EmptySeq
  <2> QED
    BY <2>1
<1>2. PICK f : IsReading(f, buf, e) /\ ReadHeaders(buf, e) = f[e]
  BY <1>1, ReadingIs
<1>3. \A i \in 1..e : f[i] = IF i = 1 THEN NothingParsed
                             ELSE IF IsLine(buf[i]) THEN ReadHeader(f[i - 1], buf[i])
                             ELSE f[i - 1]
  BY <1>2 DEF IsReading
<1>4. ~IsLine(CR) /\ ~IsLine(LF)
  BY DEF IsLine, CR, LF
<1>5. \A i \in 1..n : buf[3 * i - 2] = request[i] /\ buf[3 * i - 1] = CR /\ buf[3 * i] = LF
  BY UnitsOf
<1>6. /\ \A i \in 1..n : IsLine(request[i])
      /\ \A i \in 2..n : HasColon(request[i])
  OBVIOUS
<1> HIDE DEF n
<1> DEFINE Wrong == {i \in 1..n : ~ReadTo(f[3 * i - 1], i)}
<1>7. Wrong = {}
  <2> SUFFICES ASSUME Wrong # {} PROVE FALSE
    OBVIOUS
  <2>1. PICK x \in Wrong : \A y \in Wrong : x <= y
    <3>1. Wrong \subseteq Nat
      BY <1>1
    <3> HIDE DEF Wrong
    <3> QED
      BY <3>1, LeastNat
  <2>2. x \in 1..n /\ x \in Nat /\ ~ReadTo(f[3 * x - 1], x)
    BY <1>1, <2>1
  <2>3. CASE x = 1
    <3>1. 1 \in 1..e /\ 2 \in 1..e /\ 2 # 1
      BY <1>1
    <3>2. f[1] = NothingParsed
      BY <1>3, <3>1
    <3>3. 1 \in 1..n /\ 3 * 1 - 1 = 2
      BY <1>1
    <3>4. buf[2] = CR
      BY <1>5, <3>3
    <3>5. f[2] = f[1]
      BY <1>3, <1>4, <3>1, <3>4
    <3> QED
      BY <2>2, <2>3, <3>2, <3>3, <3>5, ReadNothing
  <2>4. CASE x # 1
    <3>1. PICK y \in Nat : x = y + 1
      BY <2>2, <2>4
    <3>2. y >= 1 /\ y \in 1..n /\ y + 1 \in 1..n /\ y + 1 \in 2..n /\ y \notin Wrong
      BY <1>1, <2>1, <2>2, <2>4, <3>1
    <3>3. ReadTo(f[3 * y - 1], y)
      BY <3>2
    <3>4. buf[3 * y] = LF /\ buf[3 * (y + 1) - 2] = request[y + 1] /\ buf[3 * (y + 1) - 1] = CR
      BY <1>5, <3>2
    <3>5. /\ 3 * y \in 1..e /\ 3 * y # 1 /\ 3 * (y + 1) - 2 \in 1..e /\ 3 * (y + 1) - 2 # 1
          /\ 3 * (y + 1) - 1 \in 1..e /\ 3 * (y + 1) - 1 # 1
          /\ (3 * (y + 1) - 1) - 1 = 3 * (y + 1) - 2 /\ (3 * (y + 1) - 2) - 1 = 3 * y
      BY <1>1, <3>2
    <3>6. f[3 * y] = f[3 * y - 1]
      BY <1>3, <1>4, <3>4, <3>5
    <3>7. f[3 * (y + 1) - 2] = ReadHeader(f[3 * y], request[y + 1])
      BY <1>3, <1>6, <3>2, <3>4, <3>5
    <3>8. f[3 * (y + 1) - 1] = f[3 * (y + 1) - 2]
      BY <1>3, <1>4, <3>4, <3>5
    <3>9. HasColon(request[y + 1]) /\ y + 1 <= Len(request)
      BY <1>1, <1>6, <3>2 DEF n
    <3>10. ReadTo(ReadHeader(f[3 * y - 1], request[y + 1]), y + 1)
      BY <3>2, <3>3, <3>9, ReadNext
    <3> QED
      BY <2>2, <3>1, <3>6, <3>7, <3>8, <3>10
  <2> QED
    BY <2>3, <2>4
<1>8. n \in 1..n
  BY <1>1
<1>9. ReadTo(f[3 * n - 1], n)
  BY <1>7, <1>8
<1> QED
  BY <1>2, <1>9 DEF n

-----------------------------------------------------------------------------
(* What parse_upgrade() decides. *)

\* What a request that is granted was found to say.
Granted(p) ==
  /\ \E k \in Keys : p.accept_key = AcceptKey(request[k].parts[1])
  /\ p.selected_subprotocol = Agreed
  /\ \A i \in 2..Len(request) : p.headers[Lower(request[i].name)] = ValuesOf(Lower(request[i].name))

\* The reference definitions are those of all lines.
LEMMA AllLines ==
  ASSUME scene \in Scenes
  PROVE  LET n == Len(request)
         IN  /\ \A name : Named(name) = NamedTo(name, n) /\ ValuesOf(name) = ValuesTo(name, n)
             /\ \A name : LastOf(name).parts = LastTo(name, n)
             /\ Agreed = FirstWanted(Offered)
<1> DEFINE n == Len(request)
<1>1. n \in Nat
  BY StreamTypes, LenProperties
<1>2. ASSUME NEW name
      PROVE  Named(name) = NamedTo(name, n)
  BY <1>1 DEF Named, NamedTo, IsNamed
<1>3. ASSUME NEW name
      PROVE  ValuesOf(name) = ValuesTo(name, n)
  <2>1. \A i \in 1..n : i \in Named(name) <=> IsNamed(name, i)
    BY <1>1 DEF Named, IsNamed
  <2>2. [i \in 1..n |-> IF i \in Named(name) THEN request[i].parts ELSE <<>>]
          = [i \in 1..n |-> ValuesAt(name, i)]
    BY <2>1 DEF ValuesAt
  <2> QED
    BY <2>2 DEF ValuesOf, ValuesTo
<1>4. ASSUME NEW name
      PROVE  LastOf(name).parts = LastTo(name, n)
  BY <1>2 DEF LastOf, LastTo
<1>5. Agreed = FirstWanted(Offered)
  BY DEF Agreed, FirstWanted
<1> QED
  BY <1>2, <1>3, <1>4, <1>5

\* The lines of the request have the form that the loop goes through.
WellFormed ==
  /\ \A i \in 1..Len(request) : IsLine(request[i])
  /\ ParseRequestLine(request[1])
  /\ \A i \in 2..Len(request) : HasColon(request[i])

\* The loop's result, in the words of the reference.
LEMMA ReadingDecides ==
  ASSUME scene \in Scenes, NEW p, ReadTo(p, Len(request)), request # <<>>, WellFormed
  PROVE  /\ (p.upgrade /\ p.connection /\ p.version
              /\ p.accept \notin {<<None>>, <<Bad>>} /\ p.selected # Bad) <=> Deserved
         /\ Deserved => /\ \E k \in Keys : p.accept = AcceptKey(request[k].parts[1])
                        /\ p.selected = Agreed
         /\ \A i \in 2..Len(request) : p.headers[Lower(request[i].name)] = ValuesOf(Lower(request[i].name))
<1> DEFINE n == Len(request)
<1>1. /\ \A name : Named(name) = NamedTo(name, n) /\ ValuesOf(name) = ValuesTo(name, n)
      /\ \A name : LastOf(name).parts = LastTo(name, n)
      /\ Agreed = FirstWanted(Offered)
  BY AllLines
<1>2. /\ p.upgrade = UpgradeTo(n) /\ p.connection = ConnectionTo(n) /\ p.version = VersionTo(n)
      /\ p.accept = AcceptOf(NamedTo("sec-websocket-key", n))
      /\ p.selected = SelectedOf(ValuesTo("sec-websocket-protocol", n))
      /\ HeadersTo(p.headers, n)
  BY DEF ReadTo
<1> HIDE DEF n
<1>3. p.upgrade <=> Named("upgrade") # {} /\ ContainsToken(LastOf("upgrade").parts, "websocket")
  <2>1. p.upgrade <=> UpgradeTo(n)
    BY <1>2
  <2> QED
    BY <1>1, <2>1 DEF UpgradeTo
<1>4. p.connection <=> Named("connection") # {} /\ ContainsToken(LastOf("connection").parts, "upgrade")
  <2>1. p.connection <=> ConnectionTo(n)
    BY <1>2
  <2> QED
    BY <1>1, <2>1 DEF ConnectionTo
<1>5. p.version <=> Named("sec-websocket-version") # {} /\ LastOf("sec-websocket-version").parts = <<"13">>
  <2>1. p.version <=> VersionTo(n)
    BY <1>2
  <2> QED
    BY <1>1, <2>1 DEF VersionTo
<1>6. /\ p.accept \notin {<<None>>, <<Bad>>} <=> OneKey(Keys)
      /\ OneKey(Keys) => \E k \in Keys : p.accept = AcceptKey(request[k].parts[1])
  <2>1. p.accept = AcceptOf(Keys)
    BY <1>1, <1>2 DEF Keys
  <2>2. \A key : AcceptKey(key) # <<None>> /\ AcceptKey(key) # <<Bad>>
    BY DEF AcceptKey
  <2>3. ASSUME OneKey(Keys)
        PROVE  \E k \in Keys : Keys = {k} /\ Max(Keys) = k
    <3>1. PICK k \in Keys : Keys = {k}
      BY <2>3 DEF OneKey
    <3>2. k \in Nat
      BY DEF Keys, Named
    <3>3. Max(Keys) \in Keys
      BY <3>1, <3>2 DEF Max
    <3> QED
      BY <3>1, <3>3
  <2>4. OneKey(Keys) => Keys # {}
    BY DEF OneKey
  <2>5. p.accept = IF OneKey(Keys) THEN AcceptKey(request[Max(Keys)].parts[1])
                   ELSE IF Keys = {} THEN <<None>> ELSE <<Bad>>
    BY <2>1, <2>4 DEF AcceptOf
  <2> QED
    BY <2>2, <2>3, <2>5
<1>7. /\ p.selected # Bad <=> ToSet(Offered) \subseteq ValidTokens
      /\ p.selected # Bad => p.selected = Agreed
  <2>1. p.selected = SelectedOf(Offered)
    BY <1>1, <1>2 DEF Offered
  <2>2. Offered \in Seq(AllParts)
    <3>1. n \in Nat /\ n <= Len(request)
      BY StreamTypes, LenProperties DEF n
    <3> QED
      BY <1>1, <3>1, ValuesType DEF Offered
  <2>3. FirstWanted(Offered) # Bad
    BY <2>2, WantedIsGood
  <2> QED
    BY <1>1, <2>1, <2>3 DEF SelectedOf
<1>8. ASSUME NEW i \in 2..Len(request)
      PROVE  p.headers[Lower(request[i].name)] = ValuesOf(Lower(request[i].name))
  <2> DEFINE name == Lower(request[i].name)
  <2>1. i \in Named(name)
    BY DEF Named, WellFormed
  <2> HIDE DEF name
  <2>2. NamedTo(name, n) # {}
    BY <1>1, <2>1
  <2>3. name \in DOMAIN p.headers /\ p.headers[name] = ValuesTo(name, n)
    BY <1>2, <2>2 DEF HeadersTo
  <2> QED
    BY <1>1, <2>3 DEF name
<1>9. Deserved <=>
        /\ p.upgrade /\ p.connection /\ p.version /\ OneKey(Keys)
        /\ ToSet(Offered) \subseteq ValidTokens
  <2>1. Deserved <=>
          /\ \A name \in {"upgrade", "connection", "sec-websocket-version"} : Named(name) # {}
          /\ ContainsToken(LastOf("upgrade").parts, "websocket")
          /\ ContainsToken(LastOf("connection").parts, "upgrade")
          /\ LastOf("sec-websocket-version").parts = <<"13">>
          /\ OneKey(Keys)
          /\ ToSet(Offered) \subseteq ValidTokens
    BY DEF Deserved, WellFormed, OneKey
  <2> QED
    BY <1>3, <1>4, <1>5, <2>1
<1> QED
  BY <1>6, <1>7, <1>8, <1>9

\* What parse_upgrade() tests before and in its loop is that the lines have
\* their form; a request line alone is not a request.
LEMMA FormIsTested ==
  ASSUME scene \in Scenes, NEW S, NEW buf \in Seq(S), Holds(buf), request # <<>>,
         NEW end, end = 3 * Len(request) - 1
  PROVE  (\/ ~IsLine(buf[1]) \/ (\A i \in 1..(end - 1) : buf[i] # CR)
          \/ (\E i \in 1..end : buf[i] = CR /\ buf[i + 1] # LF)
          \/ ~ParseRequestLine(buf[1]) \/ \E i \in 2..end : IsLine(buf[i]) /\ ~HasColon(buf[i]))
         <=> ~(WellFormed /\ Len(request) >= 2)
<1> DEFINE n == Len(request)
<1>1. n \in Nat /\ n >= 1 /\ request \in Seq(ToSet(request))
  <2>1. n \in Nat /\ n # 0 /\ request \in Seq(ToSet(request))
    BY StreamTypes, LenProperties, EmptySeq
  <2> QED
    BY <2>1
<1>2. CR # LF /\ ~IsLine(CR) /\ ~IsLine(LF)
  BY DEF IsLine, CR, LF
<1>3. \A i \in 1..n : buf[3 * i - 2] = request[i] /\ buf[3 * i - 1] = CR /\ buf[3 * i] = LF
  BY UnitsOf
<1>4. \A i \in 1..n : IsLine(request[i]) \/ request[i] = CR
  <2> TAKE i \in 1..n
  <2>1. request[i] \in ToSet(request)
    BY <1>1 DEF ToSet
  <2> QED
    BY <2>1, UpgradeAssumption DEF request
<1>5. buf[1] = request[1]
  <2>1. 1 \in 1..n /\ 3 * 1 - 2 = 1
    BY <1>1
  <2> QED
    BY <1>3, <2>1
<1>6. WellFormed <=> /\ \A i \in 1..n : IsLine(request[i])
                     /\ ParseRequestLine(request[1])
                     /\ \A i \in 2..n : HasColon(request[i])
  BY DEF WellFormed
<1>7. end = 3 * n - 1
  OBVIOUS
<1> HIDE DEF n
<1>8. ASSUME NEW k \in 1..(3 * n)
      PROVE  \E i \in 1..n : k \in {3 * i - 2, 3 * i - 1, 3 * i}
  <2>1. ((k - 1) \div 3) + 1 \in 1..n
    BY <1>1
  <2>2. LET i == ((k - 1) \div 3) + 1 IN k \in {3 * i - 2, 3 * i - 1, 3 * i}
    BY <1>1
  <2> QED
    BY <2>1, <2>2
<1>9. CASE \E i \in 1..n : ~IsLine(request[i])
  <2>1. PICK i \in 1..n : ~IsLine(request[i])
    BY <1>9
  <2>2. request[i] = CR
    BY <1>4, <2>1
  <2>3. 3 * i - 2 \in 1..end /\ (3 * i - 2) + 1 = 3 * i - 1
    BY <1>1, <1>7
  <2>4. buf[3 * i - 2] = CR /\ buf[(3 * i - 2) + 1] # LF
    BY <1>2, <1>3, <2>2, <2>3
  <2> QED
    BY <1>6, <1>9, <2>3, <2>4
<1>10. CASE \A i \in 1..n : IsLine(request[i])
  <2>1. ~ \E i \in 1..end : buf[i] = CR /\ buf[i + 1] # LF
    <3> SUFFICES ASSUME NEW k \in 1..end, buf[k] = CR
                 PROVE  buf[k + 1] = LF
      OBVIOUS
    <3>1. k \in 1..(3 * n) /\ k <= 3 * n - 1
      BY <1>1, <1>7
    <3>2. PICK i \in 1..n : k \in {3 * i - 2, 3 * i - 1, 3 * i}
      BY <1>8, <3>1
    <3>3. k # 3 * i - 2
      BY <1>2, <1>3, <1>10
    <3>4. k # 3 * i
      BY <1>2, <1>3
    <3>5. k + 1 = 3 * i
      BY <1>1, <3>2, <3>3, <3>4
    <3> QED
      BY <1>3, <3>5
  <2>2. IsLine(buf[1])
    BY <1>1, <1>5, <1>10
  <2>3. (\A i \in 1..(end - 1) : buf[i] # CR) <=> ~(n >= 2)
    <3>1. ASSUME n >= 2
          PROVE  \E i \in 1..(end - 1) : buf[i] = CR
      <4>1. 2 \in 1..(end - 1) /\ 1 \in 1..n /\ 3 * 1 - 1 = 2
        BY <1>1, <1>7, <3>1
      <4>2. buf[2] = CR
        BY <1>3, <4>1
      <4> QED
        BY <4>1, <4>2
    <3>2. ASSUME ~(n >= 2), NEW k \in 1..(end - 1)
          PROVE  buf[k] # CR
      <4>1. k = 1
        BY <1>1, <1>7, <3>2
      <4> QED
        BY <1>2, <2>2, <4>1
    <3> QED
      BY <3>1, <3>2
  <2>4. (\E k \in 2..end : IsLine(buf[k]) /\ ~HasColon(buf[k]))
          <=> ~ \A i \in 2..n : HasColon(request[i])
    <3>1. ASSUME NEW k \in 2..end, IsLine(buf[k]), ~HasColon(buf[k])
          PROVE  \E i \in 2..n : ~HasColon(request[i])
      <4>1. k \in 1..(3 * n) /\ k >= 2
        BY <1>1, <1>7, <3>1
      <4>2. PICK i \in 1..n : k \in {3 * i - 2, 3 * i - 1, 3 * i}
        BY <1>8, <4>1
      <4>3. k # 3 * i - 1 /\ k # 3 * i
        BY <1>2, <1>3, <3>1
      <4>4. k = 3 * i - 2
        BY <4>2, <4>3
      <4>5. i \in 2..n
        BY <1>1, <4>1, <4>4
      <4> QED
        BY <1>3, <3>1, <4>4, <4>5
    <3>2. ASSUME NEW i \in 2..n, ~HasColon(request[i])
          PROVE  \E k \in 2..end : IsLine(buf[k]) /\ ~HasColon(buf[k])
      <4>1. i \in 1..n /\ 3 * i - 2 \in 2..end
        BY <1>1, <1>7
      <4>2. buf[3 * i - 2] = request[i]
        BY <1>3, <4>1
      <4> QED
        BY <1>10, <3>2, <4>1, <4>2
    <3> QED
      BY <3>1, <3>2
  <2> QED
    BY <1>5, <1>6, <1>10, <2>1, <2>2, <2>3, <2>4 DEF n
<1> QED
  BY <1>9, <1>10

\* parse_upgrade() grants what deserves it, and says what it asked for; it
\* refuses what does not deserve it or is too long.
LEMMA ParseDecides ==
  ASSUME scene \in Scenes, NEW S, NEW buf \in Seq(S),
         \A k \in 1..Len(buf) : k <= Len(Stream(request)) => buf[k] = Stream(request)[k],
         NEW parse, parse = ParseUpgrade(buf)
  PROVE  /\ parse.result = "OK" => Deserved /\ Fits(Len(Stream(request))) /\ Granted(parse)
         /\ parse.result = "INVALID" => ~Deserved \/ Len(buf) > MaxRequest
<1> DEFINE n == Len(request)
           end == FindHeaderEnd(buf)
           p == ReadHeaders(buf, end)
           misshapen ==
             \/ ~IsLine(buf[1]) \/ (\A i \in 1..(end - 1) : buf[i] # CR)
             \/ (\E i \in 1..end : buf[i] = CR /\ buf[i + 1] # LF)
             \/ ~ParseRequestLine(buf[1]) \/ \E i \in 2..end : IsLine(buf[i]) /\ ~HasColon(buf[i])
           good == p.upgrade /\ p.connection /\ p.version /\ p.accept \notin {<<None>>, <<Bad>>} /\ p.selected # Bad
<1>1. ParseUpgrade(buf) =
        IF Len(buf) > MaxRequest THEN [result |-> "INVALID"]
        ELSE IF end = 0 THEN [result |-> "INCOMPLETE"]
        ELSE IF misshapen THEN [result |-> "INVALID"]
        ELSE IF good
        THEN [result |-> "OK", bytes_consumed |-> end + 3, accept_key |-> p.accept,
              selected_subprotocol |-> p.selected, target |-> buf[1].words[2], headers |-> p.headers]
        ELSE [result |-> "INVALID"]
  BY DEF ParseUpgrade
<1>2. /\ request \in Seq(ToSet(request)) /\ n \in Nat /\ Len(buf) \in Nat
      /\ Len(Stream(request)) = 3 * n + 2 /\ MaxRequest \in Nat
  <2>1. request \in Seq(ToSet(request)) /\ n \in Nat /\ Len(buf) \in Nat
    BY StreamTypes, LenProperties
  <2>2. Len(Stream(request)) = 3 * n + 2
    BY <2>1, StreamShape
  <2>3. MaxRequest \in Nat
    BY UpgradeAssumption
  <2> QED
    BY <2>1, <2>2, <2>3
<1>3. CASE Len(buf) > MaxRequest
  <2>1. parse.result = "INVALID"
    BY <1>1, <1>3
  <2> QED
    BY <1>3, <2>1
<1>4. CASE request = <<>>
  <2>1. ~Deserved
    BY <1>4 DEF Deserved
  <2>2. parse.result # "OK"
    BY <1>2, <1>4, ParsedWhole
  <2> QED
    BY <2>1, <2>2
<1>5. CASE ~(Len(buf) > MaxRequest) /\ request # <<>> /\ Len(buf) < Len(Stream(request))
  <2>1. end = 0
    BY <1>2, <1>5, HeaderEnd
  <2> HIDE DEF end, misshapen, good, p
  <2>2. parse.result = "INCOMPLETE"
    BY <1>1, <1>5, <2>1
  <2> QED
    BY <2>2
<1>6. CASE ~(Len(buf) > MaxRequest) /\ request # <<>> /\ ~(Len(buf) < Len(Stream(request)))
  <2>1. Holds(buf)
    BY <1>2, <1>6 DEF Holds
  <2>2. end = 3 * n - 1 /\ n >= 1
    <3>1. Len(buf) >= Len(Stream(request))
      BY <1>2, <1>6
    <3>2. end = Len(Stream(request)) - 3
      BY <1>2, <1>6, <3>1, HeaderEnd
    <3>3. n # 0
      BY <1>2, <1>6, EmptySeq
    <3> QED
      BY <1>2, <3>2, <3>3
  <2>3. misshapen <=> ~(WellFormed /\ n >= 2)
    BY <1>6, <2>1, <2>2, FormIsTested
  <2>4. CASE misshapen
    <3>1. ~Deserved
      <4> SUFFICES ASSUME Deserved PROVE WellFormed /\ n >= 2
        BY <2>3, <2>4
      <4>1. WellFormed /\ Named("upgrade") # {}
        BY DEF Deserved, WellFormed
      <4>2. PICK i \in 2..n : TRUE
        BY <4>1 DEF Named
      <4> QED
        BY <1>2, <4>1, <4>2
    <3> HIDE DEF misshapen, good, p
    <3>2. end # 0
      BY <1>2, <2>2
    <3> HIDE DEF end
    <3>3. parse.result = "INVALID"
      BY <1>1, <1>6, <2>4, <3>2
    <3> QED
      BY <3>1, <3>3
  <2>5. CASE ~misshapen
    <3>1. WellFormed
      BY <2>3, <2>5
    <3>2. ReadTo(p, n)
      BY <1>6, <2>1, <2>2, <3>1, HeadersRead DEF WellFormed
    <3>3. /\ good <=> Deserved
          /\ Deserved => /\ \E k \in Keys : p.accept = AcceptKey(request[k].parts[1])
                         /\ p.selected = Agreed
          /\ \A i \in 2..n : p.headers[Lower(request[i].name)] = ValuesOf(Lower(request[i].name))
      <4> HIDE DEF p
      <4> QED
        BY <1>6, <3>1, <3>2, ReadingDecides
    <3>4. end # 0
      BY <1>2, <2>2
    <3>5. Fits(Len(Stream(request)))
      BY <1>2, <1>6 DEF Fits
    <3> HIDE DEF misshapen, good, p, end
    <3>6. CASE good
      <4>1. parse = [result |-> "OK", bytes_consumed |-> end + 3, accept_key |-> p.accept,
                     selected_subprotocol |-> p.selected, target |-> buf[1].words[2], headers |-> p.headers]
        BY <1>1, <1>6, <2>5, <3>4, <3>6
      <4>2. /\ parse.result = "OK" /\ parse.accept_key = p.accept
            /\ parse.selected_subprotocol = p.selected /\ parse.headers = p.headers
        BY <4>1
      <4> QED
        BY <3>3, <3>5, <3>6, <4>2 DEF Granted
    <3>7. CASE ~good
      <4>1. parse.result = "INVALID"
        BY <1>1, <1>6, <2>5, <3>4, <3>7
      <4> QED
        BY <3>3, <3>7, <4>1
    <3> QED
      BY <3>6, <3>7
  <2> QED
    BY <2>4, <2>5
<1> QED
  BY <1>3, <1>4, <1>5, <1>6

-----------------------------------------------------------------------------
(* The answer. *)

\* From a successful parse to the answer, the request is one that is granted.
GrantedInv ==
  pc \in {"handshake", "finish"} =>
    Deserved /\ Fits(Len(Stream(request))) /\ Granted(parsed)

AnswerInv == GrantedInv /\ AnswerFitsRequest /\ HandlerSeesRequest

\* The request, and what it deserves, do not change.
LEMMA RequestStays ==
  ASSUME scene' = scene
  PROVE  /\ request' = request /\ tail' = tail
         /\ Deserved' = Deserved /\ Agreed' = Agreed /\ Keys' = Keys
         /\ \A name : ValuesOf(name)' = ValuesOf(name)
         /\ \A p : Granted(p)' <=> Granted(p)
<1>1. request' = request /\ tail' = tail
  BY DEF request, tail
<1>2. \A name : Named(name)' = Named(name)
  BY <1>1 DEF Named
<1>3. \A name : ValuesOf(name)' = ValuesOf(name)
  BY <1>1, <1>2 DEF ValuesOf
<1>4. \A name : LastOf(name)' = LastOf(name)
  BY <1>1, <1>2 DEF LastOf
<1>5. Keys' = Keys /\ Offered' = Offered
  BY <1>2, <1>3 DEF Keys, Offered
<1>6. Agreed' = Agreed
  BY <1>5 DEF Agreed
<1>7. Deserved' = Deserved
  BY <1>1, <1>2, <1>4, <1>5 DEF Deserved
<1>8. \A p : Granted(p)' <=> Granted(p)
  BY <1>1, <1>3, <1>5, <1>6 DEF Granted
<1> QED
  BY <1>1, <1>3, <1>5, <1>6, <1>7, <1>8

\* A step that answers nothing and does not come to the handler.
LEMMA QuietAnswer ==
  ASSUME AnswerInv, scene' = scene, UNCHANGED <<upgraded, subprotocol, parsed, answer>>,
         pc' \in {"handshake", "finish"} => pc \in {"handshake", "finish"},
         pc' = "handshake" => pc = "handshake"
  PROVE  AnswerInv'
<1>1. /\ request' = request /\ tail' = tail
      /\ Deserved' = Deserved /\ Agreed' = Agreed /\ Keys' = Keys
      /\ \A name : ValuesOf(name)' = ValuesOf(name)
  BY RequestStays
<1>2. GrantedInv'
  BY <1>1 DEF AnswerInv, GrantedInv, Granted
<1>3. AnswerFitsRequest'
  BY <1>1 DEF AnswerInv, AnswerFitsRequest
<1>4. HandlerSeesRequest'
  BY <1>1 DEF AnswerInv, HandlerSeesRequest
<1> QED
  BY <1>2, <1>3, <1>4 DEF AnswerInv

\* The server's own refusal is no 101, and on_handshake's is not the server's.
LEMMA Refusals ==
  ASSUME NEW whole
  PROVE  /\ Sent(BadRequest, whole).status = 400
         /\ \A r \in Rejections : ResponseIsValid(r) =>
              /\ Sent(HandshakeResponse(r), whole).status # 101
              /\ \A w : Sent(HandshakeResponse(r), whole) # Sent(BadRequest, w)
<1>1. Sent(BadRequest, whole).status = 400 /\ \A w : DOMAIN Sent(BadRequest, w) = {"status", "whole"}
  BY DEF BadRequest, Sent
<1>2. ASSUME NEW r \in Rejections, ResponseIsValid(r)
      PROVE  /\ Sent(HandshakeResponse(r), whole).status # 101
             /\ \A w : Sent(HandshakeResponse(r), whole) # Sent(BadRequest, w)
  <2>1. DOMAIN r = {"status", "headers"}
    BY UpgradeAssumption
  <2>2. DOMAIN HandshakeResponse(r) = {"status", "headers"} /\ HandshakeResponse(r).status = r.status
    BY <2>1 DEF HandshakeResponse
  <2>3. DOMAIN Sent(HandshakeResponse(r), whole) = {"status", "headers", "whole"}
    BY <2>2 DEF Sent
  <2>4. Sent(HandshakeResponse(r), whole).status = r.status
    BY <2>2 DEF Sent
  <2>5. r.status # 101
    BY <1>2 DEF ResponseIsValid
  <2> QED
    BY <1>1, <2>3, <2>4, <2>5
<1> QED
  BY <1>1, <1>2

\* The server refuses a request that does not deserve better, or is too long.
LEMMA RefusalFits ==
  ASSUME scene' = scene, NEW whole, answer' = Sent(BadRequest, whole), pc' = "recv",
         ~Deserved \/ ~Fits(Len(Stream(request) \o tail))
  PROVE  AnswerInv'
<1>1. request' = request /\ tail' = tail /\ Deserved' = Deserved
  BY RequestStays
<1>2. answer'.status = 400
  BY Refusals
<1>3. AnswerFitsRequest'
  BY <1>1, <1>2 DEF AnswerFitsRequest, Fits
<1> QED
  BY <1>3 DEF AnswerInv, GrantedInv, HandlerSeesRequest

\* In the handshake the stream is as long as its places together.
LEMMA LengthsKept ==
  ASSUME PlacesInv, InHandshake
  PROVE  /\ Len(buffer) \in Nat /\ Len(socket) \in Nat /\ Len(unsent) \in Nat
         /\ Len(Stream(request) \o tail) = Len(buffer) + Len(socket) + Len(unsent)
<1>1. /\ buffer \in Seq(Units) /\ socket \in Seq(Units) /\ unsent \in Seq(Units)
      /\ buffer \o socket \o unsent = Stream(request) \o tail
  BY DEF PlacesInv, StreamIsKept, InHandshake
<1>2. Len(buffer) \in Nat /\ Len(socket) \in Nat /\ Len(unsent) \in Nat
  BY <1>1, LenProperties
<1>3. buffer \o socket \in Seq(Units) /\ Len(buffer \o socket) = Len(buffer) + Len(socket)
  BY <1>1, ConcatProperties
<1> DEFINE front == buffer \o socket
<1>4. Len(front \o unsent) = Len(front) + Len(unsent)
  <2> HIDE DEF front
  <2>1. front \in Seq(Units)
    BY <1>3 DEF front
  <2> QED
    BY <1>1, <2>1, ConcatProperties
<1> QED
  BY <1>1, <1>2, <1>3, <1>4

\* What does not fit into the buffer is too long.
LEMMA RecvTooLargeAnswer ==
  ASSUME UpgradeInv, RecvTooLarge
  PROVE  AnswerInv'
<1>1. PICK whole \in BOOLEAN : answer' = Sent(BadRequest, whole)
  BY DEF RecvTooLarge, SendBytes
<1>2. /\ pc' = "recv" /\ scene' = scene /\ open /\ ~upgraded
      /\ ~(Len(buffer) + Arrived <= MaxRequest)
  BY DEF RecvTooLarge, Receiving, EnsureReadCapacity
<1>3. /\ Len(buffer) \in Nat /\ Len(socket) \in Nat /\ Len(unsent) \in Nat
      /\ Len(Stream(request) \o tail) = Len(buffer) + Len(socket) + Len(unsent)
  BY <1>2, LengthsKept DEF UpgradeInv, InHandshake
<1>4. Arrived \in Nat /\ Arrived <= Len(socket) /\ MaxRequest \in Nat
  BY <1>3, UpgradeAssumption DEF Arrived
<1>5. ~Fits(Len(Stream(request) \o tail))
  BY <1>2, <1>3, <1>4 DEF Fits
<1> QED
  BY <1>1, <1>2, <1>5, RefusalFits

\* What the parser finds is what is answered, and what on_handshake gets.
LEMMA ParseAnswer ==
  ASSUME UpgradeInv, AnswerInv, Parse
  PROVE  AnswerInv'
<1>1. PICK p : p = ParseUpgrade(buffer)
  OBVIOUS
<1>2. pc = "parse" /\ scene' = scene /\ UNCHANGED <<upgraded, subprotocol>>
  BY DEF Parse
<1>3. open /\ ~upgraded /\ InHandshake /\ answer.status = 0
  BY <1>2 DEF UpgradeInv, CourseInv, InHandshake
<1>4. PlacesInv /\ scene \in Scenes /\ buffer \in Seq(Units)
  BY DEF UpgradeInv, PlacesInv
<1>5. \A k \in 1..Len(buffer) : k <= Len(Stream(request)) => buffer[k] = Stream(request)[k]
  BY <1>3, <1>4, BufferBegins
<1>6. /\ p.result = "OK" => Deserved /\ Fits(Len(Stream(request))) /\ Granted(p)
      /\ p.result = "INVALID" => ~Deserved \/ Len(buffer) > MaxRequest
  BY <1>1, <1>4, <1>5, ParseDecides
<1>7. \/ /\ pc' = "recv" /\ UNCHANGED <<parsed, answer>>
      \/ /\ p.result = "INVALID" /\ pc' = "recv"
         /\ \E whole \in BOOLEAN : answer' = Sent(BadRequest, whole)
      \/ /\ p.result = "OK" /\ parsed' = p /\ UNCHANGED answer
  BY <1>1 DEF Parse, SendBytes
<1>8. CASE pc' = "recv" /\ UNCHANGED <<parsed, answer>>
  BY <1>2, <1>8, QuietAnswer
<1>9. CASE /\ p.result = "INVALID" /\ pc' = "recv"
           /\ \E whole \in BOOLEAN : answer' = Sent(BadRequest, whole)
  <2>1. Len(buffer) > MaxRequest => ~Fits(Len(Stream(request) \o tail))
    <3>1. /\ Len(buffer) \in Nat /\ Len(socket) \in Nat /\ Len(unsent) \in Nat
          /\ Len(Stream(request) \o tail) = Len(buffer) + Len(socket) + Len(unsent)
      BY <1>3, <1>4, LengthsKept
    <3>2. MaxRequest \in Nat
      BY UpgradeAssumption
    <3> QED
      BY <3>1, <3>2 DEF Fits
  <2> QED
    BY <1>2, <1>6, <1>9, <2>1, RefusalFits
<1>10. CASE p.result = "OK" /\ parsed' = p /\ UNCHANGED answer
  <2>1. /\ request' = request /\ tail' = tail
        /\ Deserved' = Deserved /\ Agreed' = Agreed /\ Keys' = Keys
        /\ \A name : ValuesOf(name)' = ValuesOf(name)
    BY <1>2, RequestStays
  <2>2. Deserved /\ Fits(Len(Stream(request))) /\ Granted(p)
    BY <1>6, <1>10
  <2>3. GrantedInv'
    BY <1>10, <2>1, <2>2 DEF GrantedInv, Granted, Fits
  <2>4. AnswerFitsRequest'
    BY <1>2, <1>10, <2>1 DEF AnswerInv, AnswerFitsRequest, Fits
  <2>5. HandlerSeesRequest'
    BY <1>10, <2>1, <2>2 DEF HandlerSeesRequest, Granted
  <2> QED
    BY <2>3, <2>4, <2>5 DEF AnswerInv
<1> QED
  BY <1>7, <1>8, <1>9, <1>10

\* The rejection of on_handshake is neither 101 nor the server's own 400.
LEMMA RejectAnswer ==
  ASSUME HandshakeRejects
  PROVE  AnswerInv'
<1>1. PICK r \in Rejections, whole \in BOOLEAN :
        ResponseIsValid(r) /\ answer' = Sent(HandshakeResponse(r), whole)
  BY DEF HandshakeRejects, SendBytes
<1>2. pc' = "recv"
  BY DEF HandshakeRejects
<1>3. answer'.status # 101 /\ \A w : answer' # Sent(BadRequest, w)
  BY <1>1, Refusals
<1>4. AnswerFitsRequest'
  BY <1>3 DEF AnswerFitsRequest, Sent, BadRequest
<1> QED
  BY <1>2, <1>4 DEF AnswerInv, GrantedInv, HandlerSeesRequest

\* 101 repeats what the parser found.
LEMMA FinishAnswer ==
  ASSUME UpgradeInv, AnswerInv, FinishUpgrade
  PROVE  AnswerInv'
<1>1. PICK whole \in BOOLEAN : answer' = Sent(SwitchingProtocols, whole)
  BY DEF FinishUpgrade, SendBytes
<1>2. /\ pc = "finish" /\ scene' = scene /\ pc' \in {"recv", "opening"}
      /\ \/ upgraded' = upgraded
         \/ subprotocol' = parsed.selected_subprotocol
  BY DEF FinishUpgrade
<1>3. ~upgraded /\ Deserved /\ Fits(Len(Stream(request))) /\ Granted(parsed)
  BY <1>2 DEF UpgradeInv, CourseInv, InHandshake, AnswerInv, GrantedInv
<1>4. /\ answer'.status = 101 /\ answer'.accept_key = parsed.accept_key
      /\ answer'.subprotocol = parsed.selected_subprotocol
  BY <1>1 DEF Sent, SwitchingProtocols
<1>5. \A w : answer' # Sent(BadRequest, w)
  BY <1>4, Refusals
<1>6. /\ request' = request /\ tail' = tail
      /\ Deserved' = Deserved /\ Agreed' = Agreed /\ Keys' = Keys
  BY <1>2, RequestStays
<1>7. AnswerFitsRequest'
  <2>1. ~ \E w \in BOOLEAN : answer' = Sent(BadRequest, w)
    BY <1>5
  <2>2. Deserved' /\ Fits(Len(Stream(request)))'
    BY <1>3, <1>6 DEF Fits
  <2>3. \E k \in Keys' : answer'.accept_key = AcceptKey(request'[k].parts[1])
    BY <1>3, <1>4, <1>6 DEF Granted
  <2>4. answer'.subprotocol = Agreed' /\ (upgraded' => subprotocol' = Agreed')
    BY <1>2, <1>3, <1>4, <1>6 DEF Granted
  <2> QED
    BY <2>1, <2>2, <2>3, <2>4 DEF AnswerFitsRequest, Sent, BadRequest
<1> QED
  BY <1>2, <1>7 DEF AnswerInv, GrantedInv, HandlerSeesRequest

\* Every step, and none.
LEMMA AnswerStep ==
  ASSUME UpgradeInv, AnswerInv, [Next]_upgradeVars
  PROVE  AnswerInv'
<1>1. CASE UNCHANGED upgradeVars
  BY <1>1, QuietAnswer DEF upgradeVars
<1>2. CASE PeerSends
  BY <1>2, QuietAnswer DEF PeerSends
<1>3. CASE PeerCloses
  BY <1>3, QuietAnswer DEF PeerCloses
<1>4. CASE Recv
  BY <1>4, QuietAnswer DEF Recv
<1>5. CASE RecvEnd \/ RecvAgain \/ Visit \/ VisitExpires
  BY <1>5, QuietAnswer DEF RecvEnd, RecvAgain, Visit, VisitExpires
<1>6. CASE HandshakeReturns
  BY <1>6, QuietAnswer DEF HandshakeReturns
<1>7. CASE HandshakeThrows
  BY <1>7, QuietAnswer DEF HandshakeThrows
<1>8. CASE OpenReturns
  BY <1>8, QuietAnswer DEF OpenReturns
<1>9. CASE OpenEnds
  BY <1>9, QuietAnswer DEF OpenEnds
<1> QED
  BY <1>1, <1>2, <1>3, <1>4, <1>5, <1>6, <1>7, <1>8, <1>9,
     RecvTooLargeAnswer, ParseAnswer, RejectAnswer, FinishAnswer DEF Next, ServerSteps

\* AnswerInv holds in every state of the handshake.
THEOREM AnswerInvariance == Spec => []AnswerInv
<1>1. Init => AnswerInv
  <2> SUFFICES ASSUME Init PROVE AnswerInv
    OBVIOUS
  <2>1. pc = "wait" /\ answer = [status |-> 0]
    BY DEF Init
  <2>2. answer.status = 0 /\ \A w : answer # Sent(BadRequest, w)
    BY <2>1, Refusals
  <2> QED
    BY <2>1, <2>2 DEF AnswerInv, GrantedInv, AnswerFitsRequest, HandlerSeesRequest
<1>2. UpgradeInv /\ AnswerInv /\ [Next]_upgradeVars => AnswerInv'
  BY AnswerStep
<1> QED
  BY <1>1, <1>2, UpgradeInvariance, PTL DEF Spec

(***************************************************************************)
(* The answer fits the request, for every sequence of header lines, every  *)
(* repetition of a header, every tail, every cut of the stream into pieces *)
(* and every rejection: parse_upgrade() grants exactly what RFC 6455 and   *)
(* the order of repeated headers call for, and the limit refuses only what *)
(* does not fit.                                                           *)
(***************************************************************************)
THEOREM AnswersFit == Spec => []AnswerFitsRequest
<1>1. AnswerInv => AnswerFitsRequest
  BY DEF AnswerInv
<1> QED
  BY <1>1, AnswerInvariance, PTL

(***************************************************************************)
(* on_handshake decides about the request as it was sent: every value of   *)
(* every header, joined in order (upgrade_request_headers()).              *)
(***************************************************************************)
THEOREM HandlersSeeRequests == Spec => []HandlerSeesRequest
<1>1. AnswerInv => HandlerSeesRequest
  BY DEF AnswerInv
<1> QED
  BY <1>1, AnswerInvariance, PTL
=============================================================================
