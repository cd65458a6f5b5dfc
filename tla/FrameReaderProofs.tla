------------------------- MODULE FrameReaderProofs --------------------------
(***************************************************************************)
(* What a peer can make the server keep, what the application gets and     *)
(* which close code the peer gets, for every size of a message, of a read  *)
(* and of the frames, every sequence of frames and every cut of the stream.*)
(***************************************************************************)
EXTENDS FrameReader, SequenceFacts

Bytes == {"a", "L", "T"}

FragmentType == [fragmented : BOOLEAN, opcode : {"none", "text", "binary"}, payload : Seq(Bytes)]

\* The states of the reader.
TypeInv ==
  /\ pc \in {"wait", "reads", "frames", "last"} /\ open \in BOOLEAN
  /\ received \in Nat /\ consumed \in Nat /\ handled \in Nat
  /\ sent \in Seq(PeerFrames) /\ ends \in Seq(Nat)
  /\ fragment \in FragmentType

\* The buffer begins where a frame begins, and ends within what was sent.
StreamInv ==
  /\ Len(ends) = Len(sent) /\ handled <= Len(sent)
  /\ \A i \in 1..Len(sent) : ends[i] = EndOf(i - 1) + FrameLen(sent[i])
  /\ consumed = EndOf(handled)
  /\ consumed <= received /\ received <= Total

ReaderInv == TypeInv /\ StreamInv /\ BoundedMemory

\* An open connection has nobody to blame, and waits for the rest of a frame.
CulpritInv ==
  /\ culprit \in 0..Len(sent)
  /\ open => culprit = 0
  /\ open /\ pc \in {"wait", "reads"} => Status = "INCOMPLETE"

\* The fragment is the unfinished message of the frames that left the buffer.
FragmentInv ==
  LET parts == Unfinished(sent, handled + 1)
  IN  open => /\ fragment.fragmented <=> parts # {}
              /\ fragment.fragmented => /\ fragment.opcode = sent[Min(parts)].op
                                       /\ fragment.payload = Payload(sent, parts, handled)

MeaningInv == CulpritInv /\ FragmentInv /\ DeliversMessages /\ CloseCodeDeserved

-----------------------------------------------------------------------------
(* The operators. *)

\* The length of a frame: its payload and at most 14 bytes of header.
LEMMA FrameLengths ==
  ASSUME NEW f \in PeerFrames
  PROVE  /\ f.data \in Seq(Bytes) /\ Len(f.data) \in Nat
         /\ f.op \in DataOps \cup ControlOps
         /\ HeaderLen(f) \in {2, 4, 10}
         /\ FrameLen(f) \in Nat /\ FrameLen(f) > 0
         /\ FrameLen(f) <= Len(f.data) + MaxHeader
<1>1. IsFrame(f)
  BY ReaderAssumption
<1>2. f.data \in Seq(Bytes) /\ f.op \in DataOps \cup ControlOps
  BY <1>1 DEF IsFrame, Bytes
<1>3. Len(f.data) \in Nat
  BY <1>2, LenProperties
<1>4. HeaderLen(f) \in {2, 4, 10}
  BY <1>3 DEF HeaderLen
<1> QED
  BY <1>2, <1>3, <1>4 DEF FrameLen, MaxHeader

\* What parse_frame() has looked at when it returns a frame.
LEMMA ParsedOK ==
  ASSUME NEW f \in PeerFrames, NEW len \in Nat, ParseFrame(f, len) = "OK"
  PROVE  /\ len >= FrameLen(f)
         /\ f.op \in DataOps => Len(f.data) <= MaxMessageSize
<1>1. Complete(f, len)
  BY DEF ParseFrame
<1>2. ASSUME f.op \in DataOps
      PROVE  ~(Len(f.data) > MaxMessageSize)
  BY <1>2 DEF ParseFrame
<1>3. Len(f.data) \in Nat /\ MaxMessageSize \in Nat
  BY FrameLengths, ReaderAssumption
<1> QED
  BY <1>1, <1>2, <1>3 DEF Complete

\* What it waits for is bounded: the header, or the rest of a frame that may be.
LEMMA WaitsForBounded ==
  ASSUME NEW f \in PeerFrames, NEW len \in Nat, ParseFrame(f, len) = "INCOMPLETE"
  PROVE  len < Max({MaxControl, MaxMessageSize}) + MaxHeader
<1> DEFINE most == Max({MaxControl, MaxMessageSize})
<1>1. /\ MaxMessageSize \in Nat /\ MaxControl \in Nat
      /\ most \in Nat /\ MaxControl <= most /\ MaxMessageSize <= most
  BY ReaderAssumption, MaxOfTwo
<1>2. /\ f.op \in DataOps \cup ControlOps /\ Len(f.data) \in Nat
      /\ HeaderLen(f) \in {2, 4, 10} /\ FrameLen(f) \in Nat
      /\ FrameLen(f) <= Len(f.data) + MaxHeader
  BY FrameLengths
<1>3. \/ len < 2 \/ len < HeaderLen(f)
      \/ /\ ~Complete(f, len)
         /\ ~(f.op \in ControlOps /\ (~f.fin \/ Len(f.data) > MaxControl))
         /\ ~(f.op \in DataOps /\ Len(f.data) > MaxMessageSize)
  <2> SUFFICES ASSUME ~(len < 2), ~(len < HeaderLen(f))
               PROVE  /\ ~Complete(f, len)
                      /\ ~(f.op \in ControlOps /\ (~f.fin \/ Len(f.data) > MaxControl))
                      /\ ~(f.op \in DataOps /\ Len(f.data) > MaxMessageSize)
    OBVIOUS
  <2> QED
    BY DEF ParseFrame
<1>4. CASE len < 2 \/ len < HeaderLen(f)
  BY <1>1, <1>2, <1>4 DEF MaxHeader
<1>5. CASE /\ ~Complete(f, len)
           /\ ~(f.op \in ControlOps /\ (~f.fin \/ Len(f.data) > MaxControl))
           /\ ~(f.op \in DataOps /\ Len(f.data) > MaxMessageSize)
  <2>1. Len(f.data) <= most
    <3> HIDE DEF most
    <3> QED
      BY <1>1, <1>2, <1>5
  <2>2. len < FrameLen(f)
    BY <1>2, <1>5 DEF Complete
  <2> HIDE DEF most
  <2>3. len < most + MaxHeader
    BY <1>1, <1>2, <2>1, <2>2 DEF MaxHeader
  <2> QED
    BY <2>3 DEF most
<1> QED
  BY <1>3, <1>4, <1>5

\* What is in the buffer is the beginning of a frame that was sent.
LEMMA NextFrameSent ==
  ASSUME ReaderInv, Buffered > 0
  PROVE  handled + 1 \in 1..Len(sent) /\ NextFrame \in PeerFrames
<1>1. /\ handled \in Nat /\ sent \in Seq(PeerFrames) /\ ends \in Seq(Nat)
      /\ received \in Nat /\ consumed \in Nat
  BY DEF ReaderInv, TypeInv
<1>2. /\ Len(ends) = Len(sent) /\ handled <= Len(sent) /\ consumed = EndOf(handled)
      /\ received <= EndOf(Len(ends))
  BY DEF ReaderInv, StreamInv, Total
<1>3. Len(sent) \in Nat
  BY <1>1, LenProperties
<1>4. handled # Len(sent)
  BY <1>1, <1>2 DEF Buffered
<1>5. handled + 1 \in 1..Len(sent)
  BY <1>1, <1>2, <1>3, <1>4
<1> QED
  BY <1>1, <1>5, ElementOfSeq DEF NextFrame

-----------------------------------------------------------------------------
(* The steps. *)

\* The empty fragment has the type of one, and fits.
LEMMA NoFragmentType ==
  NoFragment \in FragmentType /\ Len(NoFragment.payload) <= MaxMessageSize
<1>1. MaxMessageSize \in Nat
  BY ReaderAssumption
<1>2. NoFragment \in FragmentType
  BY DEF NoFragment, FragmentType
<1>3. Len(NoFragment.payload) = 0
  BY DEF NoFragment
<1> QED
  BY <1>1, <1>2, <1>3

\* Before the first byte nothing is buffered.
LEMMA InitReaderInv == Init => ReaderInv
<1> SUFFICES ASSUME Init
             PROVE  ReaderInv
  OBVIOUS
<1>1. /\ pc = "last" /\ open = TRUE /\ received = 0 /\ consumed = 0 /\ handled = 0
      /\ fragment = NoFragment /\ sent = <<>> /\ ends = <<>>
  BY DEF Init
<1>2. TypeInv
  BY <1>1 DEF TypeInv, NoFragment, Bytes, FragmentType
<1>3. StreamInv
  BY <1>1 DEF StreamInv, EndOf, Total
<1>4. BoundedMemory
  <2>1. MaxMessageSize \in Nat /\ ReadChunk \in Nat
    BY ReaderAssumption
  <2> QED
    BY <1>1, <2>1 DEF BoundedMemory, Buffered, ReadLimit, MaxHeader, NoFragment
<1> QED
  BY <1>2, <1>3, <1>4 DEF ReaderInv

\* A step that leaves the stream alone, and the fragment as it should be.
LEMMA QuietStep ==
  ASSUME ReaderInv, UNCHANGED <<received, consumed, sent, ends, handled>>,
         fragment' \in {fragment, NoFragment},
         pc' \in {"wait", "reads", "frames", "last"}, open' \in BOOLEAN,
         open' /\ pc' \in {"wait", "reads"} =>
           Buffered < Max({MaxControl, MaxMessageSize}) + MaxHeader
  PROVE  ReaderInv'
<1>0. fragment' \in FragmentType /\ Len(fragment'.payload) <= MaxMessageSize
  BY NoFragmentType DEF ReaderInv, TypeInv, BoundedMemory
<1>1. TypeInv'
  BY <1>0 DEF ReaderInv, TypeInv
<1>2. StreamInv'
  BY DEF ReaderInv, StreamInv, EndOf, Total
<1>3. Buffered' = Buffered
  BY DEF Buffered
<1>4. BoundedMemory'
  BY <1>0, <1>3 DEF ReaderInv, BoundedMemory, ReadLimit
<1> QED
  BY <1>1, <1>2, <1>4 DEF ReaderInv

\* A frame the peer sends ends behind all the others.
LEMMA PeerSendsStep ==
  ASSUME ReaderInv, PeerSends
  PROVE  ReaderInv'
<1>1. PICK f \in PeerFrames : sent' = Append(sent, f) /\ ends' = Append(ends, Total + FrameLen(f))
  BY DEF PeerSends
<1>2. UNCHANGED <<pc, open, received, consumed, fragment, handled>>
  BY DEF PeerSends
<1>3. /\ handled \in Nat /\ sent \in Seq(PeerFrames) /\ ends \in Seq(Nat)
      /\ received \in Nat /\ consumed \in Nat
  BY DEF ReaderInv, TypeInv
<1>4. /\ Len(ends) = Len(sent) /\ handled <= Len(sent)
      /\ \A i \in 1..Len(sent) : ends[i] = EndOf(i - 1) + FrameLen(sent[i])
      /\ consumed = EndOf(handled) /\ consumed <= received /\ received <= Total
  BY DEF ReaderInv, StreamInv
<1> DEFINE k == Len(sent)
<1>5. k \in Nat /\ Len(ends) = k
  BY <1>3, <1>4, LenProperties
<1>6. \A i \in 0..k : EndOf(i) \in Nat
  <2> SUFFICES ASSUME NEW i \in 0..k, i # 0
               PROVE  ends[i] \in Nat
    BY DEF EndOf
  <2>1. i \in 1..Len(ends)
    BY <1>5
  <2> QED
    BY <1>3, <2>1, ElementOfSeq
<1>7. Total = EndOf(k) /\ Total \in Nat /\ FrameLen(f) \in Nat
  BY <1>5, <1>6, FrameLengths DEF Total
<1>8. /\ sent' \in Seq(PeerFrames) /\ Len(sent') = k + 1
      /\ \A i \in 1..k : sent'[i] = sent[i]
      /\ sent'[k + 1] = f
  BY <1>1, <1>3, <1>5
<1>9. /\ ends' \in Seq(Nat) /\ Len(ends') = k + 1
      /\ \A i \in 1..k : ends'[i] = ends[i]
      /\ ends'[k + 1] = Total + FrameLen(f)
  BY <1>1, <1>3, <1>5, <1>7
<1> HIDE DEF k
<1>10. \A i \in 0..k : EndOf(i)' = EndOf(i)
  <2> SUFFICES ASSUME NEW i \in 0..k, i # 0
               PROVE  ends'[i] = ends[i]
    BY DEF EndOf
  <2>1. i \in 1..k
    BY <1>5
  <2> QED
    BY <1>9, <2>1
<1>11. TypeInv'
  BY <1>2, <1>8, <1>9 DEF ReaderInv, TypeInv
<1>12. StreamInv'
  <2>1. handled \in 0..k /\ handled <= k + 1
    BY <1>3, <1>4, <1>5 DEF k
  <2>2. EndOf(handled)' = EndOf(handled)
    BY <1>2, <1>10, <2>1 DEF EndOf
  <2>3. Total' = Total + FrameLen(f)
    BY <1>5, <1>9 DEF Total, EndOf
  <2>4. ASSUME NEW i \in 1..(k + 1)
        PROVE  ends'[i] = EndOf(i - 1)' + FrameLen(sent'[i])
    <3>1. CASE i = k + 1
      <4>1. i - 1 = k /\ k \in 0..k
        BY <1>5, <3>1
      <4>2. EndOf(i - 1)' = Total
        BY <1>7, <1>10, <4>1
      <4> QED
        BY <1>8, <1>9, <3>1, <4>2
    <3>2. CASE i # k + 1
      <4>1. i \in 1..k /\ i - 1 \in 0..k
        BY <1>5, <3>2
      <4>2. EndOf(i - 1)' = EndOf(i - 1)
        BY <1>10, <4>1
      <4> QED
        BY <1>4, <1>8, <1>9, <4>1, <4>2 DEF k
    <3> QED
      BY <3>1, <3>2
  <2>5. received <= Total + FrameLen(f)
    BY <1>3, <1>4, <1>7
  <2> QED
    BY <1>2, <1>4, <1>8, <1>9, <2>1, <2>2, <2>3, <2>4, <2>5 DEF StreamInv
<1>13. BoundedMemory'
  <2>1. Buffered' = Buffered
    BY <1>2 DEF Buffered
  <2> QED
    BY <1>2, <2>1 DEF ReaderInv, BoundedMemory
<1> QED
  BY <1>11, <1>12, <1>13 DEF ReaderInv

\* recv() adds what the read limit allows, or gives up.
LEMMA RecvStep ==
  ASSUME ReaderInv, Recv
  PROVE  ReaderInv'
<1>1. /\ received \in Nat /\ consumed \in Nat /\ Total \in Nat /\ received <= Total
  <2>1. received \in Nat /\ consumed \in Nat /\ received <= Total /\ ends \in Seq(Nat)
    BY DEF ReaderInv, TypeInv, StreamInv
  <2>2. Len(ends) \in Nat
    BY <2>1, LenProperties
  <2>3. Len(ends) # 0 => ends[Len(ends)] \in Nat
    BY <2>1, <2>2, ElementOfSeq
  <2> QED
    BY <2>1, <2>2, <2>3 DEF Total, EndOf
<1>2. PICK n \in {m \in ChunkSizes : m <= Available} \cup {Min({Available, ReadChunk})} :
        IF HasCapacity(n)
        THEN /\ received' = received + n
             /\ pc' = "frames"
             /\ UNCHANGED <<open, code, culprit>>
        ELSE /\ GiveUp(1009, handled + 1)
             /\ pc' = "wait"
             /\ UNCHANGED received
  BY DEF Recv
<1>3. UNCHANGED <<consumed, fragment, sent, ends, handled>>
  BY DEF Recv
<1>4. n \in Nat /\ n <= Available
  <2>1. Available \in Nat /\ ReadChunk \in Nat /\ ChunkSizes \subseteq Nat
    BY <1>1, ReaderAssumption DEF Available
  <2>2. Min({Available, ReadChunk}) \in Nat /\ Min({Available, ReadChunk}) <= Available
    BY <2>1, MinOfTwo
  <2> HIDE DEF Available
  <2> QED
    BY <2>1, <2>2
<1>5. CASE ~HasCapacity(n)
  <2>1. open' = FALSE /\ pc' = "wait" /\ UNCHANGED received
    BY <1>2, <1>5 DEF GiveUp
  <2> QED
    BY <1>3, <2>1, QuietStep
<1>6. CASE HasCapacity(n)
  <2>1. received' = received + n /\ pc' = "frames" /\ UNCHANGED open
    BY <1>2, <1>6
  <2>2. received' \in Nat
    BY <1>1, <1>4, <2>1
  <2>3. TypeInv'
    BY <1>3, <2>1, <2>2 DEF ReaderInv, TypeInv
  <2>4. consumed <= received' /\ received' <= Total
    <3>1. consumed <= received
      BY DEF ReaderInv, StreamInv
    <3> QED
      BY <1>1, <1>4, <2>1, <3>1 DEF Available
  <2>5. StreamInv'
    BY <1>3, <2>4 DEF ReaderInv, StreamInv, EndOf, Total
  <2>6. Buffered' <= ReadLimit
    <3>1. ReadLimit \in Nat
      BY ReaderAssumption DEF ReadLimit, MaxHeader
    <3> QED
      BY <1>1, <1>3, <1>4, <1>6, <2>1, <3>1 DEF HasCapacity, Buffered
  <2>7. BoundedMemory'
    BY <1>3, <2>1, <2>6 DEF ReaderInv, BoundedMemory, ReadLimit
  <2> QED
    BY <2>3, <2>5, <2>7 DEF ReaderInv
<1> QED
  BY <1>5, <1>6

\* A frame leaves the buffer; what handle_frame() does with the fragment is given.
LEMMA TakeStep ==
  ASSUME ReaderInv, NEW f \in PeerFrames, Take(f), open' \in BOOLEAN,
         fragment' \in FragmentType, Len(fragment'.payload) <= MaxMessageSize
  PROVE  ReaderInv'
<1>1. /\ pc \in {"frames", "last"} /\ Status = "OK" /\ f = NextFrame
      /\ consumed' = consumed + FrameLen(f) /\ handled' = handled + 1
      /\ UNCHANGED <<pc, received, sent, ends>>
  BY DEF Take, Parsing
<1>2. /\ handled \in Nat /\ received \in Nat /\ consumed \in Nat
      /\ sent \in Seq(PeerFrames) /\ ends \in Seq(Nat)
  BY DEF ReaderInv, TypeInv
<1>3. /\ Len(ends) = Len(sent) /\ consumed = EndOf(handled)
      /\ \A i \in 1..Len(sent) : ends[i] = EndOf(i - 1) + FrameLen(sent[i])
      /\ consumed <= received /\ received <= Total
  BY DEF ReaderInv, StreamInv
<1>4. Buffered \in Nat /\ Buffered # 0 /\ ParseFrame(f, Buffered) = "OK"
  <2>1. Buffered \in Nat
    BY <1>2, <1>3 DEF Buffered
  <2> QED
    BY <1>1, <2>1 DEF Status
<1>5. Buffered >= FrameLen(f) /\ FrameLen(f) \in Nat /\ FrameLen(f) > 0
  BY <1>4, ParsedOK, FrameLengths
<1>6. handled + 1 \in 1..Len(sent)
  <2>1. Buffered > 0
    BY <1>4
  <2> QED
    BY <2>1, NextFrameSent
<1>7. TypeInv'
  <2>1. consumed' \in Nat /\ handled' \in Nat
    BY <1>1, <1>2, <1>5
  <2> QED
    BY <1>1, <1>2, <2>1 DEF ReaderInv, TypeInv
<1>8. consumed' = EndOf(handled + 1)
  <2>1. (handled + 1) - 1 = handled /\ handled + 1 # 0
    BY <1>2
  <2>2. ends[handled + 1] = EndOf(handled) + FrameLen(f)
    BY <1>1, <1>3, <1>6, <2>1 DEF NextFrame
  <2> QED
    BY <1>1, <1>3, <2>1, <2>2 DEF EndOf
<1>9. consumed' <= received /\ handled + 1 <= Len(sent)
  <2>1. Len(sent) \in Nat
    BY <1>2, LenProperties
  <2> QED
    BY <1>1, <1>2, <1>5, <1>6, <2>1 DEF Buffered
<1>10. StreamInv'
  BY <1>1, <1>3, <1>8, <1>9 DEF StreamInv, EndOf, Total
<1>11. Buffered' <= ReadLimit
  <2>1. Buffered <= ReadLimit /\ ReadLimit \in Nat
    BY ReaderAssumption DEF ReaderInv, BoundedMemory, ReadLimit, MaxHeader
  <2> QED
    BY <1>1, <1>2, <1>5, <2>1 DEF Buffered
<1>12. BoundedMemory'
  BY <1>1, <1>11 DEF BoundedMemory, ReadLimit
<1> QED
  BY <1>7, <1>10, <1>12 DEF ReaderInv

\* append_fragment() keeps the limit.
LEMMA AppendKeepsLimit ==
  ASSUME NEW f \in PeerFrames, fragment \in FragmentType, AppendFragment(f.data).ok
  PROVE  /\ AppendFragment(f.data).payload \in Seq(Bytes)
         /\ Len(AppendFragment(f.data).payload) <= MaxMessageSize
<1>1. f.data \in Seq(Bytes) /\ fragment.payload \in Seq(Bytes) /\ MaxMessageSize \in Nat
  BY FrameLengths, ReaderAssumption DEF FragmentType
<1>2. Len(f.data) \in Nat /\ Len(fragment.payload) \in Nat
  BY <1>1, LenProperties
<1>3. /\ Len(fragment.payload) <= MaxMessageSize - Len(f.data)
      /\ AppendFragment(f.data).payload = fragment.payload \o f.data
  BY DEF AppendFragment
<1>4. /\ fragment.payload \o f.data \in Seq(Bytes)
      /\ Len(fragment.payload \o f.data) = Len(fragment.payload) + Len(f.data)
  BY <1>1, ConcatProperties
<1>5. Len(fragment.payload) + Len(f.data) <= MaxMessageSize
  <2> DEFINE x == Len(fragment.payload)
             y == Len(f.data)
  <2>1. x \in Nat /\ y \in Nat /\ x <= MaxMessageSize - y
    BY <1>2, <1>3
  <2> HIDE DEF x, y
  <2>2. x + y <= MaxMessageSize
    BY <1>1, <2>1
  <2> QED
    BY <2>2 DEF x, y
<1>6. Len(AppendFragment(f.data).payload) = Len(fragment.payload) + Len(f.data)
  BY <1>3, <1>4
<1> QED
  BY <1>3, <1>4, <1>5, <1>6

\* A continuation is appended only within the message limit.
LEMMA ContinuationStep ==
  ASSUME ReaderInv, HandleContinuation
  PROVE  ReaderInv'
<1>1. PICK f \in PeerFrames : Take(f) /\ f.op = "continuation" /\ Continuation(f)
  BY DEF HandleContinuation
<1> DEFINE a == AppendFragment(f.data)
<1>2. fragment \in FragmentType /\ Len(fragment.payload) <= MaxMessageSize /\ open \in BOOLEAN
  BY DEF ReaderInv, TypeInv, BoundedMemory
<1>3. open' \in BOOLEAN
  <2>1. \/ Refuse(1002) \/ Refuse(1009) \/ Refuse(1007)
        \/ Deliver(fragment.opcode, AppendFragment(f.data).payload) \/ Accepted
    <3>1. Continuation(f)
      BY <1>1
    <3> QED
      BY <3>1 DEF Continuation
  <2> QED
    BY <1>2, <2>1, ZenonT(40) DEF Refuse, GiveUp, Deliver, Accepted
<1>4. \/ fragment' \in {fragment, NoFragment}
      \/ a.ok /\ fragment' = [fragment EXCEPT !.payload = a.payload]
  BY <1>1 DEF Continuation
<1>5. a.ok => a.payload \in Seq(Bytes) /\ Len(a.payload) <= MaxMessageSize
  BY <1>2, AppendKeepsLimit
<1> HIDE DEF a
<1>6. fragment' \in FragmentType /\ Len(fragment'.payload) <= MaxMessageSize
  <2>1. CASE fragment' \in {fragment, NoFragment}
    BY <1>2, <2>1, NoFragmentType
  <2>2. CASE a.ok /\ fragment' = [fragment EXCEPT !.payload = a.payload]
    BY <1>2, <1>5, <2>2 DEF FragmentType
  <2> QED
    BY <1>4, <2>1, <2>2
<1> QED
  BY <1>1, <1>3, <1>6, TakeStep

\* A message begins within the limit.
LEMMA FirstStep ==
  ASSUME ReaderInv, HandleFirst
  PROVE  ReaderInv'
<1>1. PICK f \in PeerFrames : Take(f) /\ f.op \in {"text", "binary"} /\ FirstFrame(f)
  BY DEF HandleFirst
<1>2. fragment \in FragmentType /\ Len(fragment.payload) <= MaxMessageSize /\ open \in BOOLEAN
  BY DEF ReaderInv, TypeInv, BoundedMemory
<1>3. open' \in BOOLEAN
  <2>1. Refuse(1002) \/ Refuse(1007) \/ Deliver(f.op, f.data) \/ Accepted
    <3>1. FirstFrame(f)
      BY <1>1
    <3> QED
      BY <3>1 DEF FirstFrame
  <2> QED
    BY <1>2, <2>1, ZenonT(40) DEF Refuse, GiveUp, Deliver, Accepted
<1>4. \/ fragment' \in {fragment, NoFragment}
      \/ fragment' = [fragmented |-> TRUE, opcode |-> f.op, payload |-> f.data]
  BY <1>1 DEF FirstFrame
<1>5. f.data \in Seq(Bytes) /\ Len(f.data) <= MaxMessageSize
  <2>1. f.data \in Seq(Bytes)
    BY FrameLengths
  <2>2. Buffered \in Nat /\ ParseFrame(f, Buffered) = "OK"
    <3>1. received \in Nat /\ consumed \in Nat /\ consumed <= received
      BY DEF ReaderInv, TypeInv, StreamInv
    <3>2. Status = "OK" /\ f = NextFrame
      BY <1>1 DEF Take
    <3> QED
      BY <3>1, <3>2 DEF Status, Buffered
  <2>3. f.op \in DataOps
    BY <1>1 DEF DataOps
  <2> QED
    BY <2>1, <2>2, <2>3, ParsedOK
<1>6. fragment' \in FragmentType /\ Len(fragment'.payload) <= MaxMessageSize
  <2>1. CASE fragment' \in {fragment, NoFragment}
    BY <1>2, <2>1, NoFragmentType
  <2>2. CASE fragment' = [fragmented |-> TRUE, opcode |-> f.op, payload |-> f.data]
    BY <1>1, <1>5, <2>2 DEF FragmentType
  <2> QED
    BY <1>4, <2>1, <2>2
<1> QED
  BY <1>1, <1>3, <1>6, TakeStep

\* A control frame leaves the fragments as they are.
LEMMA ControlStep ==
  ASSUME ReaderInv, HandlePing \/ HandlePong \/ HandleClose
  PROVE  ReaderInv'
<1>1. fragment \in FragmentType /\ Len(fragment.payload) <= MaxMessageSize /\ open \in BOOLEAN
  BY DEF ReaderInv, TypeInv, BoundedMemory
<1>2. PICK f \in PeerFrames : Take(f) /\ open' \in BOOLEAN /\ fragment' \in {fragment, NoFragment}
  BY <1>1 DEF HandlePing, HandlePong, HandleClose, Accepted
<1>3. fragment' \in FragmentType /\ Len(fragment'.payload) <= MaxMessageSize
  BY <1>1, <1>2, NoFragmentType
<1> QED
  BY <1>2, <1>3, TakeStep

\* process_buffered_frames() returns with less than one frame in the buffer.
LEMMA FramesDoneStep ==
  ASSUME ReaderInv, FramesDone
  PROVE  ReaderInv'
<1>1. /\ ~open \/ Status = "INCOMPLETE"
      /\ pc' \in {"wait", "reads"}
      /\ UNCHANGED <<open, received, consumed, fragment, sent, ends, handled>>
  BY DEF FramesDone, Return
<1>2. open \in BOOLEAN /\ received \in Nat /\ consumed \in Nat /\ consumed <= received
  BY DEF ReaderInv, TypeInv, StreamInv
<1>3. Buffered \in Nat
  BY <1>2 DEF Buffered
<1>4. ASSUME Status = "INCOMPLETE"
      PROVE  Buffered < Max({MaxControl, MaxMessageSize}) + MaxHeader
  <2>1. CASE Buffered = 0
    <3>1. MaxMessageSize \in Nat /\ MaxControl \in Nat
      BY ReaderAssumption
    <3>2. Max({MaxControl, MaxMessageSize}) \in Nat
      BY <3>1, MaxOfTwo
    <3> QED
      BY <2>1, <3>2 DEF MaxHeader
  <2>2. CASE Buffered # 0
    <3>1. ParseFrame(NextFrame, Buffered) = "INCOMPLETE" /\ Buffered > 0
      BY <1>3, <1>4, <2>2 DEF Status
    <3>2. NextFrame \in PeerFrames
      BY <3>1, NextFrameSent
    <3> QED
      BY <1>3, <3>1, <3>2, WaitsForBounded
  <2> QED
    BY <2>1, <2>2
<1> QED
  BY <1>1, <1>2, <1>4, QuietStep

\* The other steps: those that only wake, wait or close.
LEMMA OtherSteps ==
  ASSUME ReaderInv,
         Wake \/ Sweep \/ RecvNothing \/ RecvEnd \/ ClosedElsewhere \/ FrameError
  PROVE  ReaderInv'
<1>1. pc \in {"wait", "reads", "frames", "last"} /\ open \in BOOLEAN
  BY DEF ReaderInv, TypeInv
<1>2. open /\ pc \in {"wait", "reads"} => Buffered < Max({MaxControl, MaxMessageSize}) + MaxHeader
  BY DEF ReaderInv, BoundedMemory
<1>3. CASE Wake
  BY <1>1, <1>2, <1>3, QuietStep DEF Wake
<1>4. CASE Sweep
  BY <1>1, <1>4, QuietStep DEF Sweep
<1>5. CASE RecvNothing
  BY <1>1, <1>5, QuietStep DEF RecvNothing
<1>6. CASE RecvEnd
  BY <1>6, QuietStep DEF RecvEnd
<1>7. CASE ClosedElsewhere
  BY <1>7, QuietStep DEF ClosedElsewhere
<1>8. CASE FrameError
  <2>1. /\ open' = FALSE /\ pc' \in {"wait", "reads"} /\ fragment' = NoFragment
        /\ UNCHANGED <<received, consumed, sent, ends, handled>>
    BY <1>8 DEF FrameError, GiveUp, Return
  <2> QED
    BY <2>1, QuietStep
<1> QED
  BY <1>3, <1>4, <1>5, <1>6, <1>7, <1>8

\* The reader's invariant, in every state.
THEOREM ReaderInvariance == Spec => []ReaderInv
<1>1. Init => ReaderInv
  BY InitReaderInv
<1>2. ReaderInv /\ [Next]_vars => ReaderInv'
  <2> SUFFICES ASSUME ReaderInv, [Next]_vars
               PROVE  ReaderInv'
    OBVIOUS
  <2>1. CASE Next
    BY <2>1, PeerSendsStep, RecvStep, ContinuationStep, FirstStep, ControlStep, FramesDoneStep, OtherSteps
       DEF Next
  <2>2. CASE UNCHANGED vars
    BY <2>2 DEF vars, ReaderInv, TypeInv, StreamInv, BoundedMemory, EndOf, Total, Buffered, ReadLimit
  <2> QED
    BY <2>1, <2>2
<1> QED
  BY <1>1, <1>2, PTL DEF Spec

(***************************************************************************)
(* A peer costs bounded memory, whatever it sends and however it arrives:  *)
(* the read buffer keeps its limit (ensure_read_capacity()), a fragmented  *)
(* message its own (append_fragment()), and a buffer that waits for more   *)
(* holds less than one frame that parse_frame() would let pass.            *)
(***************************************************************************)
THEOREM MemoryIsBounded == Spec => []BoundedMemory
<1>1. ReaderInv => BoundedMemory
  BY DEF ReaderInv
<1> QED
  BY <1>1, ReaderInvariance, PTL

-----------------------------------------------------------------------------
(* The meaning of a sequence of frames, one frame at a time. *)

\* A data frame joins the unfinished message or completes it.
LEMMA UnfinishedNext ==
  ASSUME NEW fs, NEW i \in Nat, i >= 1
  PROVE  Unfinished(fs, i + 1) =
           IF fs[i].op \notin DataOps THEN Unfinished(fs, i)
           ELSE IF fs[i].fin THEN {} ELSE Unfinished(fs, i) \cup {i}
<1> DEFINE Data(k) == fs[k].op \in DataOps
           Final(k) == fs[k].fin
<1>1. (i + 1) - 1 = i
  OBVIOUS
<1>2. Unfinished(fs, i + 1) = {j \in 1..i : Data(j) /\ \A k \in j..i : Data(k) => ~Final(k)}
  BY <1>1 DEF Unfinished
<1>3. Unfinished(fs, i) = {j \in 1..(i - 1) : Data(j) /\ \A k \in j..(i - 1) : Data(k) => ~Final(k)}
  BY DEF Unfinished
<1> HIDE DEF Data, Final
<1>4. CASE ~Data(i)
  <2>1. Unfinished(fs, i + 1) = Unfinished(fs, i)
    <3>1. ASSUME NEW j \in Unfinished(fs, i + 1) PROVE j \in Unfinished(fs, i)
      <4>1. j \in 1..i /\ Data(j) /\ \A k \in j..i : Data(k) => ~Final(k)
        BY <1>2, <3>1
      <4>2. j \in 1..(i - 1) /\ \A k \in j..(i - 1) : k \in j..i
        BY <1>4, <4>1
      <4> QED
        BY <1>3, <4>1, <4>2
    <3>2. ASSUME NEW j \in Unfinished(fs, i) PROVE j \in Unfinished(fs, i + 1)
      <4>1. j \in 1..(i - 1) /\ Data(j) /\ \A k \in j..(i - 1) : Data(k) => ~Final(k)
        BY <1>3, <3>2
      <4>2. j \in 1..i /\ \A k \in j..i : k \in j..(i - 1) \/ k = i
        BY <4>1
      <4> QED
        BY <1>2, <1>4, <4>1, <4>2
    <3> QED
      BY <3>1, <3>2
  <2> QED
    BY <1>4, <2>1 DEF Data
<1>5. CASE Data(i) /\ Final(i)
  <2>1. Unfinished(fs, i + 1) = {}
    <3> SUFFICES ASSUME NEW j \in Unfinished(fs, i + 1) PROVE FALSE
      OBVIOUS
    <3>1. j \in 1..i /\ \A k \in j..i : Data(k) => ~Final(k)
      BY <1>2
    <3>2. i \in j..i
      BY <3>1
    <3> QED
      BY <1>5, <3>1, <3>2
  <2> QED
    BY <1>5, <2>1 DEF Data, Final
<1>6. CASE Data(i) /\ ~Final(i)
  <2>1. Unfinished(fs, i + 1) = Unfinished(fs, i) \cup {i}
    <3>1. ASSUME NEW j \in Unfinished(fs, i + 1) PROVE j \in Unfinished(fs, i) \cup {i}
      <4>1. j \in 1..i /\ Data(j) /\ \A k \in j..i : Data(k) => ~Final(k)
        BY <1>2, <3>1
      <4>2. j # i => j \in 1..(i - 1)
        BY <4>1
      <4>3. \A k \in j..(i - 1) : k \in j..i
        BY <4>1
      <4> QED
        BY <1>3, <4>1, <4>2, <4>3
    <3>2. ASSUME NEW j \in Unfinished(fs, i) PROVE j \in Unfinished(fs, i + 1)
      <4>1. j \in 1..(i - 1) /\ Data(j) /\ \A k \in j..(i - 1) : Data(k) => ~Final(k)
        BY <1>3, <3>2
      <4>2. j \in 1..i /\ \A k \in j..i : k \in j..(i - 1) \/ k = i
        BY <4>1
      <4> QED
        BY <1>2, <1>6, <4>1, <4>2
    <3>3. i \in Unfinished(fs, i + 1)
      <4>1. i \in 1..i /\ \A k \in i..i : k = i
        OBVIOUS
      <4> QED
        BY <1>2, <1>6, <4>1
    <3> QED
      BY <3>1, <3>2, <3>3
  <2> QED
    BY <1>6, <2>1 DEF Data, Final
<1> QED
  BY <1>4, <1>5, <1>6

\* The payload of one part more.
LEMMA PayloadNext ==
  ASSUME NEW fs \in Seq(PeerFrames), NEW n \in Nat, n + 1 <= Len(fs),
         NEW P, NEW Q, \A k \in 1..n : k \in P <=> k \in Q
  PROVE  /\ Payload(fs, P, n) \in Seq(Bytes)
         /\ Payload(fs, Q, n + 1) =
              Payload(fs, P, n) \o (IF n + 1 \in Q THEN fs[n + 1].data ELSE <<>>)
<1> DEFINE s == [k \in 1..n |-> IF k \in P THEN fs[k].data ELSE <<>>]
           t == [k \in 1..(n + 1) |-> IF k \in Q THEN fs[k].data ELSE <<>>]
<1>1. Len(fs) \in Nat /\ \A k \in 1..(n + 1) : k \in 1..Len(fs)
  BY LenProperties
<1>2. \A k \in 1..(n + 1) : fs[k].data \in Seq(Bytes) /\ <<>> \in Seq(Bytes)
  BY <1>1, ElementOfSeq, FrameLengths, EmptySeq
<1>3. s \in [1..n -> Seq(Bytes)] /\ t \in [1..(n + 1) -> Seq(Bytes)]
  <2>1. \A k \in 1..n : k \in 1..(n + 1)
    OBVIOUS
  <2> QED
    BY <1>2, <2>1
<1>4. s \in Seq(Seq(Bytes)) /\ Len(s) = n /\ t \in Seq(Seq(Bytes)) /\ Len(t) = n + 1
  <2> HIDE DEF s, t
  <2>1. n + 1 \in Nat
    OBVIOUS
  <2> QED
    BY <1>3, <2>1
<1>5. \A k \in 1..n : t[k] = s[k]
  <2>1. \A k \in 1..n : k \in 1..(n + 1)
    OBVIOUS
  <2> QED
    BY <2>1
<1>6. t[n + 1] = IF n + 1 \in Q THEN fs[n + 1].data ELSE <<>>
  <2>1. n + 1 \in 1..(n + 1)
    OBVIOUS
  <2> QED
    BY <2>1
<1>7. FlattenSeq(s) = Payload(fs, P, n) /\ FlattenSeq(t) = Payload(fs, Q, n + 1)
  BY DEF Payload
<1> HIDE DEF s, t
<1>8. FlattenSeq(s) \in Seq(Bytes)
  BY <1>4, FlattenType
<1>9. FlattenSeq(t) = FlattenSeq(s) \o t[n + 1]
  BY <1>4, <1>5, FlattenNext
<1> QED
  BY <1>6, <1>7, <1>8, <1>9

\* No part, no payload.
LEMMA PayloadOfNone ==
  ASSUME NEW fs, NEW n \in Nat
  PROVE  Payload(fs, {}, n) = <<>>
<1> DEFINE s == [k \in 1..n |-> IF k \in {} THEN fs[k].data ELSE <<>>]
<1>1. <<>> \in Seq({})
  BY EmptySeq
<1>2. s \in [1..n -> Seq({})]
  BY <1>1
<1>3. FlattenSeq(s) = Payload(fs, {}, n)
  BY DEF Payload
<1> HIDE DEF s
<1>4. s \in Seq(Seq({}))
  BY <1>2
<1>5. FlattenSeq(s) \in Seq({})
  BY <1>4, FlattenType
<1>6. \A q \in Seq({}) : q = <<>>
  <2> SUFFICES ASSUME NEW q \in Seq({}), q # <<>> PROVE FALSE
    OBVIOUS
  <2>1. Len(q) \in Nat \ {0}
    BY EmptySeq
  <2>2. 1 \in 1..Len(q)
    BY <2>1
  <2>3. q[1] \in {}
    BY <2>2, ElementOfSeq
  <2> QED
    BY <2>3
<1> QED
  BY <1>3, <1>5, <1>6

\* The message with frame n + 1 at its end: what is unfinished, and that frame.
LEMMA MessageNext ==
  ASSUME NEW fs \in Seq(PeerFrames), NEW n \in Nat, n + 1 <= Len(fs),
         NEW P, P = Unfinished(fs, n + 1)
  PROVE  /\ MessageAt(fs, n + 1).data = Payload(fs, P, n) \o fs[n + 1].data
         /\ MessageAt(fs, n + 1).data = Payload(fs, P \cup {n + 1}, n + 1)
         /\ P = {} => MessageAt(fs, n + 1).op = fs[n + 1].op
         /\ P # {} => /\ MessageAt(fs, n + 1).op = fs[Min(P)].op
                      /\ Min(P \cup {n + 1}) = Min(P)
         /\ P = {} => MessageAt(fs, n + 1).data = fs[n + 1].data
         /\ Min({n + 1}) = n + 1
         /\ MessageAt(fs, n + 1) = [op |-> MessageAt(fs, n + 1).op, data |-> MessageAt(fs, n + 1).data]
<1> DEFINE Q == P \cup {n + 1}
<1>1. P \subseteq 1..n
  <2>1. (n + 1) - 1 = n
    OBVIOUS
  <2> QED
    BY <2>1 DEF Unfinished
<1>2. \A k \in 1..n : k \in P <=> k \in Q
  OBVIOUS
<1>3. n + 1 \in Q
  OBVIOUS
<1>4. MessageAt(fs, n + 1) = [op |-> fs[Min(Q)].op, data |-> Payload(fs, Q, n + 1)]
  BY DEF MessageAt
<1> HIDE DEF Q
<1>5. Payload(fs, Q, n + 1) = Payload(fs, P, n) \o fs[n + 1].data
  BY <1>2, <1>3, PayloadNext
<1>6. MessageAt(fs, n + 1).op = fs[Min(Q)].op /\ MessageAt(fs, n + 1).data = Payload(fs, Q, n + 1)
  BY <1>4
<1>7. Min({n + 1}) = n + 1
  BY MinOfSet
<1>8. P # {} => Min(Q) = Min(P)
  <2> SUFFICES ASSUME P # {} PROVE Min(Q) = Min(P)
    OBVIOUS
  <2>1. PICK x \in P : \A y \in P : x <= y
    BY <1>1, LeastNat
  <2>2. P \subseteq Nat /\ Q \subseteq Nat
    BY <1>1 DEF Q
  <2>3. Min(P) = x
    BY <2>1, <2>2, MinOfSet
  <2>4. x \in Q /\ \A y \in Q : x <= y
    BY <1>1, <2>1 DEF Q
  <2>5. Min(Q) = x
    BY <2>2, <2>4, MinOfSet
  <2> QED
    BY <2>3, <2>5
<1>9. P = {} => Q = {n + 1}
  BY DEF Q
<1>10. P = {} => MessageAt(fs, n + 1).data = fs[n + 1].data
  <2> SUFFICES ASSUME P = {} PROVE MessageAt(fs, n + 1).data = fs[n + 1].data
    OBVIOUS
  <2>1. Payload(fs, P, n) = <<>>
    BY PayloadOfNone
  <2>2. fs[n + 1] \in PeerFrames
    <3>1. n + 1 \in 1..Len(fs)
      BY LenProperties
    <3> QED
      BY <3>1, ElementOfSeq
  <2>3. fs[n + 1].data \in Seq(Bytes)
    BY <2>2, FrameLengths
  <2> QED
    BY <1>5, <1>6, <2>1, <2>3, ConcatEmptySeq
<1>11. Q = P \cup {n + 1}
  BY DEF Q
<1>12. MessageAt(fs, n + 1) = [op |-> MessageAt(fs, n + 1).op, data |-> MessageAt(fs, n + 1).data]
  BY <1>4
<1> QED
  BY <1>5, <1>6, <1>7, <1>8, <1>9, <1>10, <1>11, <1>12

Completes(f) == f.op \in DataOps /\ f.fin

\* A data frame with FIN adds its message to the messages, another frame none.
LEMMA MessagesNext ==
  ASSUME NEW fs, NEW n \in Nat
  PROVE  /\ Completes(fs[n + 1]) =>
              Messages(fs, n + 1) = Append(Messages(fs, n), MessageAt(fs, n + 1))
         /\ ~Completes(fs[n + 1]) => Messages(fs, n + 1) = Messages(fs, n)
<1> DEFINE S == {MessageAt(fs, i) : i \in 1..(n + 1)}
           e(i) == IF fs[i].op \in DataOps /\ fs[i].fin THEN <<MessageAt(fs, i)>> ELSE <<>>
           s == [i \in 1..n |-> e(i)]
           t == [i \in 1..(n + 1) |-> e(i)]
<1>1. \A i \in 1..(n + 1) : e(i) \in Seq(S)
  <2> SUFFICES ASSUME NEW i \in 1..(n + 1) PROVE e(i) \in Seq(S)
    OBVIOUS
  <2>1. MessageAt(fs, i) \in S
    OBVIOUS
  <2> HIDE DEF S
  <2> QED
    BY <2>1
<1>2. Messages(fs, n) = FlattenSeq(s) /\ Messages(fs, n + 1) = FlattenSeq(t)
  BY DEF Messages
<1> HIDE DEF S
<1>3. s \in Seq(Seq(S)) /\ Len(s) = n /\ t \in Seq(Seq(S)) /\ Len(t) = n + 1
  <2>1. n + 1 \in Nat /\ \A i \in 1..n : i \in 1..(n + 1)
    OBVIOUS
  <2> HIDE DEF e
  <2> QED
    BY <1>1, <2>1
<1>4. (\A i \in 1..n : t[i] = s[i]) /\ t[n + 1] = e(n + 1)
  <2>1. n + 1 \in 1..(n + 1) /\ \A i \in 1..n : i \in 1..(n + 1)
    OBVIOUS
  <2> HIDE DEF e
  <2> QED
    BY <2>1
<1>5. Completes(fs[n + 1]) => e(n + 1) = <<MessageAt(fs, n + 1)>>
  BY DEF Completes
<1>6. ~Completes(fs[n + 1]) => e(n + 1) = <<>>
  BY DEF Completes
<1> HIDE DEF s, t, e
<1>7. FlattenSeq(s) \in Seq(S)
  BY <1>3, FlattenType
<1>8. FlattenSeq(t) = FlattenSeq(s) \o t[n + 1]
  BY <1>3, <1>4, FlattenNext
<1>9. FlattenSeq(s) \o <<>> = FlattenSeq(s)
  BY <1>7, ConcatEmptySeq
<1>10. MessageAt(fs, n + 1) \in S
  BY DEF S
<1>11. FlattenSeq(s) \o <<MessageAt(fs, n + 1)>> = Append(FlattenSeq(s), MessageAt(fs, n + 1))
  BY <1>7, <1>10, AppendIsConcat
<1> QED
  BY <1>2, <1>4, <1>5, <1>6, <1>8, <1>9, <1>11

\* No frame, no message.
LEMMA NoMessages ==
  ASSUME NEW fs
  PROVE  Messages(fs, 0) = <<>>
<1>1. [i \in 1..0 |-> IF fs[i].op \in DataOps /\ fs[i].fin THEN <<MessageAt(fs, i)>> ELSE <<>>] = <<>>
  OBVIOUS
<1>2. <<>> \in Seq(Seq({})) /\ Len(<<>>) = 0
  BY EmptySeq
<1>3. FlattenSeq(<<>>) = <<>>
  BY <1>2, FlattenType
<1> QED
  BY <1>1, <1>3 DEF Messages

\* What is sent later does not change what the frames before it mean.
LEMMA UnfinishedAgrees ==
  ASSUME NEW fs, NEW gs, NEW n \in Nat, AgreeUpTo(fs, gs, n), NEW i \in 1..(n + 1)
  PROVE  Unfinished(gs, i) = Unfinished(fs, i) /\ Unfinished(fs, i) \subseteq 1..n
<1>1. \A k \in 1..(i - 1) : gs[k] = fs[k]
  <2>1. \A k \in 1..(i - 1) : k \in 1..n
    OBVIOUS
  <2> QED
    BY <2>1 DEF AgreeUpTo
<1>2. \A j \in 1..(i - 1) : j \in 1..n /\ \A k \in j..(i - 1) : k \in 1..(i - 1)
  OBVIOUS
<1> QED
  BY <1>1, <1>2 DEF Unfinished

\* The same of a message,
LEMMA MessageAgrees ==
  ASSUME NEW fs, NEW gs, NEW n \in Nat, AgreeUpTo(fs, gs, n), NEW i \in 1..n
  PROVE  MessageAt(gs, i) = MessageAt(fs, i)
<1>1. i \in 1..(n + 1) /\ \A k \in 1..i : k \in 1..n
  OBVIOUS
<1>2. \A k \in 1..n : gs[k] = fs[k]
  BY DEF AgreeUpTo
<1> DEFINE Q == Unfinished(fs, i) \cup {i}
<1>3. Unfinished(gs, i) \cup {i} = Q /\ Q \subseteq 1..n
  BY <1>1, UnfinishedAgrees
<1>4. Q \subseteq Nat /\ i \in Q
  BY <1>3
<1>5. MessageAt(fs, i) = [op |-> fs[Min(Q)].op, data |-> Payload(fs, Q, i)]
  BY DEF MessageAt
<1>6. MessageAt(gs, i) = [op |-> gs[Min(Q)].op, data |-> Payload(gs, Q, i)]
  BY <1>3 DEF MessageAt
<1> HIDE DEF Q
<1>7. Min(Q) \in Q
  <2>1. PICK x \in Q : \A y \in Q : x <= y
    BY <1>4, LeastNat
  <2> QED
    BY <1>4, <2>1, MinOfSet
<1>8. Payload(gs, Q, i) = Payload(fs, Q, i)
  <2>1. [k \in 1..i |-> IF k \in Q THEN gs[k].data ELSE <<>>]
          = [k \in 1..i |-> IF k \in Q THEN fs[k].data ELSE <<>>]
    BY <1>1, <1>2
  <2> QED
    BY <2>1 DEF Payload
<1>9. gs[Min(Q)] = fs[Min(Q)]
  BY <1>2, <1>3, <1>7
<1> QED
  BY <1>5, <1>6, <1>8, <1>9

\* of a verdict,
LEMMA DeservedAgrees ==
  ASSUME NEW fs, NEW gs, NEW n \in Nat, AgreeUpTo(fs, gs, n), NEW i \in 1..n
  PROVE  Deserved(gs, i) = Deserved(fs, i)
<1>1. gs[i] = fs[i]
  BY DEF AgreeUpTo
<1>2. Unfinished(gs, i) = Unfinished(fs, i)
  <2>1. i \in 1..(n + 1)
    OBVIOUS
  <2> QED
    BY <2>1, UnfinishedAgrees
<1>3. MessageAt(gs, i) = MessageAt(fs, i)
  BY MessageAgrees
<1> QED
  BY <1>1, <1>2, <1>3 DEF Deserved

\* of a payload,
LEMMA PayloadAgrees ==
  ASSUME NEW fs, NEW gs, NEW n \in Nat, AgreeUpTo(fs, gs, n), NEW P
  PROVE  Payload(gs, P, n) = Payload(fs, P, n)
<1>1. [k \in 1..n |-> IF k \in P THEN gs[k].data ELSE <<>>]
        = [k \in 1..n |-> IF k \in P THEN fs[k].data ELSE <<>>]
  BY DEF AgreeUpTo
<1> QED
  BY <1>1 DEF Payload

\* and of the messages.
LEMMA MessagesAgree ==
  ASSUME NEW fs, NEW gs, NEW n \in Nat, AgreeUpTo(fs, gs, n)
  PROVE  Messages(gs, n) = Messages(fs, n)
<1>1. \A i \in 1..n : gs[i] = fs[i] /\ MessageAt(gs, i) = MessageAt(fs, i)
  BY MessageAgrees DEF AgreeUpTo
<1>2. [i \in 1..n |-> IF gs[i].op \in DataOps /\ gs[i].fin THEN <<MessageAt(gs, i)>> ELSE <<>>]
        = [i \in 1..n |-> IF fs[i].op \in DataOps /\ fs[i].fin THEN <<MessageAt(fs, i)>> ELSE <<>>]
  BY <1>1
<1> QED
  BY <1>2 DEF Messages

-----------------------------------------------------------------------------
(* What the code decides about a frame is what the frame deserves. *)

\* An error of parse_frame(), at whatever length it is found, is the frame's.
LEMMA ErrorIsDeserved ==
  ASSUME NEW fs, NEW i, fs[i] \in PeerFrames, NEW len,
         ParseFrame(fs[i], len) \notin {"INCOMPLETE", "OK"}
  PROVE  Deserved(fs, i) = CloseCode(ParseFrame(fs[i], len))
<1> DEFINE f == fs[i]
           inside == Unfinished(fs, i) # {}
           m == MessageAt(fs, i)
<1>1. f.op \in DataOps \cup ControlOps
  BY FrameLengths
<1>2. f.op \in DataOps <=> f.op \notin ControlOps
  BY <1>1 DEF DataOps, ControlOps
<1>3. f.op = "close" => f.op \in ControlOps
  BY DEF ControlOps
<1>4. Deserved(fs, i) =
      IF \/ f.flaw \in {"head", "length"}
         \/ f.op \in ControlOps /\ (~f.fin \/ Len(f.data) > MaxControl) THEN 1002
      ELSE IF ~(f.op \in ControlOps) /\ Len(f.data) > MaxMessageSize THEN 1009
      ELSE IF f.op = "close" /\ (f.flaw = "code" \/ Len(f.data) = 1) THEN 1002
      ELSE IF f.op = "close" /\ ~IsValidUtf8(SubSeq(f.data, 3, Len(f.data))) THEN 1007
      ELSE IF f.op \in ControlOps THEN 0
      ELSE IF inside # (f.op = "continuation") THEN 1002
      ELSE IF Len(m.data) > MaxMessageSize THEN 1009
      ELSE IF f.fin /\ m.op = "text" /\ ~IsValidUtf8(m.data) THEN 1007
      ELSE 0
  BY DEF Deserved
<1>5. /\ CloseCode("PROTOCOL_ERROR") = 1002 /\ CloseCode("INVALID_PAYLOAD") = 1007
      /\ CloseCode("MESSAGE_TOO_BIG") = 1009
  BY DEF CloseCode
<1> HIDE DEF f, inside, m
<1>6. ParseFrame(f, len) \notin {"INCOMPLETE", "OK"}
  BY DEF f
<1>7. Deserved(fs, i) = CloseCode(ParseFrame(f, len))
  <2>1. CASE f.flaw = "head"
    BY <1>4, <1>5, <1>6, <2>1 DEF ParseFrame
  <2>2. CASE f.flaw = "length"
    BY <1>4, <1>5, <1>6, <2>2 DEF ParseFrame
  <2>3. CASE f.flaw \notin {"head", "length"}
    BY <1>2, <1>3, <1>4, <1>5, <1>6, <2>3 DEF ParseFrame
  <2> QED
    BY <2>1, <2>2, <2>3
<1> QED
  BY <1>7 DEF f

\* What is left to decide of a frame that parse_frame() accepts.
LEMMA ParsedDeserves ==
  ASSUME NEW fs, NEW i, fs[i] \in PeerFrames, NEW len, ParseFrame(fs[i], len) = "OK"
  PROVE  /\ fs[i].op \in ControlOps => Deserved(fs, i) = 0
         /\ fs[i].op \in DataOps =>
              Deserved(fs, i) =
                IF (Unfinished(fs, i) # {}) # (fs[i].op = "continuation") THEN 1002
                ELSE IF Len(MessageAt(fs, i).data) > MaxMessageSize THEN 1009
                ELSE IF /\ fs[i].fin /\ MessageAt(fs, i).op = "text"
                        /\ ~IsValidUtf8(MessageAt(fs, i).data) THEN 1007
                ELSE 0
<1> DEFINE f == fs[i]
           inside == Unfinished(fs, i) # {}
           m == MessageAt(fs, i)
<1>1. f.op \in DataOps \cup ControlOps
  BY FrameLengths
<1>2. f.op \in DataOps <=> f.op \notin ControlOps
  BY <1>1 DEF DataOps, ControlOps
<1>3. f.op = "close" => f.op \in ControlOps
  BY DEF ControlOps
<1>4. Deserved(fs, i) =
      IF \/ f.flaw \in {"head", "length"}
         \/ f.op \in ControlOps /\ (~f.fin \/ Len(f.data) > MaxControl) THEN 1002
      ELSE IF ~(f.op \in ControlOps) /\ Len(f.data) > MaxMessageSize THEN 1009
      ELSE IF f.op = "close" /\ (f.flaw = "code" \/ Len(f.data) = 1) THEN 1002
      ELSE IF f.op = "close" /\ ~IsValidUtf8(SubSeq(f.data, 3, Len(f.data))) THEN 1007
      ELSE IF f.op \in ControlOps THEN 0
      ELSE IF inside # (f.op = "continuation") THEN 1002
      ELSE IF Len(m.data) > MaxMessageSize THEN 1009
      ELSE IF f.fin /\ m.op = "text" /\ ~IsValidUtf8(m.data) THEN 1007
      ELSE 0
  BY DEF Deserved
<1> HIDE DEF f, inside, m
<1>5. ParseFrame(f, len) = "OK"
  BY DEF f
<1>6. /\ f.flaw \notin {"head", "length"}
      /\ ~(f.op \in ControlOps /\ (~f.fin \/ Len(f.data) > MaxControl))
      /\ ~(f.op \in DataOps /\ Len(f.data) > MaxMessageSize)
      /\ ~(f.op = "close" /\ (f.flaw = "code" \/ Len(f.data) = 1))
      /\ ~(f.op = "close" /\ ~IsValidUtf8(SubSeq(f.data, 3, Len(f.data))))
  BY <1>5 DEF ParseFrame
<1>7. f.op \in ControlOps => Deserved(fs, i) = 0
  BY <1>2, <1>4, <1>6
<1>8. f.op \in DataOps => Deserved(fs, i) =
        IF inside # (f.op = "continuation") THEN 1002
        ELSE IF Len(m.data) > MaxMessageSize THEN 1009
        ELSE IF f.fin /\ m.op = "text" /\ ~IsValidUtf8(m.data) THEN 1007
        ELSE 0
  BY <1>2, <1>3, <1>4, <1>6
<1> QED
  BY <1>7, <1>8 DEF f, inside, m

\* A frame that fills the read buffer before it is complete is a control frame,
\* and longer than a message may be.
LEMMA FullBufferIsLongControl ==
  ASSUME NEW f \in PeerFrames, NEW len \in Nat, len > MaxMessageSize + MaxHeader,
         ParseFrame(f, len) = "INCOMPLETE"
  PROVE  LongControl(f)
<1>1. /\ f.op \in DataOps \cup ControlOps /\ Len(f.data) \in Nat
      /\ HeaderLen(f) \in {2, 4, 10} /\ FrameLen(f) \in Nat
      /\ FrameLen(f) <= Len(f.data) + MaxHeader
  BY FrameLengths
<1>2. MaxMessageSize \in Nat /\ MaxHeader = 14
  BY ReaderAssumption DEF MaxHeader
<1>3. ~(len < 2) /\ ~(len < HeaderLen(f))
  BY <1>1, <1>2
<1>4. /\ ~Complete(f, len)
      /\ ~(f.op \in DataOps /\ Len(f.data) > MaxMessageSize)
  BY <1>3 DEF ParseFrame
<1>5. len < FrameLen(f)
  BY <1>1, <1>4 DEF Complete
<1>6. FrameLen(f) > MaxMessageSize + MaxHeader + 1
  BY <1>1, <1>2, <1>5
<1>7. Len(f.data) > MaxMessageSize
  BY <1>1, <1>2, <1>5
<1> QED
  BY <1>1, <1>4, <1>6, <1>7 DEF LongControl

-----------------------------------------------------------------------------
(* The steps, and what they deliver and decide. *)

\* A step that handles no frame and decides nothing.
LEMMA QuietMeaning ==
  ASSUME MeaningInv, UNCHANGED <<sent, handled, culprit, code, delivered>>,
         open' => open /\ fragment' = fragment,
         open' /\ pc' \in {"wait", "reads"} => Status' = "INCOMPLETE"
  PROVE  MeaningInv'
<1>1. CulpritInv'
  BY DEF MeaningInv, CulpritInv
<1>2. FragmentInv'
  BY DEF MeaningInv, FragmentInv
<1>3. Good' = Good
  BY DEF Good
<1>4. DeliversMessages'
  BY <1>3 DEF MeaningInv, DeliversMessages
<1>5. CloseCodeDeserved'
  BY DEF MeaningInv, CloseCodeDeserved
<1> QED
  BY <1>1, <1>2, <1>4, <1>5 DEF MeaningInv

\* Before the first frame.
LEMMA InitMeaning ==
  ASSUME Init
  PROVE  MeaningInv
<1>1. /\ pc = "last" /\ open = TRUE /\ code = 0 /\ fragment = NoFragment
      /\ sent = <<>> /\ handled = 0 /\ culprit = 0 /\ delivered = <<>>
  BY DEF Init
<1>2. CulpritInv
  BY <1>1 DEF CulpritInv
<1>3. Unfinished(sent, handled + 1) = {} /\ ~fragment.fragmented
  BY <1>1 DEF Unfinished, NoFragment
<1>4. FragmentInv
  BY <1>3 DEF FragmentInv
<1>5. DeliversMessages
  BY <1>1, NoMessages DEF DeliversMessages, Good
<1> QED
  BY <1>1, <1>2, <1>4, <1>5 DEF MeaningInv, CloseCodeDeserved

\* A frame that is sent changes nothing about those that were.
LEMMA PeerSendsMeaning ==
  ASSUME ReaderInv, MeaningInv, PeerSends
  PROVE  MeaningInv'
<1>1. PICK f \in PeerFrames : sent' = Append(sent, f)
  BY DEF PeerSends
<1>2. /\ open /\ pc \in {"wait", "reads"}
      /\ UNCHANGED <<pc, open, code, received, consumed, fragment, handled, culprit, delivered>>
  BY DEF PeerSends
<1>3. /\ handled \in Nat /\ sent \in Seq(PeerFrames) /\ handled <= Len(sent)
      /\ culprit = 0 /\ Good = handled /\ Good' = handled
  BY <1>2 DEF ReaderInv, TypeInv, StreamInv, MeaningInv, CulpritInv, Good
<1>4. Len(sent) \in Nat /\ Len(sent') = Len(sent) + 1 /\ \A i \in 1..Len(sent) : sent'[i] = sent[i]
  BY <1>1, <1>3
<1>5. AgreeUpTo(sent, sent', Len(sent)) /\ AgreeUpTo(sent, sent', handled)
  BY <1>3, <1>4 DEF AgreeUpTo
<1>6. CulpritInv'
  <2>1. Buffered' = Buffered
    BY <1>2 DEF Buffered
  <2>2. Status' = Status
    <3>1. CASE Buffered = 0
      BY <2>1, <3>1 DEF Status
    <3>2. CASE Buffered # 0
      <4>1. Buffered > 0
        BY <3>2 DEF Buffered, ReaderInv, TypeInv, StreamInv
      <4>2. handled + 1 \in 1..Len(sent)
        BY <4>1, NextFrameSent
      <4>3. NextFrame' = NextFrame
        BY <1>2, <1>4, <4>2 DEF NextFrame
      <4> QED
        BY <2>1, <4>3 DEF Status
    <3> QED
      BY <3>1, <3>2
  <2>3. Status = "INCOMPLETE"
    BY <1>2 DEF MeaningInv, CulpritInv
  <2>4. culprit' = 0 /\ culprit' \in 0..Len(sent')
    BY <1>2, <1>3, <1>4
  <2> QED
    BY <2>2, <2>3, <2>4 DEF CulpritInv
<1>7. FragmentInv'
  <2> DEFINE P == Unfinished(sent, handled + 1)
  <2>1. Unfinished(sent', handled + 1) = P /\ P \subseteq 1..handled
    <3>1. handled + 1 \in 1..(handled + 1)
      BY <1>3
    <3> QED
      BY <1>3, <1>5, <3>1, UnfinishedAgrees
  <2>2. /\ fragment.fragmented <=> P # {}
        /\ fragment.fragmented => /\ fragment.opcode = sent[Min(P)].op
                                  /\ fragment.payload = Payload(sent, P, handled)
    BY <1>2 DEF MeaningInv, FragmentInv
  <2> HIDE DEF P
  <2>3. Payload(sent', P, handled) = Payload(sent, P, handled)
    BY <1>3, <1>5, PayloadAgrees
  <2>4. P # {} => sent'[Min(P)] = sent[Min(P)]
    <3> SUFFICES ASSUME P # {} PROVE sent'[Min(P)] = sent[Min(P)]
      OBVIOUS
    <3>1. P \subseteq Nat
      BY <1>3, <2>1
    <3>2. PICK x \in P : \A y \in P : x <= y
      BY <3>1, LeastNat
    <3>3. Min(P) = x
      BY <3>1, <3>2, MinOfSet
    <3>4. x \in 1..Len(sent)
      BY <1>3, <1>4, <2>1
    <3> QED
      BY <1>4, <3>3, <3>4
  <2> QED
    BY <1>2, <2>1, <2>2, <2>3, <2>4 DEF FragmentInv
<1>8. DeliversMessages'
  <2>1. Messages(sent', handled) = Messages(sent, handled)
    BY <1>3, <1>5, MessagesAgree
  <2>2. \A i \in 1..handled : Deserved(sent', i) = Deserved(sent, i)
    BY <1>3, <1>5, DeservedAgrees
  <2> QED
    BY <1>2, <1>3, <2>1, <2>2 DEF MeaningInv, DeliversMessages
<1>9. CloseCodeDeserved'
  BY <1>2, <1>3 DEF CloseCodeDeserved
<1> QED
  BY <1>6, <1>7, <1>8, <1>9 DEF MeaningInv

\* The server gives up because of the frame after the last good one.
LEMMA GiveUpMeaning ==
  ASSUME ReaderInv, MeaningInv, open, NEW c, GiveUp(c, handled + 1),
         handled + 1 \in 1..Len(sent), UNCHANGED <<sent, delivered>>,
         \/ Deserved(sent, handled + 1) = c
         \/ c = 1009 /\ LongControl(sent[handled + 1])
  PROVE  MeaningInv'
<1>1. ~open' /\ code' = c /\ culprit' = handled + 1
  BY DEF GiveUp
<1>2. culprit = 0 /\ Good = handled /\ handled \in Nat
  BY DEF MeaningInv, CulpritInv, Good, ReaderInv, TypeInv
<1>3. Good' = handled /\ culprit' # 0
  BY <1>1, <1>2 DEF Good
<1>4. DeliversMessages'
  BY <1>2, <1>3 DEF MeaningInv, DeliversMessages
<1>5. CloseCodeDeserved'
  BY <1>1 DEF CloseCodeDeserved
<1>6. CulpritInv'
  BY <1>1, <1>2 DEF CulpritInv
<1>7. FragmentInv'
  BY <1>1 DEF FragmentInv
<1> QED
  BY <1>4, <1>5, <1>6, <1>7 DEF MeaningInv

\* What a frame that is taken is.
LEMMA TakenFrame ==
  ASSUME ReaderInv, NEW f \in PeerFrames, Take(f)
  PROVE  /\ handled \in Nat /\ handled + 1 \in 1..Len(sent) /\ handled + 1 <= Len(sent)
         /\ sent \in Seq(PeerFrames) /\ f = sent[handled + 1] /\ open
         /\ ParseFrame(f, Buffered) = "OK" /\ Buffered \in Nat
<1>1. Status = "OK" /\ f = NextFrame /\ open
  BY DEF Take
<1>2. /\ handled \in Nat /\ received \in Nat /\ consumed \in Nat /\ consumed <= received
      /\ sent \in Seq(PeerFrames)
  BY DEF ReaderInv, TypeInv, StreamInv
<1>3. Buffered \in Nat /\ Buffered # 0 /\ ParseFrame(f, Buffered) = "OK"
  BY <1>1, <1>2 DEF Status, Buffered
<1>4. Buffered > 0
  BY <1>3
<1>5. handled + 1 \in 1..Len(sent)
  BY <1>4, NextFrameSent
<1> QED
  BY <1>1, <1>2, <1>3, <1>5, LenProperties DEF NextFrame

\* A frame that is taken and deserves no close code.
LEMMA GoodFrameMeaning ==
  ASSUME ReaderInv, MeaningInv, NEW f \in PeerFrames, Take(f),
         Deserved(sent, handled + 1) = 0, UNCHANGED <<code, culprit>>,
         delivered' = Messages(sent, handled + 1),
         LET parts == Unfinished(sent, (handled + 1) + 1)
         IN  open' => /\ fragment'.fragmented <=> parts # {}
                      /\ fragment'.fragmented =>
                           /\ fragment'.opcode = sent[Min(parts)].op
                           /\ fragment'.payload = Payload(sent, parts, handled + 1)
  PROVE  MeaningInv'
<1>1. /\ handled' = handled + 1 /\ UNCHANGED <<pc, sent>> /\ pc \in {"frames", "last"} /\ open
  BY DEF Take, Parsing
<1>2. culprit = 0 /\ Good = handled /\ handled \in Nat
  BY <1>1 DEF MeaningInv, CulpritInv, Good, ReaderInv, TypeInv
<1>3. Good' = handled + 1 /\ culprit' = 0
  BY <1>1, <1>2 DEF Good
<1>4. \A i \in 1..(handled + 1) : i \in 1..handled \/ i = handled + 1
  BY <1>2
<1>5. DeliversMessages'
  BY <1>1, <1>2, <1>3, <1>4 DEF MeaningInv, DeliversMessages
<1>6. CloseCodeDeserved'
  BY <1>3 DEF CloseCodeDeserved
<1>7. CulpritInv'
  <2>1. culprit \in 0..Len(sent)
    BY DEF MeaningInv, CulpritInv
  <2> QED
    BY <1>1, <1>3, <2>1 DEF CulpritInv
<1>8. FragmentInv'
  BY <1>1 DEF FragmentInv
<1> QED
  BY <1>5, <1>6, <1>7, <1>8 DEF MeaningInv

\* recv() adds bytes, or gives up on a long control frame.
LEMMA RecvMeaning ==
  ASSUME ReaderInv, MeaningInv, Recv
  PROVE  MeaningInv'
<1>1. PICK n \in {m \in ChunkSizes : m <= Available} \cup {Min({Available, ReadChunk})} :
        IF HasCapacity(n)
        THEN /\ received' = received + n
             /\ pc' = "frames"
             /\ UNCHANGED <<open, code, culprit>>
        ELSE /\ GiveUp(1009, handled + 1)
             /\ pc' = "wait"
             /\ UNCHANGED received
  BY DEF Recv
<1>2. open /\ pc = "reads" /\ UNCHANGED <<consumed, fragment, sent, ends, handled, delivered>>
  BY DEF Recv
<1>3. CASE HasCapacity(n)
  BY <1>1, <1>2, <1>3, QuietMeaning
<1>4. CASE ~HasCapacity(n)
  <2>1. /\ received \in Nat /\ consumed \in Nat /\ consumed <= received /\ received <= Total
        /\ Total \in Nat
    <3>1. received \in Nat /\ consumed \in Nat /\ consumed <= received /\ received <= Total /\ ends \in Seq(Nat)
      BY DEF ReaderInv, TypeInv, StreamInv
    <3>2. Len(ends) \in Nat
      BY <3>1, LenProperties
    <3>3. Len(ends) # 0 => ends[Len(ends)] \in Nat
      BY <3>1, <3>2, ElementOfSeq
    <3> QED
      BY <3>1, <3>2, <3>3 DEF Total, EndOf
  <2>2. MaxMessageSize \in Nat /\ ReadChunk \in Nat /\ ChunkSizes \subseteq 1..ReadChunk
    BY ReaderAssumption
  <2>3. Available \in Nat /\ Buffered \in Nat
    BY <2>1 DEF Available, Buffered
  <2>4. n \in Nat /\ n <= ReadChunk
    <3>1. Min({Available, ReadChunk}) \in Nat /\ Min({Available, ReadChunk}) <= ReadChunk
      BY <2>2, <2>3, MinOfTwo
    <3> QED
      BY <2>2, <3>1
  <2>5. Buffered > MaxMessageSize + MaxHeader
    BY <1>4, <2>2, <2>3, <2>4 DEF HasCapacity, ReadLimit, MaxHeader
  <2>6. Buffered > 0
    BY <2>2, <2>3, <2>5 DEF MaxHeader
  <2>7. handled + 1 \in 1..Len(sent) /\ NextFrame \in PeerFrames
    BY <2>6, NextFrameSent
  <2>8. Status = "INCOMPLETE"
    BY <1>2 DEF MeaningInv, CulpritInv
  <2>9. ParseFrame(NextFrame, Buffered) = "INCOMPLETE"
    BY <2>6, <2>8 DEF Status
  <2>10. LongControl(NextFrame)
    BY <2>3, <2>5, <2>7, <2>9, FullBufferIsLongControl
  <2>11. LongControl(sent[handled + 1])
    BY <2>10 DEF NextFrame
  <2>12. GiveUp(1009, handled + 1)
    BY <1>1, <1>4
  <2> QED
    BY <1>2, <2>7, <2>11, <2>12, GiveUpMeaning
<1> QED
  BY <1>3, <1>4

\* An error of parse_frame() is answered with the code that the frame deserves.
LEMMA FrameErrorMeaning ==
  ASSUME ReaderInv, MeaningInv, FrameError
  PROVE  MeaningInv'
<1>1. /\ open /\ Status \notin {"INCOMPLETE", "OK"}
      /\ GiveUp(CloseCode(Status), handled + 1) /\ UNCHANGED <<sent, delivered>>
  BY DEF FrameError
<1>2. Buffered \in Nat
  BY DEF ReaderInv, TypeInv, StreamInv, Buffered
<1>3. Buffered # 0 /\ Status = ParseFrame(NextFrame, Buffered)
  BY <1>1 DEF Status
<1>4. Buffered > 0
  BY <1>2, <1>3
<1>5. handled + 1 \in 1..Len(sent) /\ NextFrame \in PeerFrames
  BY <1>4, NextFrameSent
<1>6. Deserved(sent, handled + 1) = CloseCode(Status)
  BY <1>1, <1>3, <1>5, ErrorIsDeserved DEF NextFrame
<1> QED
  BY <1>1, <1>5, <1>6, GiveUpMeaning

\* Steps that only wake, wait or close.
LEMMA OtherMeaning ==
  ASSUME ReaderInv, MeaningInv,
         Wake \/ Sweep \/ RecvNothing \/ RecvEnd \/ ClosedElsewhere \/ FramesDone \/ UNCHANGED vars
  PROVE  MeaningInv'
<1>1. open /\ pc \in {"wait", "reads"} => Status = "INCOMPLETE"
  BY DEF MeaningInv, CulpritInv
<1>2. ASSUME UNCHANGED <<received, consumed, sent, handled>> PROVE Status' = Status
  BY <1>2 DEF Status, Buffered, NextFrame
<1>3. CASE Wake
  BY <1>1, <1>2, <1>3, QuietMeaning DEF Wake
<1>4. CASE Sweep
  BY <1>4, QuietMeaning DEF Sweep
<1>5. CASE RecvNothing
  BY <1>5, QuietMeaning DEF RecvNothing
<1>6. CASE RecvEnd
  BY <1>6, QuietMeaning DEF RecvEnd
<1>7. CASE ClosedElsewhere
  BY <1>7, QuietMeaning DEF ClosedElsewhere
<1>8. CASE FramesDone
  BY <1>2, <1>8, QuietMeaning DEF FramesDone
<1>9. CASE UNCHANGED vars
  BY <1>1, <1>2, <1>9, QuietMeaning DEF vars
<1> QED
  BY <1>3, <1>4, <1>5, <1>6, <1>7, <1>8, <1>9

\* A control frame interrupts a message and leaves it as it is.
LEMMA ControlMeaning ==
  ASSUME ReaderInv, MeaningInv, HandlePing \/ HandlePong \/ HandleClose
  PROVE  MeaningInv'
<1>1. PICK f \in PeerFrames : /\ Take(f) /\ f.op \in ControlOps
                              /\ UNCHANGED <<code, culprit, delivered>>
                              /\ open' => fragment' = fragment
  BY DEF HandlePing, HandlePong, HandleClose, Accepted, ControlOps
<1> DEFINE n == handled
           P == Unfinished(sent, n + 1)
<1>2. /\ n \in Nat /\ n + 1 <= Len(sent) /\ sent \in Seq(PeerFrames) /\ f = sent[n + 1]
      /\ open /\ ParseFrame(f, Buffered) = "OK"
  BY <1>1, TakenFrame
<1>3. Deserved(sent, n + 1) = 0
  BY <1>1, <1>2, ParsedDeserves
<1>4. sent[n + 1].op \notin DataOps
  BY <1>1, <1>2 DEF DataOps, ControlOps
<1>5. Unfinished(sent, (n + 1) + 1) = P
  <2>1. n + 1 \in Nat /\ n + 1 >= 1
    BY <1>2
  <2> QED
    BY <1>4, <2>1, UnfinishedNext
<1>6. culprit = 0 /\ delivered = Messages(sent, n)
  BY <1>2 DEF MeaningInv, CulpritInv, DeliversMessages, Good
<1>7. Messages(sent, n + 1) = Messages(sent, n)
  BY <1>2, <1>4, MessagesNext DEF Completes
<1>8. /\ fragment.fragmented <=> P # {}
      /\ fragment.fragmented => /\ fragment.opcode = sent[Min(P)].op
                                /\ fragment.payload = Payload(sent, P, n)
  BY <1>2 DEF MeaningInv, FragmentInv
<1>9. P \subseteq 1..n
  <2>1. (n + 1) - 1 = n
    BY <1>2
  <2> QED
    BY <2>1 DEF Unfinished
<1> HIDE DEF P
<1>10. Payload(sent, P, n + 1) = Payload(sent, P, n)
  <2>1. n + 1 \notin P
    BY <1>2, <1>9
  <2>2. /\ Payload(sent, P, n) \in Seq(Bytes)
        /\ Payload(sent, P, n + 1) = Payload(sent, P, n) \o <<>>
    BY <1>2, <2>1, PayloadNext
  <2> QED
    BY <2>2, ConcatEmptySeq
<1>11. delivered' = Messages(sent, n + 1)
  BY <1>1, <1>6, <1>7
<1>12. open' => /\ fragment'.fragmented <=> P # {}
                /\ fragment'.fragmented => /\ fragment'.opcode = sent[Min(P)].op
                                           /\ fragment'.payload = Payload(sent, P, n + 1)
  BY <1>1, <1>8, <1>10
<1> HIDE DEF n
<1>13. LET parts == Unfinished(sent, (n + 1) + 1)
       IN  open' => /\ fragment'.fragmented <=> parts # {}
                    /\ fragment'.fragmented => /\ fragment'.opcode = sent[Min(parts)].op
                                               /\ fragment'.payload = Payload(sent, parts, n + 1)
  BY <1>5, <1>12
<1> QED
  BY <1>1, <1>3, <1>11, <1>13, GoodFrameMeaning DEF n

\* What data frame f, after n others, finds: the frames P are unfinished, and m is
\* the message with f at its end.
Finds(f, n, P, m) ==
  /\ n \in Nat /\ n + 1 \in 1..Len(sent) /\ n + 1 <= Len(sent)
  /\ sent \in Seq(PeerFrames) /\ f = sent[n + 1] /\ open /\ culprit = 0
  /\ delivered = Messages(sent, n)
  /\ f.data \in Seq(Bytes) /\ Len(f.data) <= MaxMessageSize
  /\ Len(f.data) \in Nat /\ MaxMessageSize \in Nat
  /\ fragment.fragmented <=> P # {}
  /\ fragment.fragmented => /\ fragment.opcode = sent[Min(P)].op
                            /\ fragment.payload = Payload(sent, P, n)
  /\ Unfinished(sent, (n + 1) + 1) = IF f.fin THEN {} ELSE P \cup {n + 1}
  /\ f.fin => Messages(sent, n + 1) = Append(Messages(sent, n), m)
  /\ ~f.fin => Messages(sent, n + 1) = Messages(sent, n)

\* What it deserves is about that message.
DeservesBy(f, n, P, m) ==
  Deserved(sent, n + 1) =
    IF (P # {}) # (f.op = "continuation") THEN 1002
    ELSE IF Len(m.data) > MaxMessageSize THEN 1009
    ELSE IF f.fin /\ m.op = "text" /\ ~IsValidUtf8(m.data) THEN 1007
    ELSE 0

\* And the message is that of the unfinished frames and f.
Joins(f, n, P, m) ==
  /\ m.data = Payload(sent, P, n) \o f.data
  /\ m.data = Payload(sent, P \cup {n + 1}, n + 1)
  /\ P = {} => m.op = f.op /\ m.data = f.data
  /\ P # {} => m.op = sent[Min(P)].op /\ Min(P \cup {n + 1}) = Min(P)
  /\ Min({n + 1}) = n + 1
  /\ m = [op |-> m.op, data |-> m.data]

\* A data frame that is taken finds, deserves and joins just that.
LEMMA DataFrame ==
  ASSUME ReaderInv, MeaningInv, NEW f \in PeerFrames, Take(f), f.op \in DataOps,
         NEW n, n = handled, NEW P, P = Unfinished(sent, n + 1), NEW m, m = MessageAt(sent, n + 1)
  PROVE  Finds(f, n, P, m) /\ DeservesBy(f, n, P, m) /\ Joins(f, n, P, m)
<1>1. /\ n \in Nat /\ n + 1 \in 1..Len(sent) /\ n + 1 <= Len(sent)
      /\ sent \in Seq(PeerFrames) /\ f = sent[n + 1]
      /\ open /\ ParseFrame(f, Buffered) = "OK" /\ Buffered \in Nat
  BY TakenFrame
<1>2. culprit = 0 /\ delivered = Messages(sent, n)
  BY <1>1 DEF MeaningInv, CulpritInv, DeliversMessages, Good
<1>3. Len(f.data) <= MaxMessageSize /\ Len(f.data) \in Nat /\ MaxMessageSize \in Nat
  BY <1>1, ParsedOK, FrameLengths, ReaderAssumption
<1>4. /\ fragment.fragmented <=> P # {}
      /\ fragment.fragmented => /\ fragment.opcode = sent[Min(P)].op
                                /\ fragment.payload = Payload(sent, P, n)
  BY <1>1 DEF MeaningInv, FragmentInv
<1>5. Unfinished(sent, (n + 1) + 1) = IF f.fin THEN {} ELSE P \cup {n + 1}
  <2>1. n + 1 \in Nat /\ n + 1 >= 1
    BY <1>1
  <2> QED
    BY <1>1, <2>1, UnfinishedNext
<1>6. /\ f.fin => Messages(sent, n + 1) = Append(Messages(sent, n), MessageAt(sent, n + 1))
      /\ ~f.fin => Messages(sent, n + 1) = Messages(sent, n)
  BY <1>1, MessagesNext DEF Completes
<1>7. Deserved(sent, n + 1) =
        IF (P # {}) # (f.op = "continuation") THEN 1002
        ELSE IF Len(MessageAt(sent, n + 1).data) > MaxMessageSize THEN 1009
        ELSE IF /\ f.fin /\ MessageAt(sent, n + 1).op = "text"
                /\ ~IsValidUtf8(MessageAt(sent, n + 1).data) THEN 1007
        ELSE 0
  BY <1>1, ParsedDeserves
<1>8. DeservesBy(f, n, P, m)
  BY <1>7 DEF DeservesBy
<1>9. f.data \in Seq(Bytes)
  BY FrameLengths
<1>10. Finds(f, n, P, m)
  BY <1>1, <1>2, <1>3, <1>4, <1>5, <1>6, <1>9 DEF Finds
<1>11. Joins(f, n, P, m)
  BY <1>1, MessageNext, ZenonT(40) DEF Joins
<1> QED
  BY <1>8, <1>10, <1>11

\* A text or binary frame begins a message, or is one.
LEMMA FirstMeaning ==
  ASSUME ReaderInv, MeaningInv, HandleFirst
  PROVE  MeaningInv'
<1>1. PICK f \in PeerFrames : Take(f) /\ f.op \in {"text", "binary"} /\ FirstFrame(f)
  BY DEF HandleFirst
<1>2. f.op \in DataOps /\ f.op # "continuation" /\ UNCHANGED sent
  BY <1>1 DEF DataOps, Take
<1>3. PICK n : n = handled
  OBVIOUS
<1>4. PICK P : P = Unfinished(sent, n + 1)
  OBVIOUS
<1>5. PICK m : m = MessageAt(sent, n + 1)
  OBVIOUS
<1>6. Finds(f, n, P, m) /\ DeservesBy(f, n, P, m) /\ Joins(f, n, P, m)
  BY <1>1, <1>2, <1>3, <1>4, <1>5, DataFrame
<1>7. handled + 1 \in 1..Len(sent) /\ open /\ (fragment.fragmented <=> P # {})
  BY <1>3, <1>6 DEF Finds
<1>8. CASE fragment.fragmented
  <2>1. GiveUp(1002, handled + 1) /\ UNCHANGED delivered
    BY <1>1, <1>8 DEF FirstFrame, Refuse
  <2>2. Deserved(sent, handled + 1) = 1002
    BY <1>2, <1>3, <1>6, <1>7, <1>8 DEF DeservesBy
  <2> QED
    BY <1>2, <1>7, <2>1, <2>2, GiveUpMeaning
<1>9. ASSUME ~fragment.fragmented
      PROVE  P = {} /\ m.op = f.op /\ m.data = f.data /\ ~(Len(m.data) > MaxMessageSize)
  <2>1. P = {}
    BY <1>7, <1>9
  <2>2. m.op = f.op /\ m.data = f.data
    BY <1>6, <2>1 DEF Joins
  <2> QED
    BY <1>6, <2>1, <2>2 DEF Finds
<1>10. CASE ~fragment.fragmented /\ f.fin /\ f.op = "text" /\ ~IsValidUtf8(f.data)
  <2>1. GiveUp(1007, handled + 1) /\ UNCHANGED delivered
    BY <1>1, <1>10 DEF FirstFrame, Refuse
  <2>2. Deserved(sent, handled + 1) = 1007
    BY <1>2, <1>3, <1>6, <1>9, <1>10 DEF DeservesBy
  <2> QED
    BY <1>2, <1>7, <2>1, <2>2, GiveUpMeaning
<1>11. ASSUME ~fragment.fragmented, ~(f.fin /\ f.op = "text" /\ ~IsValidUtf8(f.data))
       PROVE  Deserved(sent, n + 1) = 0
  BY <1>2, <1>6, <1>9, <1>11 DEF DeservesBy
<1>12. CASE ~fragment.fragmented /\ f.fin /\ ~(f.op = "text" /\ ~IsValidUtf8(f.data))
  <2>1. Deserved(sent, n + 1) = 0
    BY <1>11, <1>12
  <2>2. Deliver(f.op, f.data) /\ fragment' = fragment
    BY <1>1, <1>12 DEF FirstFrame
  <2>3. delivered' = Append(delivered, [op |-> f.op, data |-> f.data]) /\ UNCHANGED <<code, culprit>>
    BY <2>2 DEF Deliver
  <2>4. m = [op |-> f.op, data |-> f.data]
    BY <1>6, <1>9, <1>12 DEF Joins
  <2>5. delivered' = Messages(sent, n + 1)
    BY <1>6, <1>12, <2>3, <2>4 DEF Finds
  <2>6. Unfinished(sent, (n + 1) + 1) = {} /\ ~fragment'.fragmented
    BY <1>6, <1>12, <2>2 DEF Finds
  <2> QED
    BY <1>1, <1>3, <2>1, <2>3, <2>5, <2>6, GoodFrameMeaning
<1>13. CASE ~fragment.fragmented /\ ~f.fin
  <2>1. P = {} /\ Deserved(sent, n + 1) = 0
    BY <1>9, <1>11, <1>13
  <2>2. Accepted /\ fragment' = [fragmented |-> TRUE, opcode |-> f.op, payload |-> f.data]
    BY <1>1, <1>13 DEF FirstFrame
  <2>3. UNCHANGED <<code, culprit, delivered>>
    BY <2>2 DEF Accepted
  <2>4. delivered' = Messages(sent, n + 1)
    BY <1>6, <1>13, <2>3 DEF Finds
  <2>5. PICK Q : Q = Unfinished(sent, (n + 1) + 1)
    OBVIOUS
  <2>6. Q = P \cup {n + 1} /\ Q = {n + 1}
    BY <1>6, <1>13, <2>1, <2>5 DEF Finds
  <2>7. Payload(sent, Q, n + 1) = f.data
    BY <1>6, <1>9, <1>13, <2>6 DEF Joins
  <2>8. sent[Min(Q)].op = f.op
    BY <1>6, <2>6 DEF Joins, Finds
  <2>9. /\ fragment'.fragmented /\ Q # {}
        /\ fragment'.opcode = sent[Min(Q)].op
        /\ fragment'.payload = Payload(sent, Q, n + 1)
    BY <2>2, <2>6, <2>7, <2>8
  <2>10. LET parts == Unfinished(sent, (n + 1) + 1)
         IN  open' => /\ fragment'.fragmented <=> parts # {}
                      /\ fragment'.fragmented => /\ fragment'.opcode = sent[Min(parts)].op
                                                 /\ fragment'.payload = Payload(sent, parts, n + 1)
    BY <2>5, <2>9
  <2> QED
    BY <1>1, <1>3, <2>1, <2>3, <2>4, <2>10, GoodFrameMeaning
<1> QED
  BY <1>8, <1>10, <1>12, <1>13

\* A continuation is joined to the unfinished message, and may complete it.
LEMMA ContinuationMeaning ==
  ASSUME ReaderInv, MeaningInv, HandleContinuation
  PROVE  MeaningInv'
<1>1. PICK f \in PeerFrames : Take(f) /\ f.op = "continuation" /\ Continuation(f)
  BY DEF HandleContinuation
<1>2. f.op \in DataOps /\ UNCHANGED sent
  BY <1>1 DEF DataOps, Take
<1>3. PICK n : n = handled
  OBVIOUS
<1>4. PICK P : P = Unfinished(sent, n + 1)
  OBVIOUS
<1>5. PICK m : m = MessageAt(sent, n + 1)
  OBVIOUS
<1>6. PICK a : a = AppendFragment(f.data)
  OBVIOUS
<1>7. Finds(f, n, P, m) /\ DeservesBy(f, n, P, m) /\ Joins(f, n, P, m)
  BY <1>1, <1>2, <1>3, <1>4, <1>5, DataFrame
<1>8. handled + 1 \in 1..Len(sent) /\ open /\ (fragment.fragmented <=> P # {})
  BY <1>3, <1>7 DEF Finds
<1>9. CASE ~fragment.fragmented
  <2>1. GiveUp(1002, handled + 1) /\ UNCHANGED delivered
    BY <1>1, <1>9 DEF Continuation, Refuse
  <2>2. Deserved(sent, handled + 1) = 1002
    BY <1>1, <1>3, <1>7, <1>8, <1>9 DEF DeservesBy
  <2> QED
    BY <1>2, <1>8, <2>1, <2>2, GiveUpMeaning
<1>10. ASSUME fragment.fragmented
       PROVE  /\ P # {} /\ m.op = fragment.opcode
              /\ a.ok <=> ~(Len(m.data) > MaxMessageSize)
              /\ a.ok => a.payload = m.data
  <2>1. P # {} /\ m.op = fragment.opcode
    BY <1>7, <1>8, <1>10 DEF Joins, Finds
  <2>2. m.data = fragment.payload \o f.data
    BY <1>7, <1>10 DEF Joins, Finds
  <2>3. fragment.payload \in Seq(Bytes) /\ f.data \in Seq(Bytes)
    BY <1>7 DEF ReaderInv, TypeInv, FragmentType, Finds
  <2>4. Len(m.data) = Len(fragment.payload) + Len(f.data)
    BY <2>2, <2>3, ConcatProperties
  <2>5. /\ Len(f.data) <= MaxMessageSize /\ Len(f.data) \in Nat /\ MaxMessageSize \in Nat
        /\ Len(fragment.payload) \in Nat
    BY <1>7, <2>3, LenProperties DEF Finds
  <2>6. /\ a.ok <=> Len(fragment.payload) <= MaxMessageSize - Len(f.data)
        /\ a.ok => a.payload = fragment.payload \o f.data
    BY <1>6, <2>5 DEF AppendFragment
  <2>7. Len(fragment.payload) <= MaxMessageSize - Len(f.data)
          <=> ~(Len(fragment.payload) + Len(f.data) > MaxMessageSize)
    <3> DEFINE x == Len(fragment.payload)
               y == Len(f.data)
    <3>1. x \in Nat /\ y \in Nat
      BY <2>5
    <3> HIDE DEF x, y
    <3>2. x <= MaxMessageSize - y <=> ~(x + y > MaxMessageSize)
      BY <2>5, <3>1
    <3> QED
      BY <3>2 DEF x, y
  <2> QED
    BY <2>1, <2>2, <2>4, <2>6, <2>7
<1>11. CASE fragment.fragmented /\ ~a.ok
  <2>1. GiveUp(1009, handled + 1) /\ UNCHANGED delivered
    BY <1>1, <1>6, <1>11 DEF Continuation, Refuse
  <2>2. Deserved(sent, handled + 1) = 1009
    BY <1>1, <1>3, <1>7, <1>10, <1>11 DEF DeservesBy
  <2> QED
    BY <1>2, <1>8, <2>1, <2>2, GiveUpMeaning
<1> DEFINE invalid == f.fin /\ fragment.opcode = "text" /\ ~IsValidUtf8(a.payload)
<1>12. CASE fragment.fragmented /\ a.ok /\ invalid
  <2>1. GiveUp(1007, handled + 1) /\ UNCHANGED delivered
    BY <1>1, <1>6, <1>12 DEF Continuation, Refuse
  <2>2. Deserved(sent, handled + 1) = 1007
    BY <1>1, <1>3, <1>7, <1>10, <1>12 DEF DeservesBy
  <2> QED
    BY <1>2, <1>8, <2>1, <2>2, GiveUpMeaning
<1>13. ASSUME fragment.fragmented, a.ok, ~invalid
       PROVE  Deserved(sent, n + 1) = 0
  BY <1>1, <1>7, <1>10, <1>13 DEF DeservesBy
<1>14. CASE fragment.fragmented /\ a.ok /\ ~invalid /\ f.fin
  <2>1. Deserved(sent, n + 1) = 0
    BY <1>13, <1>14
  <2>2. Deliver(fragment.opcode, a.payload) /\ fragment' = NoFragment
    BY <1>1, <1>6, <1>14 DEF Continuation
  <2>3. /\ delivered' = Append(delivered, [op |-> fragment.opcode, data |-> a.payload])
        /\ UNCHANGED <<code, culprit>>
    BY <2>2 DEF Deliver
  <2>4. m = [op |-> fragment.opcode, data |-> a.payload]
    BY <1>7, <1>10, <1>14 DEF Joins
  <2>5. delivered' = Messages(sent, n + 1)
    BY <1>7, <1>14, <2>3, <2>4 DEF Finds
  <2>6. Unfinished(sent, (n + 1) + 1) = {} /\ ~fragment'.fragmented
    BY <1>7, <1>14, <2>2 DEF Finds, NoFragment
  <2> QED
    BY <1>1, <1>3, <2>1, <2>3, <2>5, <2>6, GoodFrameMeaning
<1>15. CASE fragment.fragmented /\ a.ok /\ ~f.fin
  <2>1. Deserved(sent, n + 1) = 0
    BY <1>13, <1>15
  <2>2. Accepted /\ fragment' = [fragment EXCEPT !.payload = a.payload]
    BY <1>1, <1>6, <1>15 DEF Continuation
  <2>3. UNCHANGED <<code, culprit, delivered>>
    BY <2>2 DEF Accepted
  <2>4. delivered' = Messages(sent, n + 1)
    BY <1>7, <1>15, <2>3 DEF Finds
  <2>5. PICK Q : Q = Unfinished(sent, (n + 1) + 1)
    OBVIOUS
  <2>6. Q = P \cup {n + 1}
    BY <1>7, <1>15, <2>5 DEF Finds
  <2>7. Payload(sent, Q, n + 1) = a.payload
    BY <1>7, <1>10, <1>15, <2>6 DEF Joins
  <2>8. sent[Min(Q)].op = fragment.opcode
    BY <1>7, <1>10, <1>15, <2>6 DEF Joins
  <2>9. fragment'.fragmented /\ fragment'.opcode = fragment.opcode /\ fragment'.payload = a.payload
    <3>1. fragment \in FragmentType
      BY DEF ReaderInv, TypeInv
    <3> QED
      BY <1>15, <2>2, <3>1 DEF FragmentType
  <2>10. LET parts == Unfinished(sent, (n + 1) + 1)
         IN  open' => /\ fragment'.fragmented <=> parts # {}
                      /\ fragment'.fragmented => /\ fragment'.opcode = sent[Min(parts)].op
                                                 /\ fragment'.payload = Payload(sent, parts, n + 1)
    BY <2>5, <2>6, <2>7, <2>8, <2>9
  <2> QED
    BY <1>1, <1>3, <2>1, <2>3, <2>4, <2>10, GoodFrameMeaning
<1> QED
  BY <1>9, <1>11, <1>12, <1>14, <1>15

\* The reader's state means what the frames mean, in every state.
THEOREM MeaningInvariance == Spec => []MeaningInv
<1>1. Init => MeaningInv
  BY InitMeaning
<1>2. ReaderInv /\ MeaningInv /\ [Next]_vars => MeaningInv'
  <2> SUFFICES ASSUME ReaderInv, MeaningInv, [Next]_vars
               PROVE  MeaningInv'
    OBVIOUS
  <2> QED
    BY PeerSendsMeaning, RecvMeaning, FrameErrorMeaning, OtherMeaning, ControlMeaning,
       FirstMeaning, ContinuationMeaning DEF Next
<1> QED
  BY <1>1, <1>2, ReaderInvariance, PTL DEF Spec

(***************************************************************************)
(* The application gets the messages that the frames mean, whole, once     *)
(* each and in order, for every sequence of frames, however recv() cuts    *)
(* the stream and whatever the limits are.                                 *)
(***************************************************************************)
THEOREM MessagesAreDelivered == Spec => []DeliversMessages
<1>1. MeaningInv => DeliversMessages
  BY DEF MeaningInv
<1> QED
  BY <1>1, MeaningInvariance, PTL

(***************************************************************************)
(* close_with_code() is called for the first frame that deserves a close   *)
(* code, with the code that it deserves; a control frame longer than the   *)
(* read buffer is made for is the only exception.                          *)
(***************************************************************************)
THEOREM CodesAreDeserved == Spec => []CloseCodeDeserved
<1>1. MeaningInv => CloseCodeDeserved
  BY DEF MeaningInv
<1> QED
  BY <1>1, MeaningInvariance, PTL
=============================================================================
