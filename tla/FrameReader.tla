----------------------------- MODULE FrameReader ----------------------------
(***************************************************************************)
(* The incoming half of one upgraded connection: recv() in pieces of any   *)
(* size, the read buffer and its limit, the parsing of frames and the      *)
(* reassembly of fragmented messages (websocket_server_runtime.c).         *)
(*                                                                         *)
(* The peer's frames form a byte stream.  sent is the sequence of frames;  *)
(* the read buffer holds the bytes from position consumed to position      *)
(* received of their concatenation.  A payload is a sequence of bytes,     *)
(* each known by its UTF-8 class: "a" a character of one byte, "L" and "T" *)
(* the two bytes of a longer one.                                          *)
(***************************************************************************)
EXTENDS Integers, Sequences, SequencesExt, FiniteSetsExt

CONSTANTS
  MaxMessageSize,   \* option maxMessageSize
  ReadChunk,        \* 4096: WEBSOCKET_READ_CHUNK_SIZE
  MaxControl,       \* 125: the longest payload of a control frame
  PeerFrames,       \* the frames the peer may send
  ChunkSizes,       \* bound: what recv() returns when it does not return all
  MaxFrames         \* bound: frames the peer sends

MaxHeader == 14   \* two bytes, eight of length, four of mask
ReadLimit == MaxMessageSize + ReadChunk + MaxHeader

DataOps == {"text", "binary", "continuation"}
ControlOps == {"ping", "pong", "close"}

\* What may be wrong with a frame: "head" stands for a reserved bit, a missing
\* mask or an unknown opcode, "length" for a length not encoded minimally,
\* "code" for a close code that must not be sent.
Flaws == {"none", "head", "length", "code"}

IsFrame(f) ==
  /\ DOMAIN f = {"op", "fin", "data", "flaw"}
  /\ f.op \in DataOps \cup ControlOps /\ f.fin \in BOOLEAN
  /\ f.data \in Seq({"a", "L", "T"}) /\ f.flaw \in Flaws
  /\ f.flaw = "code" => f.op = "close" /\ Len(f.data) >= 2
  /\ f.flaw = "length" => Len(f.data) <= 125

ASSUME ReaderAssumption ==
  /\ MaxMessageSize \in Nat \ {0}
  /\ \A f \in PeerFrames : IsFrame(f)
  /\ ReadChunk \in Nat \ {0} /\ MaxControl \in 2..125
  /\ ChunkSizes \subseteq 1..ReadChunk
  /\ MaxFrames \in Nat

VARIABLES
  pc,         \* "wait", "reads" (recv next), "frames" / "last" (parsing, then reads / wait)
  open,       \* the connection is open and not draining
  code,       \* the close code the server decided on, 0 if none
  received,   \* bytes taken from the socket
  consumed,   \* bytes discarded from the read buffer
  fragment,   \* fragmented, fragmented_opcode, fragmented_payload
  sent,       \* history: the frames the peer sent
  ends,       \* history: where in the stream each of them ends
  handled,    \* history: the frames that left the buffer
  culprit,    \* history: the frame at which the server gave up, 0 if none
  delivered   \* history: the messages given to on_message

vars == <<pc, open, code, received, consumed, fragment, sent, ends, handled, culprit, delivered>>

NoFragment == [fragmented |-> FALSE, opcode |-> "none", payload |-> <<>>]

Init ==
  /\ pc = "last" /\ open = TRUE /\ code = 0
  /\ received = 0 /\ consumed = 0
  /\ fragment = NoFragment
  /\ sent = <<>> /\ ends = <<>> /\ handled = 0 /\ culprit = 0 /\ delivered = <<>>

-----------------------------------------------------------------------------
\* Bytes of the header before the mask, and of the whole frame.
HeaderLen(f) ==
  IF f.flaw = "length" THEN 4
  ELSE IF Len(f.data) <= 125 THEN 2 ELSE IF Len(f.data) <= 65535 THEN 4 ELSE 10
FrameLen(f) == HeaderLen(f) + 4 + Len(f.data)

\* Where the first n frames end; the bytes the peer sent.
EndOf(n) == IF n = 0 THEN 0 ELSE ends[n]
Total == EndOf(Len(ends))
Available == Total - received
Buffered == received - consumed

\* websocket_protocol_is_valid_utf8(), on the classes of bytes.
IsValidUtf8(s) ==
  \A i \in 1..Len(s) :
    /\ s[i] = "L" => i < Len(s) /\ s[i + 1] = "T"
    /\ s[i] = "T" => i > 1 /\ s[i - 1] = "L"

\* Mutant: the last byte is waited for in vain.
CompleteOffByOne(f, len) == len > FrameLen(f)

\* The mask and the whole payload have arrived.
Complete(f, len) == len >= FrameLen(f)

\* websocket_server_parse_frame() on the first len bytes of frame f.
ParseFrame(f, len) ==
  IF len < 2 THEN "INCOMPLETE"
  ELSE IF f.flaw = "head" THEN "PROTOCOL_ERROR"
  ELSE IF len < HeaderLen(f) THEN "INCOMPLETE"
  ELSE IF f.flaw = "length" THEN "PROTOCOL_ERROR"
  ELSE IF f.op \in ControlOps /\ (~f.fin \/ Len(f.data) > MaxControl) THEN "PROTOCOL_ERROR"
  ELSE IF f.op \in DataOps /\ Len(f.data) > MaxMessageSize THEN "MESSAGE_TOO_BIG"
  ELSE IF ~Complete(f, len) THEN "INCOMPLETE"
  ELSE IF f.op = "close" /\ (f.flaw = "code" \/ Len(f.data) = 1) THEN "PROTOCOL_ERROR"
  ELSE IF f.op = "close" /\ ~IsValidUtf8(SubSeq(f.data, 3, Len(f.data))) THEN "INVALID_PAYLOAD"
  ELSE "OK"

CloseCode(status) == CASE status = "PROTOCOL_ERROR"  -> 1002
                       [] status = "INVALID_PAYLOAD" -> 1007
                       [] status = "MESSAGE_TOO_BIG" -> 1009

-----------------------------------------------------------------------------
PeerSends ==
  /\ open /\ pc \in {"wait", "reads"}
  /\ Len(sent) < MaxFrames
  /\ \E f \in PeerFrames : sent' = Append(sent, f) /\ ends' = Append(ends, Total + FrameLen(f))
  /\ UNCHANGED <<pc, open, code, received, consumed, fragment, handled, culprit, delivered>>

\* The driver reports the descriptor: process_frame_reads().
Wake ==
  /\ pc = "wait" /\ open /\ Available > 0
  /\ pc' = "reads"
  /\ UNCHANGED <<open, code, received, consumed, fragment, sent, ends, handled, culprit, delivered>>

\* The sweep over all connections looks at what is in the buffer.
Sweep ==
  /\ pc = "wait" /\ open /\ Buffered > 0
  /\ pc' = "last"
  /\ UNCHANGED <<open, code, received, consumed, fragment, sent, ends, handled, culprit, delivered>>

\* close_with_code() because of frame i.
GiveUp(c, i) == open' = FALSE /\ code' = c /\ culprit' = i

\* Mutant: the limit is compared with the piece, not with the buffer.
HasCapacityForPiece(n) == n <= ReadLimit

\* websocket_connection_ensure_read_capacity(), for n more bytes.
HasCapacity(n) == Buffered + n <= ReadLimit

\* recv() returns n bytes, appended unless the buffer would pass its limit.
Recv ==
  /\ pc = "reads" /\ open /\ Available > 0
  /\ \E n \in {m \in ChunkSizes : m <= Available}
              \cup {Min({Available, ReadChunk})} :
       IF HasCapacity(n)
       THEN /\ received' = received + n
            /\ pc' = "frames"
            /\ UNCHANGED <<open, code, culprit>>
       ELSE /\ GiveUp(1009, handled + 1)
            /\ pc' = "wait"
            /\ UNCHANGED received
  /\ UNCHANGED <<consumed, fragment, sent, ends, handled, delivered>>

\* recv() reports EAGAIN, because what the peer sent has not arrived; or the
\* connection was closed meanwhile.
RecvNothing ==
  /\ pc = "reads"
  /\ pc' = IF open THEN "last" ELSE "wait"
  /\ UNCHANGED <<open, code, received, consumed, fragment, sent, ends, handled, culprit, delivered>>

\* recv() reports the end of the stream or an error.
RecvEnd ==
  /\ pc = "reads" /\ open
  /\ open' = FALSE /\ pc' = "wait"
  /\ UNCHANGED <<code, received, consumed, fragment, sent, ends, handled, culprit, delivered>>

\* Between two reads a timer, a failed write or the application, in a callback
\* of another connection, closes this one or lets it drain.
ClosedElsewhere ==
  /\ pc = "wait" /\ open
  /\ open' = FALSE /\ fragment' \in {fragment, NoFragment}
  /\ UNCHANGED <<pc, code, received, consumed, sent, ends, handled, culprit, delivered>>

-----------------------------------------------------------------------------
(* websocket_server_process_buffered_frames() *)

Parsing == pc \in {"frames", "last"}
Return == pc' = IF pc = "frames" THEN "reads" ELSE "wait"
NextFrame == sent[handled + 1]
Status == IF Buffered = 0 THEN "INCOMPLETE" ELSE ParseFrame(NextFrame, Buffered)

\* The buffer holds no whole frame, or the connection was closed.
FramesDone ==
  /\ Parsing
  /\ ~open \/ Status = "INCOMPLETE"
  /\ Return
  /\ UNCHANGED <<open, code, received, consumed, fragment, sent, ends, handled, culprit, delivered>>

FrameError ==
  /\ Parsing /\ open /\ Status \notin {"INCOMPLETE", "OK"}
  /\ fragment' = NoFragment
  /\ GiveUp(CloseCode(Status), handled + 1)
  /\ Return
  /\ UNCHANGED <<received, consumed, sent, ends, handled, delivered>>

\* The frame f leaves the buffer; then handle_frame() looks at it.
Take(f) ==
  /\ Parsing /\ open /\ Status = "OK" /\ f = NextFrame
  /\ consumed' = consumed + FrameLen(f)
  /\ handled' = handled + 1
  /\ UNCHANGED <<pc, received, sent, ends>>

Refuse(c) == GiveUp(c, handled + 1) /\ UNCHANGED delivered

\* call_message_handler(); the handler may close the connection or throw.
Deliver(op, payload) ==
  /\ delivered' = Append(delivered, [op |-> op, data |-> payload])
  /\ open' \in BOOLEAN
  /\ UNCHANGED <<code, culprit>>

Accepted == UNCHANGED <<open, code, culprit, delivered>>

\* websocket_server_append_fragment().
AppendFragment(payload) ==
  LET ok == Len(payload) <= MaxMessageSize
            /\ Len(fragment.payload) <= MaxMessageSize - Len(payload)
  IN  [ok |-> ok, payload |-> IF ok THEN fragment.payload \o payload ELSE fragment.payload]

\* Mutant: a text is not validated when it arrives in fragments.
ContinuationUnvalidated(f) ==
  LET a == AppendFragment(f.data)
  IN  IF ~fragment.fragmented THEN Refuse(1002) /\ UNCHANGED fragment
      ELSE IF ~a.ok THEN Refuse(1009) /\ fragment' = NoFragment
      ELSE IF f.fin THEN Deliver(fragment.opcode, a.payload) /\ fragment' = NoFragment
      ELSE Accepted /\ fragment' = [fragment EXCEPT !.payload = a.payload]

\* handle_data_frame(), a continuation frame.
Continuation(f) ==
  LET a == AppendFragment(f.data)
      invalid == f.fin /\ fragment.opcode = "text" /\ ~IsValidUtf8(a.payload)
  IN  IF ~fragment.fragmented THEN Refuse(1002) /\ UNCHANGED fragment
      ELSE IF ~a.ok THEN Refuse(1009) /\ fragment' = NoFragment
      ELSE IF invalid THEN Refuse(1007) /\ fragment' = NoFragment
      ELSE IF f.fin THEN Deliver(fragment.opcode, a.payload) /\ fragment' = NoFragment
      ELSE Accepted /\ fragment' = [fragment EXCEPT !.payload = a.payload]

\* Mutant: the first fragment of a text is validated by itself.
FirstFrameValidatesFragment(f) ==
  IF fragment.fragmented THEN Refuse(1002) /\ fragment' = NoFragment
  ELSE IF f.op = "text" /\ ~IsValidUtf8(f.data) THEN Refuse(1007) /\ UNCHANGED fragment
  ELSE IF f.fin THEN Deliver(f.op, f.data) /\ UNCHANGED fragment
  ELSE Accepted /\ fragment' = [fragmented |-> TRUE, opcode |-> f.op, payload |-> f.data]

\* handle_data_frame(), a text or binary frame.
FirstFrame(f) ==
  IF fragment.fragmented THEN Refuse(1002) /\ fragment' = NoFragment
  ELSE IF f.fin /\ f.op = "text" /\ ~IsValidUtf8(f.data) THEN Refuse(1007) /\ UNCHANGED fragment
  ELSE IF f.fin THEN Deliver(f.op, f.data) /\ UNCHANGED fragment
  ELSE Accepted /\ fragment' = [fragmented |-> TRUE, opcode |-> f.op, payload |-> f.data]

HandleContinuation == \E f \in PeerFrames : Take(f) /\ f.op = "continuation" /\ Continuation(f)

HandleFirst == \E f \in PeerFrames : Take(f) /\ f.op \in {"text", "binary"} /\ FirstFrame(f)

\* A ping is answered; the loop ends if the answer fails.  A pong is noted.
HandlePing ==
  \E f \in PeerFrames : Take(f) /\ f.op = "ping" /\ open' \in BOOLEAN
                        /\ UNCHANGED <<code, culprit, delivered, fragment>>
HandlePong == \E f \in PeerFrames : Take(f) /\ f.op = "pong" /\ Accepted /\ UNCHANGED fragment

\* The peer's close frame is echoed; the fragment is dropped.
HandleClose ==
  \E f \in PeerFrames : /\ Take(f) /\ f.op = "close"
                        /\ open' = FALSE /\ fragment' = NoFragment
                        /\ UNCHANGED <<code, culprit, delivered>>

HandleFrame == HandleContinuation \/ HandleFirst \/ HandlePing \/ HandlePong \/ HandleClose

Next ==
  \/ PeerSends \/ Wake \/ Sweep \/ Recv \/ RecvNothing \/ RecvEnd \/ ClosedElsewhere
  \/ FramesDone \/ FrameError
  \/ HandleContinuation \/ HandleFirst \/ HandlePing \/ HandlePong \/ HandleClose

Spec == Init /\ [][Next]_vars

\* The loop waits again after every sweep, the driver then reports a descriptor
\* that stays ready, and the loop goes on once it is inside.  What the peer
\* sent arrives in the end: recv() may answer EAGAIN often, but not for ever.
Fairness ==
  /\ SF_vars(Wake)
  /\ WF_vars(RecvNothing \/ FramesDone \/ FrameError \/ HandleFrame)
  /\ SF_vars(Recv)

FairSpec == Spec /\ Fairness
-----------------------------------------------------------------------------
(* The reference: what a sequence of frames means, without any state. *)

\* The data frames before frame i that no FIN completes: the unfinished message.
Unfinished(fs, i) ==
  {j \in 1..(i - 1) :
     fs[j].op \in DataOps /\ \A k \in j..(i - 1) : fs[k].op \in DataOps => ~fs[k].fin}

\* The payloads of the frames in parts, which are among the first i.
Payload(fs, parts, i) == FlattenSeq([k \in 1..i |-> IF k \in parts THEN fs[k].data ELSE <<>>])

\* The message with frame i at its end.
MessageAt(fs, i) ==
  LET parts == Unfinished(fs, i) \cup {i}
  IN  [op |-> fs[Min(parts)].op, data |-> Payload(fs, parts, i)]

\* The messages that the first n frames complete.
Messages(fs, n) ==
  FlattenSeq([i \in 1..n |-> IF fs[i].op \in DataOps /\ fs[i].fin
                             THEN <<MessageAt(fs, i)>> ELSE <<>>])

\* The close code that frame i deserves if the frames before it are right.
Deserved(fs, i) ==
  LET f == fs[i]
      inside == Unfinished(fs, i) # {}
      control == f.op \in ControlOps
      m == MessageAt(fs, i)
  IN  IF \/ f.flaw \in {"head", "length"}
         \/ control /\ (~f.fin \/ Len(f.data) > MaxControl) THEN 1002
      ELSE IF ~control /\ Len(f.data) > MaxMessageSize THEN 1009
      ELSE IF f.op = "close" /\ (f.flaw = "code" \/ Len(f.data) = 1) THEN 1002
      ELSE IF f.op = "close" /\ ~IsValidUtf8(SubSeq(f.data, 3, Len(f.data))) THEN 1007
      ELSE IF control THEN 0
      ELSE IF inside # (f.op = "continuation") THEN 1002
      ELSE IF Len(m.data) > MaxMessageSize THEN 1009
      ELSE IF f.fin /\ m.op = "text" /\ ~IsValidUtf8(m.data) THEN 1007
      ELSE 0

Good == IF culprit # 0 THEN culprit - 1 ELSE handled

-----------------------------------------------------------------------------
\* The application gets the messages that the frames mean, once each, in
\* order and whole, however recv() cuts the stream and wherever control frames
\* interrupt a message; frames that deserve a close code yield nothing.
DeliversMessages ==
  /\ \A i \in 1..Good : Deserved(sent, i) = 0
  /\ delivered = Messages(sent, Good)

\* What the read buffer is not made for: a control frame longer than a message
\* may be, which arrives in pieces.
LongControl(f) == f.op \in ControlOps /\ FrameLen(f) > MaxMessageSize + MaxHeader + 1

\* A close code is sent only for a frame that deserves it, and for the first
\* such frame; but a long control frame may be refused as too big.
CloseCodeDeserved ==
  culprit # 0 => \/ Deserved(sent, culprit) = code
                 \/ code = 1009 /\ LongControl(sent[culprit])

\* A peer costs bounded memory: the read buffer keeps its limit, and between
\* two reads it and the fragment hold no more than one frame and one message.
BoundedMemory ==
  /\ Buffered <= ReadLimit
  /\ Len(fragment.payload) <= MaxMessageSize
  /\ open /\ pc \in {"wait", "reads"} => Buffered < Max({MaxControl, MaxMessageSize}) + MaxHeader

\* Every frame that the peer sent is handled, or the connection ends: the
\* frames sent so far are caught up with again and again.
FramesAreHandled == []<>(handled = Len(sent) \/ ~open)
=============================================================================
