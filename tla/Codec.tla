------------------------------- MODULE Codec --------------------------------
(***************************************************************************)
(* The frame codec of WebSocket\Protocol (websocket_protocol.c): pack(),   *)
(* encode() and unpack(), which is also decode(), with the header, the     *)
(* three forms of the length, masking in blocks, and close payloads.  One  *)
(* side packs frames onto a wire; the other collects pieces of it in a     *)
(* buffer, unpacks, and discards what a frame consumed, as the README's    *)
(* clients do.                                                             *)
(*                                                                         *)
(* Flags are a set of names; COMPRESS and RSV1 are the same bit on the     *)
(* wire.  The lengths at which the header changes are parameters, so that  *)
(* payloads of a few bytes cross them.                                     *)
(***************************************************************************)
EXTENDS Integers, Sequences, Utf8

CONSTANTS
  XorByte(_, _), \* ^ of two bytes
  MaxShort,     \* 125: the longest length in the second byte, and of control frames
  Max16,        \* 0xffff: the longest length in two bytes
  LengthBytes,  \* 8: the bytes of the longest form
  Payloads,     \* payloads and close reasons that occur
  Masks,        \* mask keys that random_bytes() returns
  FlagSets,     \* flags given to pack()
  PackOpcodes,  \* opcodes given to pack()
  EncodeTypes,  \* message types given to encode()
  Codes,        \* codes given to CloseFrame
  RawFrames,    \* bytes that no pack() made
  MaxFrames     \* bound: frames packed

FlagNames == {"FIN", "COMPRESS", "RSV1", "RSV2", "RSV3", "MASK"}
Opcodes == [Continuation |-> 0, Text |-> 1, Binary |-> 2, Close |-> 8, Ping |-> 9, Pong |-> 10]

\* The largest size_t.
SizeMax ==
  LET size[n \in 0..LengthBytes] == IF n = 0 THEN 1 ELSE 256 * size[n - 1]
  IN  size[LengthBytes] - 1

\* ^ with a byte undoes itself.
ASSUME XorAssumption ==
  \A a, b \in Byte : XorByte(a, b) \in Byte /\ XorByte(XorByte(a, b), b) = a

\* What PHP hands over: strings of bytes that fit in memory with a header, numbers, enum cases.
ASSUME CodecAssumption ==
  /\ MaxShort \in 2..125 /\ Max16 \in MaxShort..65535
  /\ LengthBytes \in 3..8 /\ MaxFrames \in Nat
  /\ \A p \in Payloads : p \in Seq(Byte) /\ Len(p) + LengthBytes + 8 <= SizeMax
  /\ \A m \in Masks : m \in Seq(Byte) /\ Len(m) = 4
  /\ FlagSets \subseteq SUBSET FlagNames
  /\ PackOpcodes \subseteq Int /\ Codes \subseteq Int
  /\ EncodeTypes \subseteq DOMAIN Opcodes
  /\ \A raw \in RawFrames : raw \in Seq(Byte)

VARIABLES
  sent,     \* the frames that were packed, as unpack() should return them
  makers,   \* who made each of them
  last,     \* the last frame packed: its parts and its bytes
  wire,     \* bytes on their way
  buffer,   \* the reader's buffer
  got,      \* the frames unpacked so far
  refused   \* unpack() threw

codecVars == <<sent, makers, last, wire, buffer, got, refused>>

\* message_type_opcode()
TypeOpcode(type) == Opcodes[type]
OpcodeIsValid(op) == op \in {Opcodes[t] : t \in DOMAIN Opcodes}
OpcodeIsControl(op) == op \in 8..15
CloseCodeIsValid(code) == code \in 1000..4999 \ {1004, 1005, 1006, 1015}

-----------------------------------------------------------------------------
(* Packing. *)

\* Mutant: after the block of four bytes the key starts one byte too late.
MaskShifted(src, mask) ==
  [i \in DOMAIN src |-> XorByte(src[i], mask[IF i <= 4 THEN i ELSE (i % 4) + 1])]

\* mask_payload_copy(): blocks of eight bytes, then one of four, then single bytes.
MaskPayload(src, mask) ==
  LET n == Len(src)
      in8 == n - (n % 8)
      in4 == in8 + (IF n - in8 >= 4 THEN 4 ELSE 0)
  IN  [i \in 1..n |->
         IF i <= in8 THEN XorByte(src[i], mask[(((i - 1) % 8) % 4) + 1])
         ELSE IF i <= in4 THEN XorByte(src[i], mask[i - in8])
         ELSE XorByte(src[i], mask[((i - 1) % 4) + 1])]

\* payload_len >> 8 * j
Shifted(len) ==
  LET shifted[j \in 0..8] == IF j = 0 THEN len ELSE shifted[j - 1] \div 256
  IN  shifted

\* The n bytes of a length, the most significant first.
BigEndian(len, n) == [i \in 1..n |-> Shifted(len)[n - i] % 256]

Bit(flags, names, value) == IF flags \cap names # {} THEN value ELSE 0

LengthField(len, top) ==
  IF len <= MaxShort THEN <<top + len>>
  ELSE IF len <= Max16 THEN <<top + MaxShort + 1>> \o BigEndian(len, 2)
  ELSE <<top + MaxShort + 2>> \o BigEndian(len, LengthBytes)

\* pack_payload()
PackPayload(payload, op, flags, mask) ==
  <<(op % 16) + Bit(flags, {"FIN"}, 128) + Bit(flags, {"COMPRESS", "RSV1"}, 64)
      + Bit(flags, {"RSV2"}, 32) + Bit(flags, {"RSV3"}, 16)>>
  \o LengthField(Len(payload), Bit(flags, {"MASK"}, 128))
  \o IF "MASK" \in flags THEN mask \o MaskPayload(payload, mask) ELSE payload

\* close_payload(), once its arguments are accepted.
ClosePayload(code, reason) == <<code \div 256, code % 256>> \o reason
CloseAccepted(code, reason) ==
  CloseCodeIsValid(code) /\ Len(reason) <= MaxShort - 2 /\ IsValidUtf8(reason)

\* Mutant: the length of control frames is not checked.
PackAcceptsLong(payload, op, flags) ==
  /\ OpcodeIsValid(op)
  /\ OpcodeIsControl(op) => "FIN" \in flags
  /\ op = 1 /\ "FIN" \in flags => IsValidUtf8(payload)

\* pack()'s checks.
PackAccepts(payload, op, flags) ==
  /\ OpcodeIsValid(op)
  /\ OpcodeIsControl(op) => "FIN" \in flags /\ Len(payload) <= MaxShort
  /\ op = 1 /\ "FIN" \in flags => IsValidUtf8(payload)

\* What unpack() makes of the flags.
WireFlags(flags) ==
  (flags \ {"COMPRESS"}) \cup IF "COMPRESS" \in flags THEN {"RSV1"} ELSE {}

Emit(maker, payload, op, flags) ==
  \E mask \in Masks :
    LET bytes == PackPayload(payload, op, flags, mask)
    IN  /\ sent' = Append(sent, [op |-> op, flags |-> WireFlags(flags), payload |-> payload])
        /\ makers' = Append(makers, maker)
        /\ last' = [payload |-> payload, op |-> op, flags |-> flags, mask |-> mask, bytes |-> bytes]
        /\ wire' = wire \o bytes
        /\ UNCHANGED <<buffer, got, refused>>

\* Protocol::pack() of a string, or of a Frame with these properties.
Pack ==
  /\ Len(sent) < MaxFrames
  /\ \E payload \in Payloads, op \in PackOpcodes, flags \in FlagSets :
       PackAccepts(payload, op, flags) /\ Emit("pack", payload, op, flags)

\* Protocol::pack() of a CloseFrame.
PackClose ==
  /\ Len(sent) < MaxFrames
  /\ \E code \in Codes, reason \in Payloads, flags \in FlagSets :
       /\ CloseAccepted(code, reason)
       /\ PackAccepts(ClosePayload(code, reason), 8, flags)
       /\ Emit("close", ClosePayload(code, reason), 8, flags)

\* Protocol::encode(): only the text is checked.
Encode ==
  /\ Len(sent) < MaxFrames
  /\ \E payload \in Payloads, type \in EncodeTypes, flags \in {{"FIN"}, {"FIN", "MASK"}} :
       /\ type = "Text" => IsValidUtf8(payload)
       /\ Emit("encode", payload, TypeOpcode(type), flags)

-----------------------------------------------------------------------------
(* Unpacking. *)

Null == [result |-> "null"]
Throw(reach) == [result |-> "throw", reach |-> reach]

\* The sum of two numbers in a size_t.
SizeSum(a, b) == (a + b) % (SizeMax + 1)

\* payload_len = (payload_len << 8) | byte, over the bytes in[2] ...
LengthAt(in, n) ==
  LET value[k \in 0..n] == IF k = 0 THEN 0 ELSE value[k - 1] * 256 + in[2 + k]
  IN  value[n]

\* The flags of the first two bytes; COMPRESS is not among them.
ReadFlags(b0, b1) ==
  {f \in {"FIN", "RSV1", "RSV2", "RSV3", "MASK"} :
     CASE f = "FIN" -> b0 \div 128 = 1
       [] f = "RSV1" -> (b0 \div 64) % 2 = 1
       [] f = "RSV2" -> (b0 \div 32) % 2 = 1
       [] f = "RSV3" -> (b0 \div 16) % 2 = 1
       [] f = "MASK" -> b1 \div 128 = 1}

\* What unpack() returns once all of a frame is there, len bytes from pos on: the
\* frame, a CloseFrame by its payload, or an error found before or after the payload
\* is copied; and how far into the buffer it has read.
Interpret(op, flags, payload, pos, len) ==
  IF \/ ~OpcodeIsValid(op)
     \/ OpcodeIsControl(op) /\ ("FIN" \notin flags \/ len > MaxShort)
     \/ op = 8 /\ len = 1
  THEN Throw(pos)
  ELSE IF \/ op = 8 /\ ~IsValidUtf8(SubSeq(payload, 3, len))
          \/ op = 1 /\ "FIN" \in flags /\ ~IsValidUtf8(payload)
  THEN Throw(pos + len)
  ELSE [result |-> "frame", reach |-> pos + len, consumed |-> SizeSum(pos, len),
        frame |-> [op |-> op, flags |-> flags, payload |-> payload]]

Needed(in) == LET short == in[2] % 128
              IN  CASE short = MaxShort + 1 -> 2
                    [] short = MaxShort + 2 -> LengthBytes
                    [] OTHER -> 0

\* Mutant: the length is not compared with the largest that can be added.
IsThereWrapping(in, pos, len) == Len(in) >= SizeSum(pos, len)

\* The whole frame is in the buffer; a length that cannot be added never is.
IsThere(in, pos, len) == len <= SizeMax - pos /\ Len(in) >= SizeSum(pos, len)

\* Beyond the buffer there is other memory.
Memory(in, i) == IF i <= Len(in) THEN in[i] ELSE 0

\* websocket_protocol_unpack()
Unpack(in) ==
  IF Len(in) < 2 THEN Null
  ELSE LET ext == Needed(in)
           flags == ReadFlags(in[1], in[2])
           key == IF "MASK" \in flags THEN 4 ELSE 0
           pos == 2 + ext + key
       IN  IF Len(in) < pos THEN Null
           ELSE LET len == IF ext = 0 THEN in[2] % 128 ELSE LengthAt(in, ext)
                    raw == [i \in 1..len |-> Memory(in, pos + i)]
                IN  IF ~IsThere(in, pos, len) THEN Null
                    ELSE Interpret(in[1] % 16, flags,
                           IF key = 0 THEN raw
                           ELSE MaskPayload(raw, SubSeq(in, pos - 3, pos)),
                           pos, len)

-----------------------------------------------------------------------------
(* The reader. *)

Foreign == [op |-> -1]

\* A peer sends what no pack() made.
SendRaw ==
  /\ Len(sent) < MaxFrames
  /\ \E raw \in RawFrames : wire' = wire \o raw
  /\ sent' = Append(sent, Foreign) /\ makers' = Append(makers, "peer")
  /\ UNCHANGED <<last, buffer, got, refused>>

Deliver ==
  /\ wire # <<>>
  /\ \E n \in 1..Len(wire) :
       /\ buffer' = buffer \o SubSeq(wire, 1, n)
       /\ wire' = SubSeq(wire, n + 1, Len(wire))
  /\ UNCHANGED <<sent, makers, last, got, refused>>

\* unpack(), then the buffer without the bytesConsumed.
Read ==
  /\ ~refused
  /\ LET u == Unpack(buffer)
     IN  \/ /\ u.result = "frame"
            /\ got' = Append(got, u.frame)
            /\ buffer' = SubSeq(buffer, u.consumed + 1, Len(buffer))
            /\ UNCHANGED refused
         \/ /\ u.result = "throw"
            /\ refused' = TRUE
            /\ UNCHANGED <<got, buffer>>
  /\ UNCHANGED <<sent, makers, last, wire>>

CodecInit ==
  /\ sent = <<>> /\ makers = <<>> /\ wire = <<>> /\ buffer = <<>> /\ got = <<>>
  /\ last = [bytes |-> <<>>]
  /\ refused = FALSE

CodecNext == Pack \/ PackClose \/ Encode \/ SendRaw \/ Deliver \/ Read

CodecSpec == CodecInit /\ [][CodecNext]_codecVars

-----------------------------------------------------------------------------
(* Properties. *)

AllPacked == \A i \in DOMAIN sent : sent[i] # Foreign

\* What nobody looks at before it is packed: encode() at the length of a control
\* frame; encode(), and pack() of a string, at the payload of a Close frame.
Unchecked(maker, f) ==
  LET reason == SubSeq(f.payload, 3, Len(f.payload))
  IN  \/ maker = "encode" /\ OpcodeIsControl(f.op) /\ Len(f.payload) > MaxShort
      \/ /\ maker \in {"encode", "pack"} /\ f.op = 8
         /\ Len(f.payload) = 1 \/ ~IsValidUtf8(reason)

\* What is unpacked is what was packed, in order, however the wire is cut, and
\* nothing is kept back: when all bytes are there unpack() returns all frames, or
\* those before one that it refuses.  And it refuses exactly what nobody checked:
\* no frame that pack() made of data, of a ping or a pong or of a CloseFrame, and
\* no data that encode() encoded; but every control frame of encode() that is too
\* long and every Close frame of encode() or of pack() with half a code or a reason
\* that is not UTF-8.
RoundTrip == AllPacked =>
  /\ Len(got) <= Len(sent) /\ got = SubSeq(sent, 1, Len(got))
  /\ \A i \in 1..Len(got) : ~Unchecked(makers[i], sent[i])
  /\ refused => Len(got) < Len(sent) /\ Unchecked(makers[Len(got) + 1], sent[Len(got) + 1])
  /\ wire = <<>> /\ ~refused /\ Unpack(buffer) = Null => got = sent /\ buffer = <<>>

\* unpack() copies no byte that is not in the buffer, whatever length a frame
\* announces and whether it returns the frame or throws; and the bytesConsumed that
\* it returns, a sum in a size_t, are the bytes it has read.
UnpackStaysInBuffer ==
  LET u == Unpack(buffer)
  IN  /\ u.result # "null" => u.reach <= Len(buffer)
      /\ u.result = "frame" => u.consumed = u.reach

\* The bytes of a frame are those of RFC 6455, section 5.2: FIN, the reserved bits
\* and the opcode in the first byte, MASK and the shortest form of the length, the
\* key, and the payload, masked byte by byte with the key's byte at the same position
\* modulo four (section 5.3).
WireFormat ==
  last.bytes # <<>> =>
    LET len == Len(last.payload)
        ext == IF len <= MaxShort THEN 0 ELSE IF len <= Max16 THEN 2 ELSE LengthBytes
        key == IF "MASK" \in last.flags THEN 4 ELSE 0
        body == 2 + ext + key
        b0 == last.bytes[1]
        b1 == last.bytes[2]
    IN  /\ Len(last.bytes) = body + len
        /\ b0 \in Byte /\ b0 % 16 = last.op
        /\ b0 \div 128 = 1 <=> "FIN" \in last.flags
        /\ (b0 \div 64) % 2 = 1 <=> last.flags \cap {"COMPRESS", "RSV1"} # {}
        /\ (b0 \div 32) % 2 = 1 <=> "RSV2" \in last.flags
        /\ (b0 \div 16) % 2 = 1 <=> "RSV3" \in last.flags
        /\ b1 \in Byte /\ (b1 \div 128 = 1 <=> key = 4)
        /\ b1 % 128 = IF ext = 0 THEN len ELSE IF ext = 2 THEN MaxShort + 1 ELSE MaxShort + 2
        /\ ext > 0 => LengthAt(last.bytes, ext) = len
        /\ \A i \in 1..key : last.bytes[2 + ext + i] = last.mask[i]
        /\ \A i \in 1..len : last.bytes[body + i] =
             IF key = 0 THEN last.payload[i]
             ELSE XorByte(last.payload[i], last.bytes[body - 3 + ((i - 1) % 4)])
=============================================================================
