-------------------------------- MODULE Utf8 --------------------------------
(***************************************************************************)
(* websocket_protocol_is_valid_utf8() (websocket_protocol.c), on bytes, as *)
(* text messages, close reasons and encode() use it, and the definition of *)
(* UTF-8 it is compared with.                                              *)
(***************************************************************************)
EXTENDS Naturals, Sequences

Byte == 0..255

-----------------------------------------------------------------------------
(* The code: one look at the leading byte. *)

Continuations == 128..191    \* (b & 0xc0) == 0x80

\* Mutant: the surrogates' leading byte has no range of its own.
TailMissingSurrogates(c) ==
  CASE c \in 0..127 -> <<>>
    [] c \in 194..223 -> <<Continuations>>
    [] c = 224 -> <<160..191, Continuations>>
    [] c \in 225..239 -> <<Continuations, Continuations>>
    [] c = 240 -> <<144..191, Continuations, Continuations>>
    [] c \in 241..243 -> <<Continuations, Continuations, Continuations>>
    [] c = 244 -> <<128..143, Continuations, Continuations>>
    [] OTHER -> <<{}>>

\* What may follow a leading byte; nothing may follow a byte that cannot lead.
TailOf(c) ==
  CASE c \in 0..127 -> <<>>
    [] c \in 194..223 -> <<Continuations>>
    [] c = 224 -> <<160..191, Continuations>>
    [] c \in (225..236) \cup (238..239) -> <<Continuations, Continuations>>
    [] c = 237 -> <<128..159, Continuations>>
    [] c = 240 -> <<144..191, Continuations, Continuations>>
    [] c \in 241..243 -> <<Continuations, Continuations, Continuations>>
    [] c = 244 -> <<128..143, Continuations, Continuations>>
    [] OTHER -> <<{}>>

\* The while loop, from byte i on.
IsValidUtf8(s) ==
  LET valid[i \in 1..(Len(s) + 1)] ==
        IF i > Len(s) THEN TRUE
        ELSE LET tail == TailOf(s[i])
             IN  /\ i + Len(tail) <= Len(s)
                 /\ \A k \in DOMAIN tail : s[i + k] \in tail[k]
                 /\ valid[i + 1 + Len(tail)]
  IN  valid[1]

-----------------------------------------------------------------------------
(* The definition of UTF-8 (RFC 3629): the shortest encodings of code points *)
(* that are not surrogates, one after the other.                             *)

\* The code point of a sequence of one to four bytes, by the bits of its bytes.
Low6(b) == b % 64
CodePoint(e) ==
  CASE Len(e) = 1 -> e[1]
    [] Len(e) = 2 -> (e[1] % 32) * 64 + Low6(e[2])
    [] Len(e) = 3 -> (e[1] % 16) * 4096 + Low6(e[2]) * 64 + Low6(e[3])
    [] Len(e) = 4 -> (e[1] % 8) * 262144 + Low6(e[2]) * 4096 + Low6(e[3]) * 64
                       + Low6(e[4])

Between(v, lo, hi) == lo <= v /\ v <= hi

IsEncoding(e) ==
  /\ \A k \in 2..Len(e) : e[k] \div 64 = 2
  /\ CASE Len(e) = 1 -> e[1] \div 128 = 0
       [] Len(e) = 2 -> e[1] \div 32 = 6 /\ Between(CodePoint(e), 128, 2047)
       [] Len(e) = 3 -> /\ e[1] \div 16 = 14 /\ Between(CodePoint(e), 2048, 65535)
                        /\ ~Between(CodePoint(e), 55296, 57343)    \* surrogates
       [] Len(e) = 4 -> e[1] \div 8 = 30 /\ Between(CodePoint(e), 65536, 1114111)

WellFormed(s) ==
  LET ok[i \in 1..(Len(s) + 1)] ==
        i > Len(s) \/ \E n \in 1..4 : /\ i + n - 1 <= Len(s)
                                      /\ IsEncoding(SubSeq(s, i, i + n - 1))
                                      /\ ok[i + n]
  IN  ok[1]
=============================================================================
