------------------------------- MODULE MCCodec ------------------------------
(* Lengths on either side of each boundary of the header and of the blocks   *)
(* of the mask; a two-byte character, a byte that is not UTF-8, half a close *)
(* code, a code with a reason that is not UTF-8.  Besides the codec at work, *)
(* the validator alone on every text up to a length, growing byte by byte    *)
(* over the bytes on either side of every boundary the validator tests.      *)
EXTENDS Codec, Texts, Bitwise

XorOfBytes(a, b) == a ^^ b

Ascii(n) == [i \in 1..n |-> 64 + i]
SomePayloads == {Ascii(0), Ascii(5), Ascii(6), Ascii(9), Ascii(10), Ascii(13),
                 <<195, 169>>, <<255>>, <<3, 232, 255>>}
OneMask == {<<1, 130, 3, 255>>}
SomeFlags == {{"FIN"}, {"COMPRESS", "RSV3"}, {"FIN", "MASK", "RSV2"}}
SomeOpcodes == {1, 8, 9, 3}
SomeTypes == {"Text", "Binary", "Close", "Pong"}
SomeCodes == {999, 1000, 1005}
\* Lengths at and around the largest that can be added to the header's, with and
\* without a mask key, a length in the wrong form, and a close with half a code.
SomeRaw == {<<130, 7, 255, 255, 255>>, <<130, 7, 255, 255, 250>>, <<130, 7, 255, 255, 251>>,
            <<2, 135, 255, 255, 247, 1, 2, 3, 4>>, <<130, 6, 0, 3, 1>>, <<136, 1, 3>>}

Boundaries == {0, 127, 128, 143, 144, 159, 160, 191, 192, 193, 194, 223, 224,
               225, 236, 237, 238, 239, 240, 241, 243, 244, 245, 255}

Init == CodecInit /\ TextsInit

Next ==
  \/ sent = <<>> /\ Grow /\ UNCHANGED codecVars
  \/ text = <<>> /\ CodecNext /\ UNCHANGED text

Spec == Init /\ [][Next]_<<codecVars, text>>
=============================================================================
