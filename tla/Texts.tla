-------------------------------- MODULE Texts -------------------------------
(* A text that grows byte by byte, for the validator alone: every text over  *)
(* the given bytes, up to a length.                                          *)
EXTENDS Utf8

CONSTANTS
  TextBytes,  \* bytes that occur in texts
  MaxText     \* bound: bytes of a text

ASSUME TextsAssumption == TextBytes \subseteq Byte /\ MaxText \in Nat

VARIABLE text

TextsInit == text = <<>>

Grow == Len(text) < MaxText /\ \E b \in TextBytes : text' = Append(text, b)

TextsSpec == TextsInit /\ [][Grow]_text

\* The validator accepts exactly the UTF-8 texts: no overlong form, surrogate,
\* value above U+10FFFF, stray or missing continuation byte slips through, and
\* no text is refused.
ValidatorIsExact == IsValidUtf8(text) <=> WellFormed(text)
=============================================================================
