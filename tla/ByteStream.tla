----------------------------- MODULE ByteStream -----------------------------
(***************************************************************************)
(* What the outgoing half of a connection promises to the application: a   *)
(* byte stream.  Bytes are accepted, delivered in order and never more     *)
(* than were accepted; once the stream drains it accepts nothing, and it   *)
(* closes by itself only when everything accepted has been delivered or    *)
(* when it is given up.  A closed stream never changes again.              *)
(***************************************************************************)
EXTENDS Integers

VARIABLES
  accepted,    \* bytes taken from the application
  delivered,   \* bytes handed to the socket
  status       \* "open", "draining", "failed" (given up, not yet gone), "closed"

bsvars == <<accepted, delivered, status>>

BSInit == accepted = 0 /\ delivered = 0 /\ status = "open"

\* Some bytes move to the socket; the stream may fail while they do.
Deliver ==
  /\ status \in {"open", "draining"}
  /\ delivered' \in delivered..accepted
  /\ status' \in {status, "failed"}
  /\ UNCHANGED accepted

\* A frame is accepted, and some of it may be delivered at once.  It may be
\* the last one (the stream drains), or all that the socket took (it fails).
Accept ==
  /\ status = "open"
  /\ accepted' \in Nat
  /\ accepted' > accepted
  /\ delivered' \in delivered..accepted'
  /\ status' \in {"open", "draining", "failed"}

\* The application asks for the end while bytes are waiting.
Drain ==
  /\ status = "open" /\ delivered < accepted
  /\ status' = "draining"
  /\ UNCHANGED <<accepted, delivered>>

\* The normal end: nothing that was accepted is missing; the last frame may
\* be accepted and delivered in the same step.
Finish ==
  /\ status \in {"open", "draining"}
  /\ accepted' \in Nat
  /\ accepted' >= accepted
  /\ status = "draining" => accepted' = accepted
  /\ delivered' = accepted'
  /\ status' = "closed"

\* The connection is given up: an error, a timeout, the end of the server.
Abort ==
  /\ status # "closed"
  /\ status' \in {"failed", "closed"}
  /\ UNCHANGED <<accepted, delivered>>

\* A last frame is tried, only part of it goes out, and the stream is given up.
AbortTruncated ==
  /\ status = "open"
  /\ accepted' \in Nat
  /\ accepted' > accepted
  /\ delivered' \in delivered..accepted'
  /\ status' = "closed"

BSNext == Deliver \/ Accept \/ Drain \/ Finish \/ Abort \/ AbortTruncated

BSSpec == BSInit /\ [][BSNext]_bsvars
=============================================================================
