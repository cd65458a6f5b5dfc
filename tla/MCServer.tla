------------------------------ MODULE MCServer ------------------------------
(* The server with frames of one byte: what matters here is whether a frame  *)
(* goes out, is queued, or is refused.                                       *)
EXTENDS Server

OneByte == {1}
Errors == {"EPIPE"}
AllHandlers == {"handshake", "open", "message", "close"}
EveryUnit == Requests \cup Frames
FewUnits == {"request", "message", "close"}
FewHandlers == {"open", "close"}

\* Room for two connections and every handler, or for one and few handlers.
AnyOptions == {[maxConnections |-> 2, handlers |-> AllHandlers],
               [maxConnections |-> 1, handlers |-> FewHandlers]}
UsualOptions == {[maxConnections |-> 2, handlers |-> AllHandlers]}
=============================================================================
