---------------------------- MODULE HttpUpgrade -----------------------------
(***************************************************************************)
(* The opening handshake of one connection: process_handshake() collects   *)
(* the request from the socket in pieces, websocket_http_parse_upgrade()   *)
(* reads it, on_handshake may reject it, and finish_upgrade() answers and  *)
(* calls on_open with what came behind the request still in the buffer.    *)
(* The loop visits the connection when the driver reports its descriptor   *)
(* and once in every pass; a visit tests the handshake timer before it     *)
(* reads.  When the timer runs out is left open here: module Timers counts.*)
(*                                                                         *)
(* The stream is a sequence of units: a line without its end, a CR, an LF, *)
(* or a byte of a frame.  A request line is given by the words between its *)
(* spaces, a header by its name and the parts of its value between commas, *)
(* all trimmed; a line without a colon has words only.  Lower() is the     *)
(* code's comparison without case.                                         *)
(***************************************************************************)
EXTENDS Integers, Sequences, SequencesExt, FiniteSetsExt

CONSTANTS
  Scenes,        \* who meets whom:
                 \*   request (a sequence of lines), tail (what the peer sends behind it),
                 \*   sizes (units the peer sends at once, besides all it has left),
                 \*   on_handshake (the handler is registered)
  Supported,     \* the tokens given to subprotocols()
  ValidTokens,   \* parts that are RFC tokens
  ValidKeys,     \* keys that decode to 16 bytes
  Rejections,    \* responses that on_handshake's exceptions carry
  ReadChunk,     \* 4096: WEBSOCKET_READ_CHUNK_SIZE
  MaxRequest     \* 8192: WEBSOCKET_HTTP_MAX_REQUEST_SIZE

VARIABLES
  scene,          \* this peer and this server, which do not change
  unsent,         \* the part it has not sent yet
  socket,         \* received by the kernel
  gone,           \* the peer has closed its end ("fin") or reset the connection ("rst")
  buffer,         \* read_buffer
  open, upgraded, subprotocol,
  parsed,         \* the websocket_http_upgrade that on_handshake is called with
  pc,             \* where process_handshake() is; "wait": it has returned for now
  answer          \* the response written to the socket, whole or its beginning

upgradeVars == <<scene, unsent, socket, gone, buffer, open, upgraded, subprotocol, parsed, pc, answer>>

request == scene.request
tail == scene.tail

None == "none"
Bad == "bad"
CR == [byte |-> "cr"]
LF == [byte |-> "lf"]
IsLine(unit) == "byte" \notin DOMAIN unit
HasColon(line) == "name" \in DOMAIN line

Spelling == [GET |-> "get", Upgrade |-> "upgrade", UPGRADE |-> "upgrade",
             WebSocket |-> "websocket", Chat |-> "chat"]
Lower(word) == IF word \in DOMAIN Spelling THEN Spelling[word] ELSE word

ASSUME UpgradeAssumption ==
  /\ \A s \in Scenes :
       /\ s.request \in Seq(ToSet(s.request)) /\ s.tail \in Seq(ToSet(s.tail))
       /\ s.sizes \subseteq Nat \ {0} /\ s.on_handshake \in BOOLEAN
       \* A line may be a bare CR; values are sequences of parts.
       /\ \A line \in ToSet(s.request) :
            /\ line = CR \/ IsLine(line)
            /\ HasColon(line) => line.parts \in Seq(ToSet(line.parts))
  /\ Supported \subseteq ValidTokens /\ {None, Bad} \cap ValidTokens = {}
  /\ \A r \in Rejections : DOMAIN r = {"status", "headers"}
  /\ ReadChunk \in Nat \ {0} /\ MaxRequest = 2 * ReadChunk

\* Every line with its end, then an empty line.
Stream(lines) ==
  [k \in 1..(3 * Len(lines) + 2) |->
     IF k > 3 * Len(lines) THEN <<CR, LF>>[k - 3 * Len(lines)]
     ELSE <<lines[((k - 1) \div 3) + 1], CR, LF>>[((k - 1) % 3) + 1]]

-----------------------------------------------------------------------------
(* Parsing. *)

\* Where the sequence end first occurs; 0 if it does not.
FirstAt(buf, end) ==
  LET found == {i \in 1..(Len(buf) - Len(end) + 1) : SubSeq(buf, i, i + Len(end) - 1) = end}
  IN  IF found = {} THEN 0 ELSE Min(found)

\* Mutant: the end is not seen when it is the last thing in the buffer.
FindHeaderEndInside(buf) == FirstAt(SubSeq(buf, 1, Len(buf) - 1), <<CR, LF, CR, LF>>)

FindHeaderEnd(buf) == FirstAt(buf, <<CR, LF, CR, LF>>)

ParseRequestLine(line) ==
  /\ ~HasColon(line) /\ Len(line.words) = 3
  /\ Lower(line.words[1]) = "get" /\ line.words[2] # "" /\ Lower(line.words[3]) = "http/1.1"

ContainsToken(parts, token) == \E i \in DOMAIN parts : Lower(parts[i]) = token

ValidateKey(parts) == Len(parts) = 1 /\ parts[1] \in ValidKeys

\* websocket_protocol_accept_key(): SHA-1 and base64 are a pairing.
AcceptKey(key) == <<"accept", key>>

\* select_subprotocol(): the first supported part, unless an earlier header gave one.
SelectSubprotocol(selected, parts) ==
  LET first == SelectInSeq(parts, LAMBDA part : part \in Supported)
  IN  IF selected # None \/ first = 0 THEN selected ELSE parts[first]

NothingParsed == [upgrade |-> FALSE, connection |-> FALSE, version |-> FALSE,
                  accept |-> <<None>>, selected |-> None, headers |-> <<>>]

\* Mutant: of values of the same name the last is kept.
AddHeaderLatest(headers, name, parts) ==
  [n \in DOMAIN headers \cup {name} |-> IF n = name THEN parts ELSE headers[n]]

\* request_headers(): names in lower case, values of the same name joined.
AddHeader(headers, name, parts) ==
  [n \in DOMAIN headers \cup {name} |->
     (IF n \in DOMAIN headers THEN headers[n] ELSE <<>>) \o (IF n = name THEN parts ELSE <<>>)]

\* One turn of the loop over the header lines: the flags follow the last header of
\* a name, the key must be the only one.
ReadHeader(p, line) ==
  LET name == Lower(line.name)
  IN  [p EXCEPT !.headers = AddHeader(@, name, line.parts),
                !.upgrade = IF name = "upgrade" THEN ContainsToken(line.parts, "websocket") ELSE @,
                !.connection = IF name = "connection" THEN ContainsToken(line.parts, "upgrade") ELSE @,
                !.version = IF name = "sec-websocket-version" THEN line.parts = <<"13">> ELSE @,
                !.accept = IF name # "sec-websocket-key" THEN @
                           ELSE IF @ = <<None>> /\ ValidateKey(line.parts) THEN AcceptKey(line.parts[1])
                           ELSE <<Bad>>,
                !.selected = IF name # "sec-websocket-protocol" \/ @ = Bad THEN @
                             ELSE IF ToSet(line.parts) \subseteq ValidTokens
                                  THEN SelectSubprotocol(@, line.parts)
                             ELSE Bad]

\* The loop over the buffer: the lines behind the first are headers.
ReadHeaders(buf, end) ==
  LET p[i \in 1..end] ==
        IF i = 1 THEN NothingParsed
        ELSE IF IsLine(buf[i]) THEN ReadHeader(p[i - 1], buf[i])
        ELSE p[i - 1]
  IN  p[end]

ParseUpgrade(buf) ==
  LET end  == FindHeaderEnd(buf)
      bare == \E i \in 1..end : buf[i] = CR /\ buf[i + 1] # LF
      p    == ReadHeaders(buf, end)
  IN  IF Len(buf) > MaxRequest THEN [result |-> "INVALID"]
      ELSE IF end = 0 THEN [result |-> "INCOMPLETE"]
      ELSE IF \/ ~IsLine(buf[1]) \/ (\A i \in 1..(end - 1) : buf[i] # CR) \/ bare
              \/ ~ParseRequestLine(buf[1]) \/ \E i \in 2..end : IsLine(buf[i]) /\ ~HasColon(buf[i])
      THEN [result |-> "INVALID"]
      ELSE IF p.upgrade /\ p.connection /\ p.version /\ p.accept \notin {<<None>>, <<Bad>>} /\ p.selected # Bad
      THEN [result |-> "OK", bytes_consumed |-> end + 3, accept_key |-> p.accept,
            selected_subprotocol |-> p.selected, target |-> buf[1].words[2], headers |-> p.headers]
      ELSE [result |-> "INVALID"]

-----------------------------------------------------------------------------
(* The connection. *)

Init ==
  /\ scene \in Scenes
  /\ unsent = Stream(request) \o tail
  /\ socket = <<>> /\ buffer = <<>> /\ gone = "no"
  /\ open = TRUE /\ upgraded = FALSE /\ subprotocol = None
  /\ parsed = [result |-> None] /\ pc = "wait" /\ answer = [status |-> 0]

PeerSends ==
  /\ gone = "no" /\ unsent # <<>>
  /\ \E n \in {s \in scene.sizes : s <= Len(unsent)} \cup {Len(unsent)} :
       /\ socket' = socket \o SubSeq(unsent, 1, n)
       /\ unsent' = SubSeq(unsent, n + 1, Len(unsent))
  /\ UNCHANGED <<scene, gone, buffer, open, upgraded, subprotocol, parsed, pc, answer>>

PeerCloses ==
  /\ gone = "no" /\ gone' \in {"fin", "rst"}
  /\ UNCHANGED <<scene, unsent, socket, buffer, open, upgraded, subprotocol, parsed, pc, answer>>

\* process_connection_fd() or process_connections() comes by: a connection whose
\* last recv(), or accept(), is a handshake timeout ago is closed without an answer,
\* whatever waits in the socket.
VisitExpires ==
  /\ pc = "wait" /\ open /\ ~upgraded
  /\ open' = FALSE /\ pc' = "expired"
  /\ UNCHANGED <<scene, unsent, socket, gone, buffer, upgraded, subprotocol, parsed, answer>>

\* Any other is read.
Visit ==
  /\ pc = "wait" /\ open /\ ~upgraded
  /\ pc' = "recv"
  /\ UNCHANGED <<scene, unsent, socket, gone, buffer, open, upgraded, subprotocol, parsed, answer>>

\* send_bytes() writes a response whole, or the socket takes only its beginning.
Sent(response, whole) ==
  [field \in DOMAIN response \cup {"whole"} |-> IF field = "whole" THEN whole ELSE response[field]]
SendBytes(response, whole) == answer' = Sent(response, whole)

BadRequest == [status |-> 400]

\* Mutant: the limit itself is refused.
EnsureReadCapacityBelow(n) == Len(buffer) + n < MaxRequest

\* ensure_read_capacity() with the limit for requests.
EnsureReadCapacity(n) == Len(buffer) + n <= MaxRequest

Arrived == IF Len(socket) < ReadChunk THEN Len(socket) ELSE ReadChunk
Receiving == pc = "recv" /\ open /\ ~upgraded /\ Arrived > 0

\* recv() returned bytes, and the buffer takes them.
Recv ==
  /\ Receiving /\ EnsureReadCapacity(Arrived)
  /\ buffer' = buffer \o SubSeq(socket, 1, Arrived)
  /\ socket' = SubSeq(socket, Arrived + 1, Len(socket))
  /\ pc' = "parse"
  /\ UNCHANGED <<scene, unsent, gone, open, upgraded, subprotocol, parsed, answer>>

\* They are too many for a request.
RecvTooLarge ==
  /\ Receiving /\ ~EnsureReadCapacity(Arrived)
  /\ socket' = SubSeq(socket, Arrived + 1, Len(socket))
  /\ \E whole \in BOOLEAN : SendBytes(BadRequest, whole)
  /\ open' = FALSE
  /\ UNCHANGED <<scene, unsent, gone, buffer, upgraded, subprotocol, parsed, pc>>

\* The whole buffer is parsed again after every recv().
Parse ==
  /\ pc = "parse"
  /\ \E p \in {ParseUpgrade(buffer)} :
       \/ /\ p.result = "INCOMPLETE"
          /\ pc' = "recv" /\ UNCHANGED <<open, parsed, answer>>
       \/ /\ p.result = "INVALID"
          /\ \E whole \in BOOLEAN : SendBytes(BadRequest, whole)
          /\ open' = FALSE /\ pc' = "recv" /\ UNCHANGED parsed
       \/ /\ p.result = "OK"
          /\ parsed' = p /\ pc' = IF scene.on_handshake THEN "handshake" ELSE "finish"
          /\ UNCHANGED <<open, answer>>
  /\ UNCHANGED <<scene, unsent, socket, gone, buffer, upgraded, subprotocol>>

\* recv() returned 0; or it failed, with or without bytes in the socket, because
\* the peer has reset the connection.
RecvEnd ==
  /\ pc = "recv" /\ open /\ ~upgraded
  /\ (gone = "fin" /\ socket = <<>>) \/ gone = "rst"
  /\ open' = FALSE /\ pc' = "ended"
  /\ UNCHANGED <<scene, unsent, socket, gone, buffer, upgraded, subprotocol, parsed, answer>>

\* recv() returned EAGAIN: until the next visit.
RecvAgain ==
  /\ pc = "recv" /\ open /\ ~upgraded /\ gone = "no" /\ socket = <<>>
  /\ pc' = "wait"
  /\ UNCHANGED <<scene, unsent, socket, gone, buffer, open, upgraded, subprotocol, parsed, answer>>

\* on_handshake returned nothing.
HandshakeReturns ==
  /\ pc = "handshake" /\ pc' = "finish"
  /\ UNCHANGED <<scene, unsent, socket, gone, buffer, open, upgraded, subprotocol, parsed, answer>>

\* HandshakeResponse's constructor.
ResponseIsValid(r) == r.status \in 100..599 \ {101}

\* send_handshake_response(): the response's headers, and the two it must have.
HandshakeResponse(r) ==
  [r EXCEPT !.headers = @ \cup ({"connection", "content-length"} \ {Lower(h) : h \in r.headers})]

\* Mutant: the connection stays in the handshake after its rejection.
RejectKeepsOpen ==
  /\ pc = "handshake"
  /\ \E r \in Rejections, whole \in BOOLEAN :
       /\ ResponseIsValid(r) /\ SendBytes(HandshakeResponse(r), whole)
  /\ pc' = "finish"
  /\ UNCHANGED <<scene, unsent, socket, gone, buffer, open, upgraded, subprotocol, parsed>>

\* on_handshake threw a HandshakeException.
HandshakeRejects ==
  /\ pc = "handshake"
  /\ \E r \in Rejections, whole \in BOOLEAN :
       /\ ResponseIsValid(r) /\ SendBytes(HandshakeResponse(r), whole)
  /\ open' = FALSE /\ pc' = "recv"
  /\ UNCHANGED <<scene, unsent, socket, gone, buffer, upgraded, subprotocol, parsed>>

\* on_handshake threw something else, an invalid HandshakeResponse included, or
\* returned a value: process_handshake() returns false and the loop ends.
HandshakeThrows ==
  /\ pc = "handshake" /\ pc' = "threw"
  /\ UNCHANGED <<scene, unsent, socket, gone, buffer, open, upgraded, subprotocol, parsed, answer>>

SwitchingProtocols ==
  [status |-> 101, accept_key |-> parsed.accept_key, subprotocol |-> parsed.selected_subprotocol]

\* Mutant: the whole buffer is dropped with the request.
DiscardAll(n) == <<>>

DiscardReadBytes(n) == SubSeq(buffer, n + 1, Len(buffer))

\* finish_upgrade() up to its call of on_open.
FinishUpgrade ==
  /\ pc = "finish"
  /\ \/ /\ SendBytes(SwitchingProtocols, FALSE)
        /\ open' = FALSE /\ pc' = "recv"
        /\ UNCHANGED <<buffer, upgraded, subprotocol>>
     \/ /\ SendBytes(SwitchingProtocols, TRUE)
        /\ subprotocol' = parsed.selected_subprotocol
        /\ upgraded' = TRUE /\ buffer' = DiscardReadBytes(parsed.bytes_consumed)
        /\ pc' = "opening" /\ UNCHANGED open
  /\ UNCHANGED <<scene, unsent, socket, gone, parsed>>

\* on_open returned, and the frames in the buffer are handled.
OpenReturns ==
  /\ pc = "opening" /\ pc' = "frames"
  /\ UNCHANGED <<scene, unsent, socket, gone, buffer, open, upgraded, subprotocol, parsed, answer>>

\* on_open returned false or closed the connection, or threw.
OpenEnds ==
  /\ pc = "opening" /\ open' = FALSE /\ pc' \in {"closed", "threw"}
  /\ UNCHANGED <<scene, unsent, socket, gone, buffer, upgraded, subprotocol, parsed, answer>>

ServerSteps ==
  \/ VisitExpires \/ Visit \/ Recv \/ RecvTooLarge \/ Parse \/ RecvEnd \/ RecvAgain
  \/ HandshakeReturns \/ HandshakeRejects \/ HandshakeThrows
  \/ FinishUpgrade \/ OpenReturns \/ OpenEnds

Next == PeerSends \/ PeerCloses \/ ServerSteps

\* Every pass of the loop visits every connection, and callbacks return.
Spec == Init /\ [][Next]_upgradeVars /\ WF_upgradeVars(ServerSteps)

-----------------------------------------------------------------------------
(* What a request deserves, by RFC 6455 and the order test 019 fixes for   *)
(* repeated headers.                                                       *)

\* Where the headers of a name are, and what they say together.
Named(name) == {i \in 2..Len(request) : HasColon(request[i]) /\ Lower(request[i].name) = name}
LastOf(name) == request[Max(Named(name))]
ValuesOf(name) ==
  FlattenSeq([i \in 1..Len(request) |-> IF i \in Named(name) THEN request[i].parts ELSE <<>>])

Keys == Named("sec-websocket-key")
Offered == ValuesOf("sec-websocket-protocol")

Deserved ==
  /\ request # <<>> /\ \A i \in 1..Len(request) : IsLine(request[i])
  /\ ParseRequestLine(request[1]) /\ \A i \in 2..Len(request) : HasColon(request[i])
  /\ \A name \in {"upgrade", "connection", "sec-websocket-version"} : Named(name) # {}
  /\ ContainsToken(LastOf("upgrade").parts, "websocket")
  /\ ContainsToken(LastOf("connection").parts, "upgrade")
  /\ LastOf("sec-websocket-version").parts = <<"13">>
  /\ \E k \in Keys : Keys = {k} /\ ValidateKey(request[k].parts)
  /\ ToSet(Offered) \subseteq ValidTokens

Agreed ==
  LET wanted == {k \in 1..Len(Offered) : Offered[k] \in Supported}
  IN  IF wanted = {} THEN None ELSE Offered[Min(wanted)]

Fits(n) == n <= MaxRequest

(***************************************************************************)
(* A peer gets 101 only for a request that deserves it and fits the limit, *)
(* with the key and the subprotocol that request asks for, which are also  *)
(* the connection's; the server refuses a request with its own 400 (not    *)
(* on_handshake's) only when it does not deserve better or does not fit    *)
(* together with what follows it.  Neither depends on the pieces in which  *)
(* recv() returns the request, nor on how many headers of one name there   *)
(* are.                                                                    *)
(***************************************************************************)
AnswerFitsRequest ==
  /\ answer.status = 101 =>
       /\ Deserved /\ Fits(Len(Stream(request)))
       /\ \E k \in Keys : answer.accept_key = AcceptKey(request[k].parts[1])
       /\ answer.subprotocol = Agreed
       /\ upgraded => subprotocol = Agreed
  /\ (\E whole \in BOOLEAN : answer = Sent(BadRequest, whole)) =>
       ~Deserved \/ ~Fits(Len(Stream(request) \o tail))

(***************************************************************************)
(* on_handshake sees the headers of the request that it decides about,     *)
(* whole: every value of every name, in order.                             *)
(***************************************************************************)
HandlerSeesRequest ==
  pc = "handshake" =>
    \A i \in 2..Len(request) :
      LET name == Lower(request[i].name) IN parsed.headers[name] = ValuesOf(name)

(***************************************************************************)
(* Until the upgrade no byte of the stream is lost, and after it exactly   *)
(* the request is gone: what followed it, in the buffer or in the socket,  *)
(* is there for the frame parser.                                          *)
(***************************************************************************)
StreamIsKept ==
  open => buffer \o socket \o unsent = (IF upgraded THEN tail ELSE Stream(request) \o tail)

(***************************************************************************)
(* A connection is answered once: a rejection is not followed by 101.      *)
(***************************************************************************)
AnsweredOnce == [][answer.status # 0 => answer' = answer]_upgradeVars

(***************************************************************************)
(* A request that has arrived whole is answered, or the server ends with   *)
(* the exception of a callback; except that a part of it that is still in  *)
(* the socket is never read when the peer has reset the connection, or     *)
(* when the handshake timer has run out before a visit, as it may while    *)
(* the callbacks of others keep the loop: the timer is tested first.  Once *)
(* the buffer holds the whole request neither prevents the answer.  (An    *)
(* empty line alone is not the end of a request: the handshake timeout     *)
(* closes such a connection.)                                              *)
(***************************************************************************)
PartUnread == Len(buffer) < Len(Stream(request))

RequestIsAnswered ==
  (unsent = <<>> /\ request # <<>>) ~>
    \/ answer.status # 0 \/ pc = "threw"
    \/ PartUnread /\ (pc = "expired" \/ (pc = "ended" /\ gone = "rst"))
=============================================================================
