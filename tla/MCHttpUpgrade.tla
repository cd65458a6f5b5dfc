--------------------------- MODULE MCHttpUpgrade ----------------------------
(* A valid request in front of every sequence of up to two further lines     *)
(* (WithExtras), and a few requests of chosen lengths, on either side of the *)
(* limit alone and with what follows, that arrive in every way (Sized).      *)
EXTENDS HttpUpgrade

Line(words) == [words |-> words]
Header(name, parts) == [name |-> name, parts |-> parts]
Get == Line(<<"GET", "/", "http/1.1">>)
KeyA == Header("sec-websocket-key", <<"keyA">>)
Basic == <<Header("upgrade", <<"websocket">>), Header("connection", <<"keep-alive", "Upgrade">>),
           Header("sec-websocket-version", <<"13">>)>>

Extras == {Header("UPGRADE", <<"h2c">>), Header("Upgrade", <<"h2c", "WebSocket">>),
           Header("connection", <<"keep-alive">>), Header("connection", <<"upgrade">>),
           Header("sec-websocket-version", <<"13", "8">>), Header("sec-websocket-version", <<"13">>),
           KeyA, Header("sec-websocket-key", <<"short">>),
           Header("sec-websocket-protocol", <<"video", "chat">>),
           Header("sec-websocket-protocol", <<"Chat", "mail">>),
           Header("sec-websocket-protocol", <<"chat", "">>),
           Header("cookie", <<"a">>), Header("cookie", <<"b">>), Line(<<"junk">>)}
BadGets == {Line(<<"POST", "/", "http/1.1">>), Line(<<"GET", "", "http/1.1">>), Line(<<"GET", "/">>),
            Line(<<"GET", "/", "http/1.0">>), Header("host", <<"a">>)}

WithExtras ==
  {<<Get, KeyA>> \o Basic \o extra : extra \in BoundedSeq(Extras, 2)}
  \cup {<<Get>> \o extra \o Basic : extra \in BoundedSeq(Extras, 2)}
  \cup {<<get, KeyA>> \o Basic : get \in BadGets}
  \cup {<<Get>>, <<>>, <<Get, [byte |-> "cr"], KeyA>> \o Basic}

Cookie == Header("cookie", <<"a">>)
Sized == {<<Get, KeyA>> \o Basic, <<Get, KeyA>> \o Basic \o <<Cookie>>,
          <<Get, KeyA>> \o Basic \o <<Cookie, Cookie>>,
          <<Get, KeyA>> \o Basic \o <<Cookie, Cookie, Cookie>>, <<Get>> \o Basic}

Frames(n) == SubSeq(<<[byte |-> "f1"], [byte |-> "f2"], [byte |-> "f3"]>>, 1, n)

Scene(lines, frames, sizes, handler) ==
  [request |-> lines, tail |-> frames, sizes |-> sizes, on_handshake |-> handler]

AllScenes ==
  {Scene(lines, <<>>, {}, TRUE) : lines \in WithExtras}
  \cup {Scene(lines, Frames(n), {1, 3}, FALSE) : lines \in Sized, n \in {0, 1, 3}}

Tokens == {"video", "chat", "Chat", "mail"}
SomeRejections == {[status |-> 400, headers |-> {}], [status |-> 403, headers |-> {}],
                   [status |-> 101, headers |-> {}],
                   [status |-> 503, headers |-> {"connection", "retry-after"}]}
=============================================================================
