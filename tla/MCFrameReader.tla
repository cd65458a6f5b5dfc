--------------------------- MODULE MCFrameReader ----------------------------
(* Peers for the frame reader.  A limit of three bytes lets a message be      *)
(* below, at and above it in one, two or three frames.                        *)
EXTENDS FrameReader

Frame(op, fin, data, flaw) == [op |-> op, fin |-> fin, data |-> data, flaw |-> flaw]
Right(op, fin, data) == Frame(op, fin, data, "none")

Ones(n) == [i \in 1..n |-> "a"]

Mixed ==
  {Right("text", TRUE, <<"L", "T">>), Right("text", TRUE, <<"L">>),
   Right("text", FALSE, <<"a", "L">>), Right("binary", FALSE, <<>>),
   Right("binary", TRUE, <<"L", "a", "a">>), Right("binary", TRUE, Ones(4)),
   Right("continuation", FALSE, <<"T">>),
   Right("continuation", TRUE, <<"T">>), Right("continuation", TRUE, <<"a">>),
   Right("ping", TRUE, Ones(13)), Right("ping", FALSE, <<>>), Right("pong", TRUE, <<>>),
   Right("close", TRUE, <<>>), Right("close", TRUE, <<"a">>),
   Right("close", TRUE, <<"a", "a", "L">>), Frame("close", TRUE, <<"a", "a">>, "code"),
   Frame("text", TRUE, <<>>, "head"), Frame("text", TRUE, <<"a">>, "length")}
=============================================================================
