-------------------------- MODULE MCHttplibRequest --------------------------
(***************************************************************************)
(* Requests for HttplibRequest: every framing with every method, the early *)
(* errors, ranges over short contents, and multipart bodies.  Each is      *)
(* followed by a plain request, which shows whether it was read to its end.*)
(***************************************************************************)
EXTENDS HttplibRequest

NoRange == [present |-> FALSE, unit |-> TRUE, items |-> <<>>]

Plain ==
  [line |-> TRUE, headers |-> TRUE, method |-> "GET", path |-> <<"status">>,
   http10 |-> FALSE, connection |-> "", long |-> FALSE, range |-> NoRange,
   expect |-> FALSE, framing |-> "none", encoding |-> "none", type |-> "plain",
   content |-> <<>>, chunks |-> <<>>, lastchunk |-> "last",
   trailer |-> "trailer"]

Body == [Plain EXCEPT !.framing = "length", !.content = <<"x", "CR", "LF">>]
Chunks == [Body EXCEPT !.framing = "chunked", !.chunks = <<<<"x">>, <<"CR", "LF">>>>]

Framings ==
  {Plain, [Plain EXCEPT !.framing = "length"], [Plain EXCEPT !.framing = "invalid"],
   Body, Chunks, [Chunks EXCEPT !.chunks = <<>>, !.content = <<>>],
   [Chunks EXCEPT !.lastchunk = "badsize"], [Chunks EXCEPT !.trailer = "longtrailer"]}

Methods == {"GET", "HEAD", "POST", "DELETE", "OPTIONS", "CONNECT"}

\* A body with neither length nor chunks is read until the client closes.
UntilClose == {[Body EXCEPT !.framing = "none", !.method = "POST", !.type = t] :
                 t \in {"plain", "form"}}

ByFraming == {[f EXCEPT !.method = m] : f \in Framings, m \in Methods} \cup UntilClose

ByError ==
  {[b EXCEPT !.line = FALSE] : b \in {Plain, Body}}
  \cup {[b EXCEPT !.headers = FALSE] : b \in {Plain, Body}}
  \cup {[b EXCEPT !.long = TRUE] : b \in {Plain, Body}}
  \cup {[b EXCEPT !.encoding = "unsupported"] : b \in {Plain, Body, Chunks}}
  \cup {[b EXCEPT !.type = t] : b \in {Plain, Body, Chunks}, t \in {"form", "noboundary"}}

ByConnection ==
  {[b EXCEPT !.http10 = v, !.connection = c, !.expect = e] :
     b \in {Plain, Body, [Plain EXCEPT !.long = TRUE]}, v \in BOOLEAN,
     c \in {"close", "Keep-Alive"}, e \in BOOLEAN}

ByPath ==
  {[Plain EXCEPT !.path = p] :
     p \in {<<"company">>, <<"companies", "12345">>, <<"companies", "0">>,
            <<"companies", "12345", "x">>, <<"\n">>}}

ARange == {r \in (-1 .. 4) \X (-1 .. 4) : r[1] <= 2}
RangeLists ==
  {<<r>> : r \in ARange} \cup (ARange \X ARange)
  \cup {<<<<>>>>, <<<<>>, <<0, 0>>, <<>>, <<2, 2>>>>, <<<<0, 1>>, <<1, 2>>, <<2, 3>>>>,
        <<<<0, 3>>, <<1, 3>>, <<2, 3>>, <<3, 3>>>>,
        <<<<0, 0>>, <<1, 1>>, <<2, 2>>, <<3, 3>>, <<-1, 1>>>>}
  \cup {<<<<f, l>>>> : f \in {-1, 0}, l \in {LLONG_MAX, LLONG_MAX + 1}}
ByRange ==
  {[Plain EXCEPT !.path = p, !.range = [present |-> TRUE, unit |-> TRUE, items |-> l]] :
     p \in {<<"status">>, <<"companies", "12345">>}, l \in RangeLists}
  \cup {[b EXCEPT !.range = [present |-> TRUE, unit |-> FALSE, items |-> <<>>]] : b \in {Plain, Body}}

Header == <<"h", "n">> \o crlf_
Part(hdr, text) == crlf_ \o hdr \o crlf_ \o text \o crlf_ \o dash_ \o boundary_
Begin == dash_ \o boundary_
End == dash_ \o crlf_
Texts == {<<>>, <<"x">>, <<"CR", "LF", "-", "b">>, <<"CR", "CR", "LF", "-", "-", "x">>}
MultipartBodies ==
  {Begin \o Part(Header, t) \o End : t \in Texts}
  \cup {<<"x", "CR", "LF">> \o Begin \o Part(Header, <<"x">>) \o dash_,
        Begin \o Part(<<"t", "x">> \o crlf_ \o Header, <<"x">>) \o Part(Header, <<"-">>) \o End,
        Begin \o Part(Header, <<>>) \o Part(<<>>, <<>>) \o Part(Header, <<>>) \o End,
        Begin \o Part(Header \o <<"x", "x", "x">> \o crlf_, <<"x">>) \o End,
        Begin \o Part(Header \o <<"x", "x", "x", "x", "x">> \o crlf_, <<"x">>) \o End,
        Begin \o Part(<<"h">> \o crlf_, <<"x">>) \o End,
        Begin \o Part(<<"e", "x">> \o crlf_, <<"x">>) \o End,
        Begin \o Part(<<"x", "x", "x", "x", "x">> \o crlf_, <<"x">>) \o End,
        Begin \o Part(Header, <<"x">>) \o <<"x">>,
        Begin \o Part(Header, <<"x">>) \o End \o <<"e", "CR", "LF">>}
TwoPieces == Begin \o Part(Header, <<"x">>) \o End
ByMultipart ==
  {[Body EXCEPT !.method = "POST", !.type = "multipart", !.content = m] : m \in MultipartBodies}
  \cup {[Chunks EXCEPT !.method = "POST", !.type = "multipart",
           !.content = TwoPieces, !.chunks = <<SubSeq(TwoPieces, 1, n), Erase(TwoPieces, n)>>] :
           n \in {6, 15}}

MCRequests ==
  {<<r, Plain>> : r \in ByFraming \cup ByError \cup ByConnection \cup ByPath \cup ByMultipart}
  \cup {<<r>> : r \in ByRange}

Argument(key, length) == [key |-> key, value |-> [number |-> 0, length |-> length]]
MCArguments ==
  {<<Argument("status_message", 0)>>, <<Argument("", 4)>>,
   <<Argument("status_message", 0), Argument("status_message", 3)>>}
=============================================================================
