--------------------------- MODULE HttplibRequest ---------------------------
(***************************************************************************)
(* One connection of the prototype backend's server: the keep-alive loop   *)
(* of process_server_socket_core, with the whole of Server::process_request*)
(* for each turn (BackendServers/httplib.h).                               *)
(*                                                                         *)
(* The stream is a sequence of tokens.  A request is its line, one token   *)
(* for its headers, the blank line and its body: bytes, or chunks of bytes *)
(* with their size lines.  What a reader takes for a line may therefore be *)
(* the rest of a body that nobody has read.  A SocketStream lives for one  *)
(* request; what it has read ahead is gone with it.                        *)
(*                                                                         *)
(* The client waits for the answer before it sends its next request, may   *)
(* stop in the middle of one, and may go away.                             *)
(***************************************************************************)
EXTENDS FiniteSets, HttplibSettings, BackendApi, HttplibRanges, MultipartFormDataParser

CONSTANTS Bytes,            \* of a body
          Requests,         \* sequences of requests of a client
          Arguments,        \* command lines of the backend
          FORM_MAX_LENGTH

\* Tokens that end a line.
Lines == {"line", "badline", "header", "badheader", "blank", "size", "badsize",
          "last", "trailer", "longtrailer", "crlf"}

\* line and headers: whether they are well formed; long: whether the URI is too
\* long; lastchunk: the line where the size of the last chunk should be; trailer:
\* the line after it, longer than HEADER_MAX_LENGTH or not.
AnyRequest ==
  [line : BOOLEAN, headers : BOOLEAN, method : STRING, path : Seq(STRING),
   http10 : BOOLEAN, connection : STRING, long : BOOLEAN, expect : BOOLEAN,
   range : [present : BOOLEAN, unit : BOOLEAN, items : Seq(Item)],
   framing : {"none", "length", "chunked", "invalid"},
   encoding : STRING, type : STRING, content : Seq(Bytes),
   chunks : Seq(Seq(Bytes) \ {<<>>}), lastchunk : {"last", "badsize"},
   trailer : {"trailer", "longtrailer"}]

\* Content that is announced neither by a length nor by chunks comes only with
\* a method for which the server reads it nevertheless.
Request ==
  {r \in AnyRequest :
     r.framing \in {"none", "invalid"} /\ r.content # <<>>
       => r.method \in {"POST", "PUT", "PATCH"}}

ASSUME HttplibRequestAssumption ==
  /\ Bytes \cap Lines = {}
  /\ Requests \subseteq Seq(Request)
  /\ Arguments \subseteq Seq([key : STRING, value : [number : Int, length : Nat]])

VARIABLES
  settings, requests,
  sent, cut,            \* requests sent; the client sends nothing more
  stream, held,         \* tokens on the way; how many of them the SocketStream has
  phase, cur, count, connection_closed,
  left, chunk,          \* bytes of the content or chunk to be read; which chunk
  got, first, parser,   \* bytes received, the size of the first piece, the parser
  status, replies,
  continues             \* how many times 100 Continue was sent

connectionVars == <<settings, requests, sent, cut, stream, held, phase, cur, count,
          connection_closed, left, chunk, got, first, parser, status, replies, continues>>
bodyVars == <<left, chunk, got, first, parser>>
clientVars == <<settings, requests, sent>>

ConnectionInit ==
  /\ \E args \in Arguments : settings = Settings(args) /\ settings.running
  /\ requests \in Requests
  /\ sent = 0 /\ cut = FALSE /\ stream = <<>> /\ held = 0
  /\ phase = "idle" /\ cur = 0 /\ count = keep_alive_max_count_
  /\ connection_closed = FALSE
  /\ left = 0 /\ chunk = 0 /\ got = 0 /\ first = 0 /\ parser = NewParser
  /\ status = -1 /\ replies = <<>> /\ continues = 0

req == requests[cur]

-----------------------------------------------------------------------------
(* The stream.                                                             *)

\* The last i chunks of r, each between its size and the end of its line, and
\* what ends the content.
LastChunks(r) ==
  LET last[i \in 0 .. Len(r.chunks)] ==
        IF i = 0 THEN <<r.lastchunk, r.trailer, "crlf">>
        ELSE <<"size">> \o r.chunks[Len(r.chunks) - i + 1] \o <<"crlf">> \o last[i - 1]
  IN last

Wire(r) ==
  <<IF r.line THEN "line" ELSE "badline",
    IF r.headers THEN "header" ELSE "badheader", "blank">>
  \o IF r.framing = "chunked" THEN LastChunks(r)[Len(r.chunks)] ELSE r.content

\* Positions in s at which a line ends.
LineEnds(s) ==
  {i \in DOMAIN s : s[i] \in Lines \/ (s[i] = "LF" /\ i > 1 /\ s[i - 1] = "CR")}

\* The number of tokens getline takes: to the end of the line, or all there are.
getline(s) ==
  IF LineEnds(s) = {} THEN Len(s) ELSE CHOOSE i \in LineEnds(s) : \A j \in LineEnds(s) : i <= j

\* read_headers: header lines up to the blank one.  It stops after a line that
\* is no header, and at the end of the stream.
read_headers(s) ==
  LET other == SelectInSeq(s, LAMBDA t : t # "header")
  IN IF other = 0 THEN [ok |-> FALSE, taken |-> Len(s)]
     ELSE [ok |-> s[other] = "blank",
           taken |-> other - 1 + getline(Erase(s, other - 1))]

\* Taking n tokens: what is not held yet is read from the socket, and whatever
\* has arrived behind it may be read with it.
Take(n) ==
  /\ stream' = Erase(stream, n)
  /\ IF n <= held THEN held' = held - n ELSE held' \in 0 .. Len(stream) - n

-----------------------------------------------------------------------------
(* Writing an answer, and the end of process_request.                      *)

Reply(code, slices, content) ==
  [req |-> cur', status |-> code, slices |-> slices, content |-> content]

\* What write_response sends with an error: no ranges, no content.
ErrorReply(code) == Reply(code, <<>>, 0)

\* The tokens that were read ahead go with the SocketStream.  An answer that
\* cannot be written finds the connection broken: no later one arrives, and the
\* loop ends, at the latest with its next read.  After the client has closed its
\* side it sends nothing more.
finish(reply, rest, ahead, clientCloses) ==
  \E written \in BOOLEAN :
    /\ replies' = IF written THEN Append(replies, reply) ELSE replies
    /\ stream' = Erase(rest, ahead) /\ held' = 0
    /\ count' = count - 1
    /\ phase' = IF written /\ ~connection_closed' /\ count > 1 THEN "idle" ELSE "closed"
    /\ cut' = (cut \/ ~written \/ clientCloses)
    /\ status' = -1

-----------------------------------------------------------------------------
(* process_request up to the routing.                                      *)

\* Mutant: only the methods that have a body are expected to bring one.
Mutant_expect_content(r) == r.method \in {"POST", "PUT", "PATCH", "DELETE"}

expect_content(r) ==
  \/ r.method \in {"POST", "PUT", "PATCH", "DELETE"}
  \/ r.framing = "length" /\ r.content # <<>>
  \/ r.framing = "chunked"

\* parse_request_line takes three words, a known method and version 1.0 or 1.1;
\* a line with something before it is none of that.
parse_request_line(s, n) == n = 1 /\ s[1] = "line"

\* The error that process_request reports before it looks at the content.
early_error(r, headersOk) ==
  CASE ~headersOk -> 400
    [] headersOk /\ r.long -> 414
    [] headersOk /\ ~r.long /\ r.range.present /\ ~parse_range_header(r.range) -> 416
    [] OTHER -> 0

\* The backend is built without a library for compressed content.
prepare_content_receiver(r) == r.encoding # "unsupported"

\* The framing of the content; there is no limit of its length.
read_content(r) ==
  CASE r.framing = "chunked" -> "size"
    [] r.framing = "none" -> "until_close"
    [] r.framing = "invalid" -> "fail"
    [] r.framing = "length" -> IF r.content = <<>> THEN "received" ELSE "length"

\* Where the reading of the content begins: read_content_core.
content_phase(r) ==
  IF ~expect_content(r) THEN "dispatch"
  ELSE IF r.type = "noboundary" THEN "fail"
  ELSE IF r.method = "DELETE" /\ r.framing \notin {"length", "invalid"} THEN "dispatch"
  ELSE IF ~prepare_content_receiver(r) THEN "fail"
  ELSE read_content(r)

content_status(r) ==
  IF content_phase(r) # "fail" THEN -1
  ELSE IF r.type # "noboundary" /\ ~prepare_content_receiver(r) THEN 415 ELSE 400

\* The request whose line is the next in the stream.
RequestLines(s) == {i \in DOMAIN s : s[i] \in {"line", "badline"}}
Arriving == sent + 1 - Cardinality(RequestLines(stream))

\* A request whose line is not one is answered at once, its headers unread.  A
\* line that does not end is one only if the client has closed its side; while
\* it has not, the read times out and nothing is answered.
bad_request(n) ==
  /\ cur' = IF n = 1 /\ stream[1] = "badline" THEN Arriving ELSE 0
  /\ connection_closed' = FALSE
  /\ \E ahead \in 0 .. Len(stream) - n :
       finish(ErrorReply(400), Erase(stream, n), ahead, LineEnds(stream) = {})
  /\ UNCHANGED <<bodyVars, continues>>

\* The headers; for a long URI they are read once more, from what follows.
\* Connection and version are looked at after the length of the URI.
good_request ==
  LET k == Arriving
      r == requests[k]
      h == read_headers(Erase(stream, 1))
      once == Erase(stream, 1 + h.taken)
      error == early_error(r, h.ok)
      rest == IF error = 414 THEN Erase(once, read_headers(once).taken) ELSE once
  IN /\ cur' = k
     /\ connection_closed' =
          (error \notin {400, 414}
             /\ (r.connection = "close" \/ (r.http10 /\ r.connection # "Keep-Alive")))
     /\ left' = Len(r.content) /\ chunk' = 0 /\ got' = 0 /\ first' = 0
     /\ parser' = NewParser
     /\ \E ahead \in 0 .. Len(rest) :
          IF error # 0
          THEN finish(ErrorReply(error), rest, ahead, FALSE) /\ UNCHANGED continues
          ELSE /\ stream' = rest /\ held' = ahead
               /\ phase' = content_phase(r) /\ status' = content_status(r)
               /\ continues' = continues + (IF r.expect THEN 1 ELSE 0)
               /\ UNCHANGED <<cut, count, replies>>

process_request ==
  /\ phase = "idle" /\ stream # <<>>
  /\ LET n == getline(stream)
     IN IF parse_request_line(stream, n) THEN good_request ELSE bad_request(n)
  /\ UNCHANGED clientVars

\* keep_alive gives up, or the connection is closed by the client.
keep_alive_ends ==
  /\ phase = "idle" /\ stream = <<>>
  /\ phase' = "closed" /\ cut' = TRUE
  /\ UNCHANGED <<clientVars, stream, held, cur, count, connection_closed, bodyVars, status, replies,
                 continues>>

-----------------------------------------------------------------------------
(* Reading the content.                                                    *)

\* A piece that has arrived is given to the receiver or to the parser, which
\* may refuse it.
Receive(n, then) ==
  LET p == IF req.type = "multipart" THEN parse(parser, SubSeq(stream, 1, n)) ELSE parser
  IN /\ parser' = p
     /\ got' = got + n
     /\ first' = IF got = 0 THEN n ELSE first
     /\ phase' = IF p.ok THEN then ELSE "fail"
     /\ status' = IF p.ok THEN -1 ELSE 400

\* read_content_with_length, for a body or a chunk: what is held first, and
\* nothing is read ahead unless all of it is there.
read_content_with_length ==
  /\ phase \in {"length", "chunk"} /\ stream # <<>>
  /\ \E n \in 1 .. Len(stream) :
       /\ n <= left
       /\ held > 0 => n = IF left <= held THEN left ELSE held
       /\ Receive(n, IF n < left THEN phase
                     ELSE IF phase = "chunk" THEN "crlf" ELSE "received")
       /\ Take(n)
       /\ held = 0 /\ n < left => held' = 0
       /\ left' = left - n
  /\ UNCHANGED <<clientVars, cut, cur, count, connection_closed, chunk, replies, continues>>

\* A line of read_content_chunked: a size, the end of a chunk, or the trailers.
read_content_chunked ==
  /\ phase \in {"size", "crlf", "trailer", "trailers"} /\ stream # <<>>
  /\ LET n == getline(stream)
         line == IF n = 1 THEN stream[1] ELSE "other"
         goes(to, c, l) == phase' = to /\ chunk' = c /\ left' = l
                             /\ status' = IF to = "fail" THEN 400 ELSE -1
     IN /\ Take(n)
        /\ CASE phase = "size" /\ line = "size" -> goes("chunk", chunk + 1, Len(req.chunks[chunk + 1]))
             [] phase = "size" /\ line = "last" -> goes("trailer", chunk, 0)
             [] phase = "crlf" /\ line = "crlf" -> goes("size", chunk, 0)
             [] phase \in {"trailer", "trailers"} /\ line # "longtrailer" ->
                  goes(IF line = "crlf" THEN "received" ELSE "trailers", chunk, 0)
             [] OTHER -> goes("fail", chunk, 0)
  /\ UNCHANGED <<clientVars, cut, cur, count, connection_closed, got, first, parser, replies,
                 continues>>

\* read_content_without_length takes whatever comes until the client closes.
read_content_without_length ==
  /\ phase = "until_close" /\ stream # <<>>
  /\ \E n \in 1 .. Len(stream) :
       /\ held > 0 => n = held
       /\ Receive(n, phase)
       /\ Take(n) /\ held' = 0
  /\ UNCHANGED <<clientVars, cut, cur, count, connection_closed, left, chunk, replies, continues>>

\* No more bytes: the client has closed the connection, or the read timed out.
\* That nothing follows the last chunk is accepted, and so is the end of a body
\* without a length if the connection was closed.
read_ends(closed) ==
  /\ phase \in {"length", "chunk", "size", "crlf", "trailer", "trailers", "until_close"}
  /\ stream = <<>>
  /\ LET ok == (phase = "until_close" /\ closed) \/ phase = "trailer"
     IN /\ phase' = IF ok THEN "received" ELSE "fail"
        /\ status' = IF ok THEN -1 ELSE 400
  /\ cut' = (cut \/ closed)
  /\ UNCHANGED <<clientVars, stream, held, cur, count, connection_closed, bodyVars, replies,
                 continues>>

\* The end of read_content_core and of read_content.
content_received ==
  /\ phase = "received"
  /\ status' = CASE req.type = "multipart" /\ ~parser.is_valid -> 400
                 [] req.type = "form" /\ got > FORM_MAX_LENGTH -> 413
                 [] OTHER -> -1
  /\ phase' = IF status' = -1 THEN "dispatch" ELSE "fail"
  /\ UNCHANGED <<clientVars, cut, stream, held, cur, count, connection_closed, bodyVars, replies,
                 continues>>

-----------------------------------------------------------------------------
(* The handlers, and the answer.                                           *)

\* The first handler that matches.
dispatch_request(handlers) ==
  LET found == SelectInSeq(handlers, LAMBDA h : h.matches)
  IN IF found = 0 THEN [routed |-> FALSE, response |-> Response(404, 0)]
     ELSE [routed |-> TRUE, response |-> handlers[found].response]

\* Only GET has handlers, which HEAD shares.
routing(r) ==
  CASE r.method \in {"GET", "HEAD"} -> dispatch_request(get_handlers_(settings, r.path))
    [] r.method \in {"POST", "PUT", "DELETE", "OPTIONS", "PATCH"} -> dispatch_request(<<>>)
    [] OTHER -> [routed |-> FALSE, response |-> Response(400, 0)]

\* The status a handler has left open, the check of the ranges, which is made
\* for every 2xx, and the ranges themselves, which only a 206 gets.
write_response(r) ==
  LET routes == routing(r)
      ranges == IF r.range.present THEN split(r.range.items) ELSE <<>>
      length == routes.response.length
      code == IF routes.response.status # -1 THEN routes.response.status
              ELSE IF ranges = <<>> THEN 200 ELSE 206
  IN CASE ~routes.routed -> ErrorReply(routes.response.status)
       [] routes.routed /\ ranges # <<>> /\ code \in 200 .. 299
            /\ range_error(ranges, length) -> ErrorReply(416)
       [] OTHER -> Reply(code, apply_ranges(ranges, code, length), length)

respond ==
  /\ phase \in {"dispatch", "fail"}
  /\ UNCHANGED <<cur, connection_closed>>
  /\ finish(IF phase = "fail" THEN ErrorReply(status) ELSE write_response(req),
            stream, held, FALSE)
  /\ UNCHANGED <<clientVars, bodyVars, continues>>

-----------------------------------------------------------------------------
(* The client.                                                             *)

\* The next request, when there has been an answer for each before it; the
\* client may stop at any token of it.
Send ==
  /\ phase = "idle" /\ ~cut /\ sent < Len(requests) /\ Len(replies) >= sent
  /\ \E n \in 1 .. Len(Wire(requests[sent + 1])) :
       /\ stream' = stream \o SubSeq(Wire(requests[sent + 1]), 1, n)
       /\ cut' = (n < Len(Wire(requests[sent + 1])))
  /\ sent' = sent + 1
  /\ UNCHANGED <<settings, requests, held, phase, cur, count, connection_closed, bodyVars, status, replies,
                 continues>>

Closed == phase = "closed" /\ UNCHANGED connectionVars

ConnectionNext ==
  \/ Send \/ process_request \/ keep_alive_ends
  \/ read_content_with_length \/ read_content_chunked \/ read_content_without_length
  \/ \E closed \in BOOLEAN : read_ends(closed)
  \/ content_received \/ respond \/ Closed

ConnectionSpec == ConnectionInit /\ [][ConnectionNext]_connectionVars

-----------------------------------------------------------------------------
(* Properties.                                                             *)

\* Answers after which nothing of the request is left on the connection.
Orderly == {200, 206, 404, 413}

\* A chunked body of a DELETE without Content-Length is never read.
Unread(r) == r.method = "DELETE" /\ r.framing = "chunked"

\* Answers answer requests: as long as the answers were orderly, the i-th one
\* is the answer to the i-th request of the client - no part of a body is taken
\* for a request, whatever its framing, and none is answered twice - and it is
\* the last one if the client asked for the connection to be closed.
AnswersMatchRequests ==
  \A i \in DOMAIN replies :
    (\A j \in 1 .. i - 1 : /\ replies[j].status \in Orderly
                           /\ ~Unread(requests[replies[j].req]))
      => /\ replies[i].req = i
         /\ replies[i].status \in Orderly /\ requests[i].connection = "close"
              => i = Len(replies) /\ phase = "closed"

\* The positions a range stands for, as RFC 9110 has them.
Positions(r, length) ==
  {p \in 0 .. length - 1 :
     IF r[1] = -1 THEN p >= length - r[2]
     ELSE r[1] <= p /\ (r[2] = -1 \/ p <= r[2])}

\* What an answer holds for the ranges of its request r, for which the handler
\* has a content of this length.
HoldsRanges(a, r, length) ==
  LET ranges == split(r.range.items)
      Covered(s) == s.offset .. s.offset + s.length - 1
  IN CASE a.status = 206 ->
            /\ Len(a.slices) = Len(ranges)
            /\ \A k \in DOMAIN ranges : /\ a.slices[k].length > 0
                                        /\ Covered(a.slices[k]) = Positions(ranges[k], a.content)
       [] a.status = 416 ->
            \/ ~parse_range_header(r.range)
            \/ Len(ranges) > 1
            \/ Positions(ranges[1], length) = {}
            \/ ranges[1][1] = -1 /\ ranges[1][2] > length
       [] OTHER -> \A k \in DOMAIN a.slices : Covered(a.slices[k]) = 0 .. a.content - 1

\* A 206 holds, for each range of the request and in its order, exactly the
\* bytes of the content the range stands for, at least one; no slice reaches
\* past the content, which get_range_offset_and_length only asserts.  A single
\* range is refused only if it is malformed or has no byte, or is a suffix that
\* is longer than the content.  Every other answer holds the whole content.
RangesWithinContent ==
  \A i \in DOMAIN replies :
    LET r == requests[replies[i].req]
    IN HoldsRanges(replies[i], r, routing(r).response.length)

\* After the last boundary there is nothing but the end of its line.
NoEpilogue(content) ==
  \A i \in 0 .. Len(content) - 1 :
    StartsWith(Erase(content, i), crlf_dash_boundary_ \o dash_)
      => Erase(content, i + Len(crlf_dash_boundary_ \o dash_)) \in {<<>>, crlf_}

\* No header of a part comes up to the limit: the parser measures the header with
\* which a piece goes on, CR included when the LF is still to come, but of a whole
\* part only the first, which is refused in any case if it is longer.
HeadersFit(content) ==
  \A i, j \in 0 .. Len(content) :
    /\ i < j /\ StartsWith(Erase(content, i), dash_boundary_crlf_)
    /\ StartsWith(Erase(content, j), crlf_)
    /\ \A k \in i .. j - 1 : ~StartsWith(Erase(content, k), crlf_ \o crlf_)
    => LET length == buf_find(Erase(content, j + Len(crlf_)), crlf_)
       IN \/ length < HEADER_MAX_LENGTH
          \/ j = i + Len(dash_ \o boundary_) /\ length > HEADER_MAX_LENGTH

\* How a multipart body is cut into pieces by the network does not matter: it is
\* accepted, with the same files, exactly if it would be in one piece, provided
\* it arrives with its framing, the first piece has the first boundary, no later
\* header comes up to the limit and there is no epilogue.
MultipartIndependentOfReads ==
  (/\ cur # 0 /\ phase \in {"dispatch", "fail"}
   /\ req.type = "multipart" /\ NoEpilogue(req.content) /\ HeadersFit(req.content)
   /\ buf_find(SubSeq(req.content, 1, first), dash_boundary_crlf_) < first
   /\ \/ ~parser.ok
      \/ /\ got = Len(req.content)
         /\ req.framing = "chunked" =>
              ~cut /\ req.lastchunk = "last" /\ req.trailer = "trailer")
  => LET whole == Parsed(req.content)
     IN /\ phase = "dispatch" <=> whole.ok /\ whole.is_valid
        /\ phase = "dispatch" => parser.files = whole.files
=============================================================================
