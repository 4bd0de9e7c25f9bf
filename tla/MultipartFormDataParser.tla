---------------------- MODULE MultipartFormDataParser ----------------------
(***************************************************************************)
(* detail::MultipartFormDataParser (BackendServers/httplib.h), which takes *)
(* a multipart body piece by piece as it is read from the connection.      *)
(*                                                                         *)
(* Bytes are CR, LF, "-" and letters; the boundary is the letter "b".  A   *)
(* header of a part is two letters: "h" and a name for Content-Disposition *)
(* with that name, "t" for Content-Type, and any other first letter for a  *)
(* header that is passed over; "e" starts one that is no header.           *)
(***************************************************************************)
EXTENDS Integers, Sequences, SequencesExt

CONSTANTS HEADER_MAX_LENGTH, FILE_MAX_COUNT

crlf_ == <<"CR", "LF">>
dash_ == <<"-", "-">>
boundary_ == <<"b">>
dash_boundary_crlf_ == dash_ \o boundary_ \o crlf_
crlf_dash_boundary_ == crlf_ \o dash_ \o boundary_

\* running: parse has neither returned true nor false; inner: it is in the loop
\* over the headers of a part.
NewParser ==
  [state |-> 0, buf |-> <<>>, is_valid |-> FALSE, name |-> "", files |-> <<>>,
   running |-> FALSE, inner |-> FALSE, ok |-> TRUE]

StartsWith(buf, s) == Len(buf) >= Len(s) /\ SubSeq(buf, 1, Len(s)) = s
Erase(buf, n) == SubSeq(buf, n + 1, Len(buf))

\* What is left of the earlier pieces stays in front.
buf_append(buf, piece) == buf \o piece

\* The number of bytes before s, or all of them: a part of s at the end of the
\* buffer is not found.
buf_find(buf, s) ==
  LET At == {i \in 0 .. Len(buf) - Len(s) : StartsWith(Erase(buf, i), s)}
  IN IF At = {} THEN Len(buf) ELSE CHOOSE i \in At : \A j \in At : i <= j

Wait(p) == [p EXCEPT !.running = FALSE, !.inner = FALSE]
Fail(p) == [Wait(p) EXCEPT !.ok = FALSE, !.is_valid = FALSE]

-----------------------------------------------------------------------------
(* One turn of the loop of parse, for each state.                          *)

\* return false leaves is_valid_ as it is, which is still FALSE here.
initial_boundary(p) ==
  LET rest == Erase(p.buf, buf_find(p.buf, dash_boundary_crlf_))
  IN IF Len(rest) < Len(dash_boundary_crlf_)
     THEN Wait([p EXCEPT !.buf = rest])
     ELSE [p EXCEPT !.buf = Erase(rest, Len(dash_boundary_crlf_)), !.state = 1]

\* read_content's header callback: one file more.
header_callback(p) ==
  IF Len(p.files) = FILE_MAX_COUNT THEN Fail(p)
  ELSE [p EXCEPT !.files = Append(@, [name |-> p.name, content |-> <<>>]),
                 !.buf = Erase(@, Len(crlf_)), !.state = 3, !.inner = FALSE]

\* The parameters of a Content-Disposition: the names they give.
parse_disposition_params(line) == Range(Erase(line, 1))

\* parse_header, then Content-Type or Content-Disposition, whose parameters
\* must have a name.
part_header(p, line) ==
  LET read == [p EXCEPT !.buf = Erase(@, Len(line) + Len(crlf_))]
      names == parse_disposition_params(line)
  IN CASE line[1] = "e" -> Fail(p)
       [] line[1] = "h" /\ names = {} -> Fail(p)
       [] line[1] = "h" /\ names # {} -> [read EXCEPT !.name = line[2]]
       [] OTHER -> read

clear_file_info(p) == [p EXCEPT !.name = ""]

\* The length is looked at when the state is entered, not for each header.
headers(p) ==
  LET pos == buf_find(p.buf, crlf_)
  IN CASE ~p.inner /\ pos > HEADER_MAX_LENGTH ->
            [Wait(p) EXCEPT !.ok = FALSE]
       [] ~p.inner /\ pos <= HEADER_MAX_LENGTH -> [p EXCEPT !.inner = TRUE]
       [] p.inner /\ pos = Len(p.buf) -> Wait(p)
       [] p.inner /\ pos = 0 /\ p.buf # <<>> -> header_callback(p)
       [] OTHER -> part_header(p, SubSeq(p.buf, 1, pos))

\* The content callback appends to the file that was begun last.
content_callback(p, n) ==
  [p EXCEPT !.files[Len(p.files)].content = @ \o SubSeq(p.buf, 1, n)]

\* Mutant: everything read so far is content when no boundary is in it.
Mutant_body(p) ==
  LET pos == buf_find(p.buf, crlf_dash_boundary_)
  IN IF pos < Len(p.buf)
     THEN [content_callback(p, pos) EXCEPT
             !.buf = Erase(p.buf, pos + Len(crlf_dash_boundary_)), !.state = 4]
     ELSE Wait([content_callback(p, pos) EXCEPT !.buf = <<>>])

\* As many bytes as a boundary has are kept back: they may be its beginning.
body(p) ==
  LET pos == buf_find(p.buf, crlf_dash_boundary_)
      len == Len(p.buf) - Len(crlf_dash_boundary_)
  IN CASE len < 0 -> Wait(p)
       [] len >= 0 /\ pos < Len(p.buf) ->
            [content_callback(p, pos) EXCEPT
               !.buf = Erase(p.buf, pos + Len(crlf_dash_boundary_)), !.state = 4]
       [] OTHER -> Wait([content_callback(p, len) EXCEPT !.buf = Erase(p.buf, len)])

\* After the last boundary the rest of the buffer is the epilogue.
boundary(p) ==
  CASE StartsWith(p.buf, crlf_) -> [p EXCEPT !.buf = Erase(@, Len(crlf_)), !.state = 1]
    [] StartsWith(p.buf, dash_) -> [p EXCEPT !.buf = <<>>, !.is_valid = TRUE]
    [] OTHER -> Wait(p)

Turn(p) ==
  CASE ~p.running -> p
    [] p.running /\ p.buf = <<>> /\ ~p.inner -> Wait(p)
    [] p.running /\ (p.buf # <<>> \/ p.inner) ->
         CASE p.state = 0 -> initial_boundary(p)
           [] p.state = 1 -> [clear_file_info(p) EXCEPT !.state = 2]
           [] p.state = 2 -> headers(p)
           [] p.state = 3 -> body(p)
           [] p.state = 4 -> boundary(p)

\* The loop: every byte is taken once, by at most three turns.
parse(p, piece) ==
  LET start == [p EXCEPT !.buf = buf_append(@, piece), !.running = TRUE]
      After[n \in 0 .. 3 * Len(start.buf) + 3] ==
        IF n = 0 THEN start ELSE Turn(After[n - 1])
  IN After[3 * Len(start.buf) + 3]

\* The parser of set_boundary after the whole body in one piece.
Parsed(content) == parse(NewParser, content)
=============================================================================
