-------------------------- MODULE CompanyHandling --------------------------
(***************************************************************************)
(* The completion handler compared, over every class of answers, with what *)
(* README.md and CODE_DESIGN.md say of the reply, and the query's parser   *)
(* with the usual meaning of a query.                                      *)
(***************************************************************************)
EXTENDS CompanyResponse, CompanyRequest

Backend == INSTANCE BackendApi

CONSTANTS QueryChars, MaxQuery

VARIABLES query, params, ec, answer, utf8, reply

handlingVars == <<query, params, ec, answer, utf8, reply>>

NoReply == Reply(-1, FALSE)

QueryInit ==
  /\ query \in SeqOf(QueryChars, MaxQuery) \ {<<>>}
  /\ ec = "error" /\ answer = EmptyAnswer /\ utf8 = TRUE

AnswerInit ==
  /\ query = <<>>
  /\ ec \in {"ok", "refused", "timed_out", "error"}
  /\ answer \in IF ec = "ok" THEN Answers \cup {EmptyAnswer} ELSE {EmptyAnswer}
  /\ utf8 \in BOOLEAN

HandlingInit == (QueryInit \/ AnswerInit) /\ params = NoParams /\ reply = NoReply

\* A query is read, or an answer is handled.
Handle ==
  /\ reply = NoReply
  /\ params' = queryParams(query)
  /\ reply' \in completionHandler(ec, answer, utf8)
  /\ UNCHANGED <<query, ec, answer, utf8>>

Replied == reply # NoReply /\ UNCHANGED handlingVars

HandlingNext == Handle \/ Replied
HandlingSpec == HandlingInit /\ [][HandlingNext]_handlingVars

-----------------------------------------------------------------------------
(* The documented format and the documented reply.                         *)

Recognized(a) ==
  /\ a.content_type \in {"v1", "v2"} /\ a.body = "object" /\ a.name = "text"
  /\ a.second \in IF a.content_type = "v1" THEN Dates ELSE Strings \ {"empty"}
  /\ a.end \in Dates \cup {"absent"}

\* The company as README.md describes it; a company of the future counts as
\* inactive.
Expected(a) ==
  Company(a.name,
          a.end \in {"absent", "future"}
            /\ ~(a.content_type = "v1" /\ a.second = "future"),
          IF a.end = "absent" THEN "unset" ELSE a.end)

NotEpoch(a) == "second_before_epoch" \notin {a.second, a.end}

\* A well-formed answer for a well-formed id gives 200 and the company the
\* README describes, for both versions of the backend's format; the answers of
\* the prototype backend are all understood.
WellFormedIsFaithful ==
  /\ (reply # NoReply /\ ec = "ok" /\ utf8
        /\ \E id \in Backend!KnownCompanies : answer = Backend!companies(id))
       => reply.status = 200
  /\ (reply # NoReply /\ ec = "ok" /\ answer.status = 200 /\ Recognized(answer)
        /\ NotEpoch(answer) /\ utf8)
       => reply.status = 200 /\ reply.company = Expected(answer)

\* An answer in no known format: no such content type, or no JSON.
Unparsable(a) == a.content_type = "other" \/ a.body \in {"empty", "not_json"}

\* JSON of a known content type with a member of the wrong type before the end
\* date, or which is no object.
Malformed(a) ==
  /\ ~Unparsable(a)
  /\ \/ a.body = "not_an_object"
     \/ a.body = "object" /\ "not_a_string" \in {a.name, a.second}

\* What was read of it: nothing before its name, or only its name.
HalfRead(a) ==
  Company(IF a.body = "object" /\ a.name # "not_a_string" THEN value(a.name) ELSE "empty",
          TRUE, "unset")

\* A transport error gives 504, a 404 stays a 404, another status than 200 and a
\* 200 without JSON of a known content type give 502, so none of these is sent
\* or cached as a company; the breaker is tripped exactly for an unreachable or
\* failing backend.  A 200 with JSON of the wrong structure is not among the
\* failures: although CODE_DESIGN.md promises 502 for it, parse_success is set
\* before the members are read, and it gives 200 and a company that is active
\* whatever its end date, with the name only if that could be read.
FailuresKeepTheirStatus ==
  reply # NoReply =>
    /\ ec # "ok" => reply.status = 504
    /\ ec = "ok" /\ answer.status = 404 => reply.status = 404
    /\ ec = "ok" /\ answer.status \notin {200, 404} => reply.status = 502
    /\ ec = "ok" /\ answer.status = 200 /\ Unparsable(answer) => reply.status = 502
    /\ ec = "ok" /\ answer.status = 200 /\ Malformed(answer) /\ utf8
       => reply.status = 200 /\ reply.company = HalfRead(answer)
    /\ reply.trips <=> \/ ec \in {"refused", "timed_out"}
                       \/ ec = "ok" /\ answer.status \in 500 .. 599

\* The pieces of a query between its '&'s, by the position before them.
Starts(q) == {0} \cup {i \in DOMAIN q : q[i] = "&"}
Piece(q, i) ==
  LET rest == SubSeq(q, i + 1, Len(q))
      end == SelectInSeq(rest, LAMBDA c : c = "&")
  IN IF end = 0 THEN rest ELSE SubSeq(rest, 1, end - 1)
Pieces(q) == {Piece(q, i) : i \in Starts(q)}

Equals(piece) == SelectInSeq(piece, LAMBDA c : c = "=")
KeyOf(piece) == urlDecode(IF Equals(piece) = 0 THEN piece
                                               ELSE SubSeq(piece, 1, Equals(piece) - 1))
ValueOf(piece) ==
  IF Equals(piece) = 0 THEN <<>>
  ELSE urlDecode(SubSeq(piece, Equals(piece) + 1, Len(piece)))

\* No key comes twice, and no piece has a second '='.
Usual(q) ==
  /\ \A p \in Pieces(q) : \A i, j \in DOMAIN p : p[i] = "=" /\ p[j] = "=" => i = j
  /\ \A i, j \in Starts(q) : i # j => KeyOf(Piece(q, i)) # KeyOf(Piece(q, j))

\* In a usual query every key has the value that stands behind it and no other
\* key has one: separators are found before escapes are decoded, and nothing of
\* a parameter is carried over into the next.
QueryIsParsed ==
  (reply # NoReply /\ Usual(query)) =>
    /\ \A p \in Pieces(query) : KeyOf(p) # <<>> => param(params, KeyOf(p)) = ValueOf(p)
    /\ \A k \in DOMAIN params : \E p \in Pieces(query) : KeyOf(p) = k
=============================================================================
