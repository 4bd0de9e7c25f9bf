-------------------------- MODULE CompanyResponse --------------------------
(***************************************************************************)
(* What becomes of a backend's answer: the completion handler that         *)
(* Backendify::processCompanyRequest gives to callBackendApi, with         *)
(* parseBackendResponse, constructV1Json, constructV2Json and              *)
(* Utils::isUTCTimeInFuture (core/Backendify.cpp, utils/Utils.hpp).        *)
(*                                                                         *)
(* A text is represented by the class of texts the code tells apart.  An   *)
(* operation whose result the source leaves open returns the set of the    *)
(* results a build may give.                                               *)
(***************************************************************************)
EXTENDS Integers

\* Values of a JSON member: missing, not a string, or a string that is empty,
\* a date, a date without its 'Z', the second before the epoch (time_t -1, a
\* date of the past), or some other text.
Dates == {"past", "future", "second_before_epoch"}
Strings == Dates \cup {"empty", "no_z", "text"}
Members == Strings \cup {"absent", "not_a_string"}

\* name is cn or company_name, second is created_on or tin, end is closed_on
\* or dissolved_on.
Answers ==
  [status : {200, 404, 503, 302},
   content_type : {"v1", "v2", "other"},
   body : {"empty", "not_json", "not_an_object", "object"},
   name : {"absent", "not_a_string", "text"},
   second : Members,
   end : Members]

\* The response of a call that read none: res_ as constructed.
EmptyAnswer ==
  [status |-> 200, content_type |-> "other", body |-> "empty",
   name |-> "absent", second |-> "absent", end |-> "absent"]

-----------------------------------------------------------------------------
\* json::value(key, ""), when it does not throw.
value(m) == IF m = "absent" THEN "empty" ELSE m

NoInfo == [version |-> -1, parse_success |-> FALSE, name |-> "empty",
           second |-> "unset", end |-> "unset"]

\* parse_success is set before the members are read; a type_error thrown by
\* one of them is caught and leaves the members after it unset.
parseBackendResponse(a) ==
  LET version == IF a.content_type = "v1" THEN 1 ELSE 2
      begun == [NoInfo EXCEPT !.version = version, !.parse_success = TRUE]
      named == [begun EXCEPT !.name = value(a.name)]
      isString == a.end \notin {"absent", "not_a_string"}
  IN IF a.body \in {"empty", "not_json"} \/ a.content_type = "other" THEN NoInfo
     ELSE IF a.body = "not_an_object" \/ a.name = "not_a_string" THEN begun
     ELSE IF a.second = "not_a_string" THEN named
     ELSE [named EXCEPT !.second = value(a.second),
                        !.end = IF isString THEN a.end ELSE "unset"]

\* Without 'Z' the variable suffix is read before it was ever written.
isUTCTimeInFuture(d) ==
  CASE d = "future" -> {"yes"}
    [] d = "past" -> {"no"}
    [] d \in {"text", "second_before_epoch"} -> {"throws"}
    [] d = "no_z" -> {"yes", "no", "throws"}

Throws == [throws |-> TRUE, name |-> "empty", active |-> FALSE,
           active_until |-> "unset"]
Company(name, active, until) ==
  [throws |-> FALSE, name |-> name, active |-> active, active_until |-> until]

Given(d) == d \notin {"unset", "empty"}

constructV1Json(info) ==
  LET created == IF Given(info.second) THEN isUTCTimeInFuture(info.second)
                                       ELSE {"no"}
      closed == IF Given(info.end) THEN isUTCTimeInFuture(info.end) ELSE {"unset"}
  IN {IF "throws" \in {c, e} THEN Throws
      ELSE Company(info.name, c # "yes" /\ e # "no",
                   IF e = "unset" THEN "unset" ELSE info.end)
      : c \in created, e \in closed}

\* Mutant: the end date is passed on, and active is left as it was set.
Mutant_constructV2Json(info) ==
  LET dissolved == IF Given(info.end) THEN isUTCTimeInFuture(info.end)
                                      ELSE {"unset"}
  IN {IF e = "throws" THEN Throws
      ELSE Company(info.name, TRUE, IF e = "unset" THEN "unset" ELSE info.end)
      : e \in dissolved}

constructV2Json(info) ==
  LET dissolved == IF Given(info.end) THEN isUTCTimeInFuture(info.end)
                                      ELSE {"unset"}
  IN {IF e = "throws" THEN Throws
      ELSE Company(info.name, e # "no", IF e = "unset" THEN "unset" ELSE info.end)
      : e \in dissolved}

-----------------------------------------------------------------------------
(* The completion handler.  A reply is the status sent to the client,      *)
(* whether the circuit breaker is tripped, and the company put into the    *)
(* body and the cache; status 0 stands for an exception that leaves the    *)
(* handler, after which nothing is sent and nothing is cached.             *)

Reply(status, trips) == [status |-> status, trips |-> trips, company |-> Throws]

\* dump() throws when the id is not valid UTF-8.
handle200(a, idIsUtf8) ==
  LET info == parseBackendResponse(a)
      built == IF info.version = 1 THEN constructV1Json(info)
                                   ELSE constructV2Json(info)
  IN IF ~info.parse_success THEN {Reply(502, FALSE)}
     ELSE {IF c.throws \/ ~idIsUtf8 THEN Reply(0, FALSE)
           ELSE [status |-> 200, trips |-> FALSE, company |-> c] : c \in built}

\* Mutant: the status is looked at before the error code, which a call that
\* read no response leaves at 200.
Mutant_completionHandler(ec, a, idIsUtf8) ==
  CASE a.status = 200 -> handle200(a, idIsUtf8)
    [] a.status = 404 -> {Reply(404, FALSE)}
    [] a.status \in 500 .. 599 -> {Reply(502, TRUE)}
    [] OTHER -> {Reply(IF ec = "ok" THEN 502 ELSE 504, FALSE)}

completionHandler(ec, a, idIsUtf8) ==
  CASE ec # "ok" -> {Reply(504, ec \in {"refused", "timed_out"})}
    [] ec = "ok" /\ a.status = 200 -> handle200(a, idIsUtf8)
    [] ec = "ok" /\ a.status = 404 -> {Reply(404, FALSE)}
    [] ec = "ok" /\ a.status \in 500 .. 599 -> {Reply(502, TRUE)}
    [] OTHER -> {Reply(502, FALSE)}
=============================================================================
