---------------------------- MODULE MCBackendify ----------------------------
(***************************************************************************)
(* Instances of Backendify.  US and DE have a backend, FR has none.        *)
(***************************************************************************)
EXTENDS Backendify, TLC

CONSTANTS r1, r2, r3, r4, b1, b2

MCUpperCase == [u |-> "U", s |-> "S"]

US == <<"U", "S">>
MCCountryBackends == (US :> b1) @@ (<<"D", "E">> :> b2)

\* Two spellings of one country, so that r1 and r2 share a cache entry.
MCTwoSpellings ==
  (r1 :> [id |-> <<"x">>, country |-> <<"u", "s">>])
    @@ (r2 :> [id |-> <<"x">>, country |-> US])

\* One id in two countries, a missing id and a country without a backend.
MCManyTargets ==
  (r1 :> [id |-> <<"x">>, country |-> US])
    @@ (r2 :> [id |-> <<"x">>, country |-> <<"D", "E">>])
    @@ (r3 :> [id |-> <<>>, country |-> US])
    @@ (r4 :> [id |-> <<"x">>, country |-> <<"F", "R">>])

Ok == [status |-> 200, content_type |-> "v1", body |-> "object",
       name |-> "text", second |-> "past", end |-> "absent"]
Unavailable == [EmptyAnswer EXCEPT !.status = 503]

\* ... whose date makes the completion handler throw.
BadDate == [Ok EXCEPT !.end = "text"]

MCAnswers == {Ok, Unavailable}
MCAnswersThrowing == {Ok, Unavailable, BadDate}
=============================================================================
