------------------------- MODULE MCFrontendServer -------------------------
(***************************************************************************)
(* FrontendServer with two threads and the main thread, for configuration  *)
(* files of up to two lines and up to two arguments.                       *)
(***************************************************************************)
EXTENDS FrontendServer

Text(stoi, whole, string) == [stoi |-> stoi, whole |-> whole, string |-> string]
Line(key, text) == [key |-> key, text |-> text]

\* "1", "900", which overflows in seconds, "7x" and "x"; log levels.
Numbers == {Text(1, TRUE, "1"), Text(900, TRUE, "900"), Text(7, FALSE, "7x"),
            Text(None, TRUE, "x")}
MCLines ==
  {Line(key, n) : key \in {"redis_ttl", "frontend_port", "use_redis"}, n \in Numbers}
    \cup {Line("log_level", Text(None, TRUE, l)) : l \in {"DEBUG", "SETUP"}}
    \cup {Line("redis_host", Text(None, TRUE, "redis")), Line("", Text(None, TRUE, ""))}

Url(scheme, port, rest) == [scheme |-> scheme, host |-> "host", port |-> port, rest |-> rest]
MCArgs ==
  {[key |-> k, url |-> u] :
     k \in [country : {"US"}, spelling : 1 .. 2] \cup [country : {"X"}, spelling : {3}],
     u \in {Url("http", None, ""), Url("http", 9001, "/"), Url("http", 8, "?"),
            Url("http", 65536, ""), Url("http", None, "/path"), Url("https", None, "")}}
    \cup {[key |-> None, url |-> Url("http", None, "")]}

MCInputs ==
  [files : {<<None, None, None, None>>} \cup
             {<<None, f, None, <<Line("log_level", Text(None, TRUE, "SETUP"))>>>> :
                f \in SeqOf(MCLines, 2)},
   args : {<<>>}, hardware : {0}]
  \cup [files : {<<None, None, None, None>>}, args : SeqOf(MCArgs, 2), hardware : {1}]
=============================================================================
