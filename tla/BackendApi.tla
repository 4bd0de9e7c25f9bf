----------------------------- MODULE BackendApi -----------------------------
(***************************************************************************)
(* The prototype backend (BackendServers/BackendApi.cpp): its arguments    *)
(* and the four routes it gives to the HTTP server.                        *)
(*                                                                         *)
(* A path is the sequence of its segments; "\n" stands for a segment with  *)
(* a line feed, which .* does not match.  A text is represented by its     *)
(* length, an argument's value also by the number std::stoi makes of it,   *)
(* which is 0 where it throws.                                             *)
(***************************************************************************)
EXTENDS Integers, Sequences, SequencesExt

DefaultPort == 9001
TextLength == 4     \* of every text that has no argument

\* Answers of the company handler, in the terms of CompanyResponse.
Company_(type, second, end) ==
  [status |-> 200, content_type |-> type, body |-> "object",
   name |-> "text", second |-> second, end |-> end]

KnownCompanies == {"12345", "123456", "1234567", "2345", "23456", "234567"}

companies(id) ==
  CASE id = "12345" -> Company_("v1", "past", "absent")
    [] id = "123456" -> Company_("v1", "past", "past")
    [] id = "1234567" -> Company_("v1", "past", "future")
    [] id = "2345" -> Company_("v2", "past", "absent")
    [] id \in {"23456", "234567"} -> Company_("v2", "past", "past")
    [] OTHER -> [status |-> 404, content_type |-> "other", body |-> "object",
                 name |-> "absent", second |-> "absent", end |-> "absent"]

-----------------------------------------------------------------------------
\* The later of two arguments with one key wins; one without a key or without
\* '=' ends the program.
parseArguments(args) ==
  [ok |-> \A i \in DOMAIN args : args[i].key # "",
   given |-> {args[i].key : i \in DOMAIN args},
   map |-> [k \in {args[i].key : i \in DOMAIN args} |->
              args[SelectLastInSeq(args, LAMBDA a : a.key = k)].value]]

Settings(args) ==
  LET startup == parseArguments(args)
      Text(k) == IF k \in startup.given THEN startup.map[k].length ELSE TextLength
      port == IF "port" \in startup.given THEN startup.map["port"].number ELSE 0
  IN [running |-> startup.ok,
      port |-> IF port \in 1 .. 65535 THEN port ELSE DefaultPort,
      defaultCompanyName |-> Text("company_name"),
      statusMessage |-> Text("status_message")]

\* Status -1: the handler leaves it to the server.
Response(status, length) == [status |-> status, length |-> length]

\* A pattern of the backend has no "/:", so that make_matcher makes a regular
\* expression of it, which must match the whole path.
Get(matches, response) == [matches |-> matches, response |-> response]

\* The handlers in the order of their registration.
get_handlers_(settings, path) ==
  << Get(path = <<"status">>, Response(-1, settings.statusMessage)),
     Get(path = <<"company">>, Response(-1, settings.defaultCompanyName)),
     Get(Len(path) = 2 /\ path[1] = "companies",
         Response(companies(path[Len(path)]).status, TextLength)),
     Get("\n" \notin Range(path), Response(404, TextLength)) >>
=============================================================================
