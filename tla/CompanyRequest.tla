--------------------------- MODULE CompanyRequest ---------------------------
(***************************************************************************)
(* The parameters of a request for /company: the loop of                   *)
(* Backendify::processCompanyRequest over the query, with Utils::urlDecode.*)
(*                                                                         *)
(* A query is a sequence of characters.  An escape is one character, "%26",*)
(* which decodes to '&'; "%" is one with no digit, or nothing, behind it.  *)
(***************************************************************************)
EXTENDS Naturals, Sequences, SequencesExt

urlDecode(str) ==
  [i \in DOMAIN str |-> CASE str[i] = "%26" -> "&"
                          [] str[i] = "+" -> " "
                          [] OTHER -> str[i]]

NoParams == [k \in {} |-> <<>>]

\* params[key] = value, unless the key is empty.
Store(params, key, value) ==
  IF key = <<>> THEN params
  ELSE [k \in DOMAIN params \cup {key} |-> IF k = key THEN value ELSE params[k]]

NewQuery == [params |-> NoParams, current_param |-> <<>>, key |-> <<>>, parsing_key |-> TRUE]

\* Mutant: '&' leaves the key of the parameter before it.
Mutant_nextChar(q, c) ==
  CASE c = "=" -> [q EXCEPT !.key = urlDecode(q.current_param), !.current_param = <<>>,
                            !.parsing_key = FALSE]
    [] c = "&" -> [q EXCEPT !.params = Store(@, q.key, urlDecode(q.current_param)),
                            !.current_param = <<>>, !.parsing_key = TRUE]
    [] OTHER -> [q EXCEPT !.current_param = Append(@, c)]

\* Every '=' begins a new value, whatever came before it.
nextChar(q, c) ==
  CASE c = "=" -> [q EXCEPT !.key = urlDecode(q.current_param), !.current_param = <<>>,
                            !.parsing_key = FALSE]
    [] c = "&" -> [NewQuery EXCEPT
                     !.params = Store(q.params, q.key, urlDecode(q.current_param))]
    [] OTHER -> [q EXCEPT !.current_param = Append(@, c)]

\* The last parameter is stored only if something follows its '='.
queryParams(query) ==
  LET read[n \in 0 .. Len(query)] ==
        IF n = 0 THEN NewQuery ELSE nextChar(read[n - 1], query[n])
      q == read[Len(query)]
      rest == urlDecode(q.current_param)
  IN CASE q.current_param = <<>> -> q.params
       [] q.current_param # <<>> /\ q.parsing_key -> Store(q.params, rest, <<>>)
       [] q.current_param # <<>> /\ ~q.parsing_key -> Store(q.params, q.key, rest)

\* A parameter that is not there is read as empty.
param(params, key) == IF key \in DOMAIN params THEN params[key] ELSE <<>>
=============================================================================
