--------------------------- MODULE HttplibRanges ---------------------------
(***************************************************************************)
(* Byte ranges of the prototype backend's server (BackendServers/httplib.h)*)
(* from the Range header to the slices of the content that are sent.       *)
(*                                                                         *)
(* A Range header is a record of its items and of unit, whether it starts  *)
(* with bytes= ; an item is a range, the pair of its positions with -1 for *)
(* one that is not there, or <<>>, nothing between two commas.             *)
(***************************************************************************)
EXTENDS Integers, Sequences, SequencesExt

CONSTANTS RANGE_MAX_COUNT,           \* CPPHTTPLIB_RANGE_MAX_COUNT is 1024
          LLONG_MAX                  \* what std::stoll can return

ASSUME HttplibRangesAssumption == RANGE_MAX_COUNT \in Nat \ {0} /\ LLONG_MAX \in Nat

Position == Nat \cup {-1}
Item == {<<>>} \cup (Position \X Position)

\* What has nothing but blanks in it is passed over.
split(items) ==
  LET parts[n \in 0 .. Len(items)] ==
        IF n = 0 THEN <<>>
        ELSE IF items[n] = <<>> THEN parts[n - 1] ELSE Append(parts[n - 1], items[n])
  IN parts[Len(items)]

\* The exception of std::stoll for a position it cannot represent refuses the
\* header as a malformed range does.
parse_range_header(s) ==
  LET ranges == split(s.items)
  IN /\ s.unit /\ ranges # <<>>
     /\ \A i \in DOMAIN ranges :
          LET first == ranges[i][1]
              last == ranges[i][2]
          IN /\ first <= LLONG_MAX /\ last <= LLONG_MAX
             /\ ~(first = -1 /\ last = -1)
             /\ ~(first # -1 /\ last # -1 /\ first > last)

Max_(a, b) == IF a >= b THEN a ELSE b

\* Mutant: a last position past the end is left as it is.
Mutant_resolved(r, content_len) ==
  IF r[1] = -1 THEN <<content_len - r[2], content_len - 1>>
  ELSE <<r[1], IF r[2] = -1 THEN content_len - 1 ELSE r[2]>>

\* The positions range_error writes back into the request.
resolved(r, content_len) ==
  LET first == IF r[1] = -1 THEN content_len - r[2] ELSE r[1]
      last == IF r[1] = -1 THEN content_len - 1 ELSE r[2]
  IN <<first, IF last = -1 \/ last >= content_len THEN content_len - 1 ELSE last>>

\* One turn of the loop of range_error.
next_range(acc, r, content_len) ==
  LET first == r[1]
      last == r[2]
      overlaps == acc.overlaps + (IF first <= acc.prev_last THEN 1 ELSE 0)
  IN [error |-> \/ acc.error
                \/ ~(0 <= first /\ first <= last /\ last <= content_len - 1)
                \/ first <= acc.prev_first
                \/ overlaps > 2,
      prev_first |-> Max_(acc.prev_first, first),
      prev_last |-> Max_(acc.prev_last, last),
      overlaps |-> overlaps]

range_error(ranges, content_len) ==
  LET turn[n \in 0 .. Len(ranges)] ==
        IF n = 0 THEN [error |-> FALSE, prev_first |-> -1, prev_last |-> -1, overlaps |-> 0]
        ELSE next_range(turn[n - 1], resolved(ranges[n], content_len), content_len)
  IN Len(ranges) > RANGE_MAX_COUNT \/ turn[Len(ranges)].error

get_range_offset_and_length(r) == [offset |-> r[1], length |-> r[2] - r[1] + 1]

\* The slices of the content in the parts of a multipart/byteranges answer.
make_multipart_ranges_data(ranges, content_len) ==
  [i \in DOMAIN ranges |-> get_range_offset_and_length(resolved(ranges[i], content_len))]

\* The slices of the content in the body, which is not compressed.
apply_ranges(ranges, status, content_len) ==
  IF ranges = <<>> \/ status # 206
  THEN <<[offset |-> 0, length |-> content_len]>>
  ELSE make_multipart_ranges_data(ranges, content_len)
=============================================================================
