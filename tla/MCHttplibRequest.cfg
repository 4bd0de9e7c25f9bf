SPECIFICATION ConnectionSpec
CONSTANTS
  Bytes = {"CR", "LF", "-", "b", "x", "h", "n", "t", "e"}
  Requests <- MCRequests
  Arguments <- MCArguments
  HEADER_MAX_LENGTH = 4
  FILE_MAX_COUNT = 2
  FORM_MAX_LENGTH = 2
  RANGE_MAX_COUNT = 4
  LLONG_MAX = 6
  keep_alive_max_count_ = 3
INVARIANTS
  AnswersMatchRequests
  RangesWithinContent
  MultipartIndependentOfReads
