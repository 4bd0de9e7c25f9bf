SPECIFICATION HandlingSpec
CONSTANTS
  QueryChars = {"i", "=", "&", "+", "%26"}
  MaxQuery = 6
INVARIANTS
  WellFormedIsFaithful
  
  QueryIsParsed
