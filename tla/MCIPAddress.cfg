\* Nine fields reach "too many components" (8 and 9 fields, with and
\* without "::" and a dotted-quad tail); one call per initial state, which
\* returns and stops.
CONSTANTS
  MaxFields = 9
  ShortLen = 5
  ShortAlphabet = {"1", "f", ":", "."}
  NotReturned = NotReturned
SPECIFICATION Spec
INVARIANT IPv4ParserAgreesWithSpec
INVARIANT IPv6ParserAgreesWithSpec
INVARIANT WritesWithinOut
CHECK_DEADLOCK FALSE
