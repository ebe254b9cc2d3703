\* IsValidDNSID against spec 4.2 over every string of 6 bytes or fewer.
\* The length limits are lowered (253 -> 5, 63 -> 2) so that the boundary
\* comparisons of the code are reached by strings this short.
CONSTANTS
  MaxDNSIDLength = 5
  MaxLabelLength = 2
  Alphabet = {"a", "B", "1", "-", ".", "*"}
  MaxInputLen = 6
  Calls <- SyntaxCalls
  NotReturned = NotReturned
SPECIFICATION Spec
INVARIANT SyntaxAgreesWithSpec
\* the call returns and the caller stops
CHECK_DEADLOCK FALSE
