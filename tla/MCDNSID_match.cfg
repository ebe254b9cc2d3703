\* PresentedDNSIDMatchesReferenceDNSID in both modes: against RFC 6125
\* matching in ReferenceID mode and the RFC 5280 dNSName subtree rule in
\* NameConstraint mode, over every pair of strings of 4 bytes or fewer and
\* every pair of valid 5-byte ones ("*.a.a" is the shortest valid wildcard).
\* "a" and "A" tell case folding from equality.
CONSTANTS
  MaxDNSIDLength = 253
  MaxLabelLength = 63
  Alphabet = {"a", "A", ".", "*"}
  MaxInputLen = 5
  Calls <- MatchCalls
  NotReturned = NotReturned
SPECIFICATION Spec
INVARIANT ReferenceMatchAgreesWithSpec
INVARIANT ExcludedConstraintSound
INVARIANT ConstraintMatchAgreesWithSpec
\* the call returns and the caller stops
CHECK_DEADLOCK FALSE
