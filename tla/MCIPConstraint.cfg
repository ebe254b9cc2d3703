\* MatchPresentedIPAddressWithConstraint against the subnet rule over
\* IPv4 one-bit neighbours, every prefix mask and two non-prefix masks,
\* IPv6 prefixes, cross-family pairs and malformed lengths.
CONSTANTS
  MaxDNSIDLength = 253
  MaxLabelLength = 63
  Calls <- IPConstraintCalls
  NotReturned = NotReturned
SPECIFICATION Spec
INVARIANT IPConstraintAgreesWithSubnet
\* the call returns and the caller stops
CHECK_DEADLOCK FALSE
