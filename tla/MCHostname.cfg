\* Every hostname of up to 7 bytes over digits, a hex letter, '.' and ':',
\* and longer IPv6 and IPv4 literals; the call returns and the caller stops.
CONSTANTS
  MaxDNSIDLength = 253
  MaxLabelLength = 63
  Alphabet = {"1", "a", ".", ":"}
  MaxInputLen = 7
  NotReturned = NotReturned
SPECIFICATION Spec
INVARIANT HostnameDispatchAgreesWithSpec
\* the call returns and the caller stops
CHECK_DEADLOCK FALSE
