\* The same verifier with a wildcard SAN "*.c.b" among the presented IDs.
\* Once both checks have run the verifier stops.
CONSTANTS
  MaxDNSIDLength = 253
  MaxLabelLength = 63
  DNSSANValues <- WithWildcard
SPECIFICATION Spec
INVARIANT HostnameWithinNameConstraints
CHECK_DEADLOCK FALSE
