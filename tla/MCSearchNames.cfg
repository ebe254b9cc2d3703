\* One SearchNames call per initial state, with up to two SAN entries and
\* two RDNs; the call returns and stops.
CONSTANTS
  MaxDNSIDLength = 253
  MaxLabelLength = 63
  MaxSANs = 2
  MaxRDNs = 2
SPECIFICATION Spec
INVARIANT TypeOK
PROPERTY ImplementsSearchNamesSpec
CHECK_DEADLOCK FALSE
