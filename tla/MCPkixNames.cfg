\* One verification per initial state over presented DNS-IDs without a
\* wildcard; once both checks have run the verifier stops.
CONSTANTS
  MaxDNSIDLength = 253
  MaxLabelLength = 63
  DNSSANValues <- PlainPresented
SPECIFICATION Spec
INVARIANT TypeOK
INVARIANT HostnameWithinNameConstraints
INVARIANT AcceptedChainConforms
INVARIANT AcceptedChainWithinConstraints
CHECK_DEADLOCK FALSE
