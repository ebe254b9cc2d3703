\* Spec 7's ErrBadDer for malformed constraints, over the same chains; the
\* constraint with a 5-byte iPAddress base is the malformed one.  Once both
\* checks have run the verifier stops.
CONSTANTS
  MaxDNSIDLength = 253
  MaxLabelLength = 63
  DNSSANValues <- PlainPresented
SPECIFICATION Spec
INVARIANT MalformedConstraintsAreBadDER
CHECK_DEADLOCK FALSE
