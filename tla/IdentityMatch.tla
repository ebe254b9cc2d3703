----------------------------- MODULE IdentityMatch -----------------------------
(***************************************************************************)
(* What one presented identifier yields for SearchNames (pkixnames.cpp):  *)
(* MatchResult, MatchPresentedIDWithReferenceID and SearchWithinAVA, the  *)
(* treatment of one subject AVA as a CN-ID.                               *)
(***************************************************************************)
EXTENDS NameConstraints, IPAddress

\* enum MatchResult
NoNamesOfGivenType == "NoNamesOfGivenType"
Mismatch           == "Mismatch"
Match              == "Match"
MatchResults == {NoNamesOfGivenType, Mismatch, Match}

commonName == "commonName"   \* id_at_commonName
PrintableString == "PrintableString"
UTF8String      == "UTF8String"
TeletexString   == "TeletexString"
CNIDEncodings == {PrintableString, UTF8String, TeletexString}

MatchPresentedIDWithReferenceID(nameType, presentedID, referenceID) ==
  IF nameType = dNSName
  THEN PresentedDNSIDMatchesReferenceDNSID(presentedID, ReferenceID,
                                           referenceID)
  ELSE presentedID = referenceID   \* iPAddress: InputsAreEqual

\* (mutant) only a constraint violation makes a CN-ID a Mismatch; an error
\* the constraint check reports counts as a match
CNIDResultErrorAsMatch(presentedType, presentedID, referenceIDType, referenceID) ==
  IF referenceIDType = nameConstraints
  THEN IF CheckPresentedIDConformsToConstraints(presentedType, presentedID,
                                                referenceID) # ERROR_CERT_NOT_IN_NAME_SPACE
       THEN Match ELSE Mismatch
  ELSE IF referenceIDType = presentedType
  THEN IF MatchPresentedIDWithReferenceID(presentedType, presentedID,
                                          referenceID)
       THEN Match ELSE Mismatch
  ELSE NoNamesOfGivenType

\* the match result a CN-ID yields in the mode of the reference ID
CNIDResult(presentedType, presentedID, referenceIDType, referenceID) ==
  IF referenceIDType = nameConstraints
  THEN IF CheckPresentedIDConformsToConstraints(presentedType, presentedID,
                                                referenceID) = Success
       THEN Match ELSE Mismatch
  ELSE IF referenceIDType = presentedType
  THEN IF MatchPresentedIDWithReferenceID(presentedType, presentedID,
                                          referenceID)
       THEN Match ELSE Mismatch
  ELSE NoNamesOfGivenType

SearchWithinAVA(ava, referenceIDType, referenceID, m) ==
  LET ipv4 == ParseIPv4Address(ava.value)
  IN IF ava.type # commonName THEN m
     ELSE IF ava.tag \notin CNIDEncodings THEN NoNamesOfGivenType
     ELSE IF IsValidPresentedDNSID(ava.value)
          THEN CNIDResult(dNSName, ava.value, referenceIDType, referenceID)
     ELSE IF ipv4.ok
          THEN CNIDResult(iPAddress, ipv4.bytes, referenceIDType, referenceID)
     ELSE NoNamesOfGivenType
=============================================================================
