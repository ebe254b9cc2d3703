------------------------------ MODULE SearchNames ------------------------------
(***************************************************************************)
(* SearchNames, SearchWithinRDN and SearchWithinAVA of pkixnames.cpp: the *)
(* one traversal that drives both hostname matching (referenceIDType      *)
(* dNSName or iPAddress) and name-constraint checking (referenceIDType    *)
(* nameConstraints).  One step is one iteration of a loop of the code:    *)
(* one subjectAltName entry, the subject's directoryName check together  *)
(* with the CN-fallback decision, or one AVA of the subject.              *)
(*                                                                         *)
(* A certificate's subject is a Name: a sequence of RDNs, each a sequence *)
(* of AVAs [type, tag, value] with type "commonName" or another attribute *)
(* and tag the value's string encoding; a CN value is a byte string.      *)
(***************************************************************************)
EXTENDS IdentityMatch

VARIABLES
  args,      \* [subjectAltName, hasSubjectAltName, subject,
             \*  referenceIDType, referenceID, fallBackToCommonName]
  pc,        \* "SAN", "Subject", "CN" or "Done"
  sanIndex,  \* the next GeneralName of subjectAltName
  rdnIndex,  \* the next RDN of the subject
  avaIndex,  \* the next AVA of that RDN
  match,     \* MatchResult
  hasAtLeastOneDNSNameOrIPAddressSAN,
  rv         \* the Result SearchNames returns, once pc = "Done"

searchVars == <<args, pc, sanIndex, rdnIndex, avaIndex, match,
                hasAtLeastOneDNSNameOrIPAddressSAN, rv>>

\* SearchNames called with arguments a, at its first loop test.
SearchStarted(a) ==
  /\ args = a
  /\ pc = IF a.hasSubjectAltName THEN "SAN" ELSE "Subject"
  /\ sanIndex = 1
  /\ rdnIndex = 1
  /\ avaIndex = 1
  /\ match = NoNamesOfGivenType
  /\ hasAtLeastOneDNSNameOrIPAddressSAN = FALSE
  /\ rv = Success

StartSearch(a) == SearchStarted(a)'

Return(result) ==
  /\ pc' = "Done"
  /\ rv' = result

\* One iteration of the do-while loop over the subjectAltName entries.
SANEntry ==
  LET san == args.subjectAltName
      entry == san[sanIndex]
      gn == ReadGeneralName(entry)
      ncCheck == CheckPresentedIDConformsToConstraints(gn.type, entry.value,
                                                       args.referenceID)
      isMatch == MatchPresentedIDWithReferenceID(gn.type, entry.value,
                                                 args.referenceID)
      lastEntry == sanIndex = Len(san)
  IN /\ pc = "SAN"
     /\ UNCHANGED <<args, rdnIndex, avaIndex>>
     /\ IF sanIndex > Len(san) \/ gn.rv # Success
        THEN /\ Return(ERROR_BAD_DER)
             /\ UNCHANGED <<sanIndex, match, hasAtLeastOneDNSNameOrIPAddressSAN>>
        ELSE IF args.referenceIDType = nameConstraints /\ ncCheck # Success
        THEN /\ Return(ncCheck)
             /\ UNCHANGED <<sanIndex, match, hasAtLeastOneDNSNameOrIPAddressSAN>>
        ELSE IF args.referenceIDType = gn.type /\ isMatch
        THEN /\ match' = Match
             /\ Return(Success)
             /\ UNCHANGED <<sanIndex, hasAtLeastOneDNSNameOrIPAddressSAN>>
        ELSE /\ match' = IF args.referenceIDType = gn.type THEN Mismatch
                         ELSE match
             /\ hasAtLeastOneDNSNameOrIPAddressSAN' =
                  (hasAtLeastOneDNSNameOrIPAddressSAN
                   \/ gn.type \in {dNSName, iPAddress})
             /\ sanIndex' = sanIndex + 1
             /\ pc' = IF lastEntry THEN "Subject" ELSE "SAN"
             /\ UNCHANGED rv

\* mutant of SubjectEntry: a dNSName or iPAddress SAN does not suppress
\* the CN fallback
SubjectEntryNoSuppression ==
  LET ncCheck == CheckPresentedIDConformsToConstraints(directoryName,
                   args.subject, args.referenceID)
  IN /\ pc = "Subject"
     /\ UNCHANGED <<args, sanIndex, rdnIndex, avaIndex, match,
                    hasAtLeastOneDNSNameOrIPAddressSAN>>
     /\ IF args.referenceIDType = nameConstraints /\ ncCheck # Success
        THEN Return(ncCheck)
        ELSE IF ~args.fallBackToCommonName \/ args.subject = <<>>
        THEN Return(Success)
        ELSE /\ pc' = "CN"
             /\ UNCHANGED rv

\* The subject's directoryName check (name constraints only) and the
\* decision whether to fall back to the CN.
SubjectEntry ==
  LET ncCheck == CheckPresentedIDConformsToConstraints(directoryName,
                   args.subject, args.referenceID)
  IN /\ pc = "Subject"
     /\ UNCHANGED <<args, sanIndex, rdnIndex, avaIndex, match,
                    hasAtLeastOneDNSNameOrIPAddressSAN>>
     /\ IF args.referenceIDType = nameConstraints /\ ncCheck # Success
        THEN Return(ncCheck)
        ELSE IF \/ hasAtLeastOneDNSNameOrIPAddressSAN
                \/ ~args.fallBackToCommonName
                \/ args.subject = <<>>
        THEN Return(Success)
        ELSE /\ pc' = "CN"
             /\ UNCHANGED rv

\* mutant of AVAEntry (parameterised by its index updates)
AVAEntryWith(nextAVA, nextRDN) ==
  LET subject == args.subject
      rdn == subject[rdnIndex]
      lastAVA == avaIndex = Len(rdn)
      lastRDN == rdnIndex = Len(subject)
  IN /\ pc = "CN"
     /\ UNCHANGED <<args, sanIndex, hasAtLeastOneDNSNameOrIPAddressSAN>>
     /\ IF rdn = <<>>
        THEN /\ Return(ERROR_BAD_DER)
             /\ UNCHANGED <<rdnIndex, avaIndex, match>>
        ELSE /\ match' = SearchWithinAVA(rdn[avaIndex], args.referenceIDType,
                                         args.referenceID, match)
             /\ avaIndex' = nextAVA[lastAVA]
             /\ rdnIndex' = nextRDN[lastAVA]
             /\ IF lastAVA /\ lastRDN THEN Return(Success)
                ELSE UNCHANGED <<pc, rv>>

\* mutant of AVAEntry: the AVA index is not reset for the next RDN
AVAEntryNoReset ==
  AVAEntryWith([last \in BOOLEAN |-> avaIndex + 1],
               [last \in BOOLEAN |-> IF last THEN rdnIndex + 1 ELSE rdnIndex])

\* One AVA of the NestedOf / SearchWithinRDN walk over the subject.
AVAEntry ==
  LET subject == args.subject
      rdn == subject[rdnIndex]
      lastAVA == avaIndex = Len(rdn)
      lastRDN == rdnIndex = Len(subject)
  IN /\ pc = "CN"
     /\ UNCHANGED <<args, sanIndex, hasAtLeastOneDNSNameOrIPAddressSAN>>
     /\ IF rdn = <<>>
        THEN /\ Return(ERROR_BAD_DER)
             /\ UNCHANGED <<rdnIndex, avaIndex, match>>
        ELSE /\ match' = SearchWithinAVA(rdn[avaIndex], args.referenceIDType,
                                         args.referenceID, match)
             /\ avaIndex' = IF lastAVA THEN 1 ELSE avaIndex + 1
             /\ rdnIndex' = IF lastAVA THEN rdnIndex + 1 ELSE rdnIndex
             /\ IF lastAVA /\ lastRDN THEN Return(Success)
                ELSE UNCHANGED <<pc, rv>>

SearchStep == SANEntry \/ SubjectEntry \/ AVAEntry
=============================================================================
