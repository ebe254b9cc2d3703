---------------------------- MODULE NameConstraints ----------------------------
(***************************************************************************)
(* Name-constraint evaluation of pkixnames.cpp: ReadGeneralName,          *)
(* CheckPresentedIDConformsToConstraints and its subtree loop, and the    *)
(* iPAddress and directoryName matchers.                                  *)
(*                                                                         *)
(* DER is abstracted to the structure the code walks: a GeneralName is a  *)
(* record [type, value]; a dNSName value is a byte string (see DNSID), an *)
(* iPAddress value a sequence of bytes 0..255, a directoryName value a    *)
(* Name, i.e. a sequence of RDNs compared by equality (InputsAreEqual).   *)
(* The encoded extension is the sequence of its [0]/[1] elements, each    *)
(* [tag, subtrees]; a GeneralSubtree is [base, extra] where extra means   *)
(* a minimum or maximum field is encoded.                                 *)
(***************************************************************************)
EXTENDS DNSID, Bitwise

\* mozilla::pkix::Result values that these functions return
Success                      == "Success"
ERROR_BAD_DER                == "ERROR_BAD_DER"
ERROR_CERT_NOT_IN_NAME_SPACE == "ERROR_CERT_NOT_IN_NAME_SPACE"
ERROR_BAD_CERT_DOMAIN        == "ERROR_BAD_CERT_DOMAIN"
FATAL_ERROR_LIBRARY_FAILURE  == "FATAL_ERROR_LIBRARY_FAILURE"

\* enum GeneralNameType: the nine context-specific tags and the
\* nameConstraints pseudo-type
otherName                 == "otherName"
rfc822Name                == "rfc822Name"
dNSName                   == "dNSName"
x400Address               == "x400Address"
directoryName             == "directoryName"
ediPartyName              == "ediPartyName"
uniformResourceIdentifier == "uniformResourceIdentifier"
iPAddress                 == "iPAddress"
registeredID              == "registeredID"
nameConstraints           == "nameConstraints"
GeneralNameTypes ==
  {otherName, rfc822Name, dNSName, x400Address, directoryName, ediPartyName,
   uniformResourceIdentifier, iPAddress, registeredID}

\* enum NameConstraintsSubtrees
permittedSubtrees == "permittedSubtrees"
excludedSubtrees  == "excludedSubtrees"

\* ReadGeneralName: any tag other than the nine is ERROR_BAD_DER.
ReadGeneralName(gn) ==
  IF gn.type \in GeneralNameTypes
  THEN [rv |-> Success, type |-> gn.type]
  ELSE [rv |-> ERROR_BAD_DER, type |-> gn.type]

\* (mutant) the presented address masked and compared with the constraint
\* address as it stands, its bits outside the mask included
MatchPresentedIPAddressWithConstraintUnmasked(presentedID, iPAddressConstraint) ==
  LET n == Len(presentedID)
  IN IF n \notin {4, 16} \/ Len(iPAddressConstraint) \notin {8, 32}
     THEN [rv |-> ERROR_BAD_DER, matches |-> FALSE]
     ELSE [rv |-> Success,
           matches |->
             /\ n * 2 = Len(iPAddressConstraint)
             /\ \A i \in 1..n :
                  (presentedID[i] & iPAddressConstraint[n + i])
                    = iPAddressConstraint[i]]

MatchPresentedIPAddressWithConstraint(presentedID, iPAddressConstraint) ==
  LET n == Len(presentedID)
  IN IF n \notin {4, 16} \/ Len(iPAddressConstraint) \notin {8, 32}
     THEN [rv |-> ERROR_BAD_DER, matches |-> FALSE]
     ELSE [rv |-> Success,
           matches |->
             /\ n * 2 = Len(iPAddressConstraint)
             /\ \A i \in 1..n :
                  ((presentedID[i] ^^ iPAddressConstraint[i])
                     & iPAddressConstraint[n + i]) = 0]

\* (mutant) an excluded non-empty directoryName constraint reported as no
\* match instead of ERROR_CERT_NOT_IN_NAME_SPACE
MatchPresentedDirectoryNameWithConstraintExcludedNoMatch(subtreesType, presentedID, directoryNameConstraint) ==
  IF subtreesType = excludedSubtrees
  THEN [rv |-> Success,
        matches |-> directoryNameConstraint = <<>> /\ presentedID = <<>>]
  ELSE [rv |-> Success,
        matches |->
          /\ Len(directoryNameConstraint) <= Len(presentedID)
          /\ SubSeq(presentedID, 1, Len(directoryNameConstraint))
               = directoryNameConstraint]

\* Permitted: the constraint's RDNs are a prefix of the presented RDNs.
\* Excluded: only the empty constraint against the empty name matches;
\* anything else is rejected outright.
MatchPresentedDirectoryNameWithConstraint(subtreesType, presentedID, directoryNameConstraint) ==
  IF subtreesType = excludedSubtrees
  THEN IF directoryNameConstraint # <<>> \/ presentedID # <<>>
       THEN [rv |-> ERROR_CERT_NOT_IN_NAME_SPACE, matches |-> FALSE]
       ELSE [rv |-> Success, matches |-> TRUE]
  ELSE [rv |-> Success,
        matches |->
          /\ Len(directoryNameConstraint) <= Len(presentedID)
          /\ SubSeq(presentedID, 1, Len(directoryNameConstraint))
               = directoryNameConstraint]

\* The switch over presentedIDType for one base of the same type.
MatchPresentedIDWithConstraint(presentedIDType, presentedID, base, subtreesType) ==
  CASE presentedIDType = dNSName ->
         LET matches == PresentedDNSIDMatchesReferenceDNSID(
                          presentedID, NameConstraint, base)
         IN IF ~matches /\ ~IsValidDNSID(base, NameConstraint)
            THEN [rv |-> ERROR_CERT_NOT_IN_NAME_SPACE, matches |-> FALSE]
            ELSE [rv |-> Success, matches |-> matches]
    [] presentedIDType = iPAddress ->
         MatchPresentedIPAddressWithConstraint(presentedID, base)
    [] presentedIDType = directoryName ->
         MatchPresentedDirectoryNameWithConstraint(subtreesType, presentedID,
                                                   base)
    [] presentedIDType = rfc822Name ->
         [rv |-> FATAL_ERROR_LIBRARY_FAILURE, matches |-> FALSE]
    [] OTHER ->
         [rv |-> ERROR_CERT_NOT_IN_NAME_SPACE, matches |-> FALSE]

(***************************************************************************)
(* The do-while loop over GeneralSubtrees from subtree i on, with the     *)
(* flags hasPermittedSubtreesMatch / hasPermittedSubtreesMismatch.  The   *)
(* body of one iteration, SubtreeIteration, receives the GeneralName read *)
(* (gn) and the result of matching against its base (m).                 *)
(***************************************************************************)
RECURSIVE SubtreesFrom(_, _, _, _, _, _, _), SubtreeIteration(_, _, _, _, _, _, _, _, _)
SubtreesFrom(presentedIDType, presentedID, subtrees, subtreesType, i, hasMatch, hasMismatch) ==
  IF i > Len(subtrees) THEN ERROR_BAD_DER
  ELSE SubtreeIteration(presentedIDType, presentedID, subtrees, subtreesType, i,
         hasMatch, hasMismatch, ReadGeneralName(subtrees[i].base),
         MatchPresentedIDWithConstraint(presentedIDType, presentedID,
                                        subtrees[i].base.value, subtreesType))

SubtreeIteration(presentedIDType, presentedID, subtrees, subtreesType, i, hasMatch, hasMismatch, gn, m) ==
  LET sameType == gn.type = presentedIDType
      permitted == sameType /\ subtreesType = permittedSubtrees
  IN IF gn.rv # Success THEN gn.rv
     ELSE IF subtrees[i].extra THEN ERROR_BAD_DER
     ELSE IF sameType /\ m.rv # Success THEN m.rv
     ELSE IF sameType /\ subtreesType = excludedSubtrees /\ m.matches
          THEN ERROR_CERT_NOT_IN_NAME_SPACE
     ELSE IF i < Len(subtrees)
          THEN SubtreesFrom(presentedIDType, presentedID, subtrees,
                            subtreesType, i + 1,
                            hasMatch \/ (permitted /\ m.matches),
                            hasMismatch \/ (permitted /\ ~m.matches))
     ELSE IF /\ hasMismatch \/ (permitted /\ ~m.matches)
             /\ ~(hasMatch \/ (permitted /\ m.matches))
          THEN ERROR_CERT_NOT_IN_NAME_SPACE
     ELSE Success

\* CheckPresentedIDConformsToNameConstraintsSubtrees for the element at
\* position pos of the extension: [rv, next position].
CheckSubtreesAt(presentedIDType, presentedID, encoded, pos, subtreesType) ==
  IF pos > Len(encoded) \/ encoded[pos].tag # subtreesType
  THEN [rv |-> Success, next |-> pos]
  ELSE [rv |-> SubtreesFrom(presentedIDType, presentedID,
                            encoded[pos].subtrees, subtreesType, 1,
                            FALSE, FALSE),
        next |-> pos + 1]

\* The checks after the permittedSubtrees element (p) and the
\* excludedSubtrees element (e) have been read.
ConstraintsResult(encodedNameConstraints, p, e) ==
  IF p.rv # Success THEN p.rv
  ELSE IF e.rv # Success THEN e.rv
  ELSE IF e.next <= Len(encodedNameConstraints) THEN ERROR_BAD_DER
  ELSE Success

ExcludedAfter(presentedIDType, presentedID, encodedNameConstraints, p) ==
  ConstraintsResult(encodedNameConstraints, p,
    CheckSubtreesAt(presentedIDType, presentedID, encodedNameConstraints,
                    p.next, excludedSubtrees))

CheckPresentedIDConformsToConstraints(presentedIDType, presentedID, encodedNameConstraints) ==
  IF encodedNameConstraints = <<>> THEN ERROR_BAD_DER
  ELSE ExcludedAfter(presentedIDType, presentedID, encodedNameConstraints,
         CheckSubtreesAt(presentedIDType, presentedID, encodedNameConstraints,
                         1, permittedSubtrees))
=============================================================================
