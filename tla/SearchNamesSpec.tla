---------------------------- MODULE SearchNamesSpec ----------------------------
(***************************************************************************)
(* What a SearchNames call promises, as one atomic step: the result is    *)
(* decided by the first subjectAltName entry that ends the search (a bad  *)
(* entry, a constraint violation, a match); after all entries, by the     *)
(* subject's directoryName check, then by the selection rule of spec 4.8:*)
(* the CN is consulted only when no dNSName or iPAddress SAN exists and   *)
(* fallback is allowed, and then only the last CN in the subject counts. *)
(* On an error the match is irrelevant to every caller and is taken to   *)
(* be NoNamesOfGivenType.                                                 *)
(***************************************************************************)
EXTENDS IdentityMatch
LOCAL INSTANCE SequencesExt

VARIABLES
  args,      \* the call's arguments, as in SearchNames
  returned,  \* the call has returned
  result     \* [rv, match]

specVars == <<args, returned, result>>

Pending == [rv |-> Success, match |-> NoNamesOfGivenType]

\* On an error the match is irrelevant.
Failed(e) == [rv |-> e, match |-> NoNamesOfGivenType]

\* The loop goes on past this entry.
Continue == [rv |-> "Continue", match |-> NoNamesOfGivenType]

\* What the subjectAltName loop does at entry e: Continue, or the result
\* it returns there (a bad GeneralName, a constraint violation, or a match
\* of the reference ID's type).
ConstraintEntry(rv) == IF rv # Success THEN Failed(rv) ELSE Continue

EntryOutcome(a, e) ==
  IF ReadGeneralName(e).rv # Success THEN Failed(ERROR_BAD_DER)
  ELSE IF a.referenceIDType = nameConstraints
  THEN ConstraintEntry(CheckPresentedIDConformsToConstraints(e.type, e.value,
                                                             a.referenceID))
  ELSE IF /\ e.type = a.referenceIDType
          /\ MatchPresentedIDWithReferenceID(e.type, e.value, a.referenceID)
  THEN [rv |-> Success, match |-> Match]
  ELSE Continue

\* The result when no entry ended the loop; subjectRv is the result of the
\* subject's directoryName check.
AfterSANs(a, subjectRv) ==
  LET san == IF a.hasSubjectAltName THEN a.subjectAltName ELSE <<>>
      sanMatch == IF /\ a.referenceIDType # nameConstraints
                     /\ \E i \in DOMAIN san : san[i].type = a.referenceIDType
                  THEN Mismatch ELSE NoNamesOfGivenType
      fallBack == /\ a.fallBackToCommonName
                  /\ \A i \in DOMAIN san : san[i].type \notin {dNSName, iPAddress}
      cns == SelectSeq(FlattenSeq(a.subject), LAMBDA ava : ava.type = commonName)
  IN IF subjectRv # Success THEN Failed(subjectRv)
     ELSE IF ~fallBack THEN [rv |-> Success, match |-> sanMatch]
     ELSE IF \E i \in DOMAIN a.subject : a.subject[i] = <<>>
     THEN Failed(ERROR_BAD_DER)
     ELSE IF cns = <<>> THEN [rv |-> Success, match |-> sanMatch]
     ELSE [rv |-> Success,
           match |-> SearchWithinAVA(Last(cns), a.referenceIDType,
                                     a.referenceID, NoNamesOfGivenType)]

\* entries: the EntryOutcome of every subjectAltName entry.
OutcomeOf(a, entries) ==
  LET stop == SelectInSeq(entries, LAMBDA r : r # Continue)
  IN IF a.hasSubjectAltName /\ entries = <<>> THEN Failed(ERROR_BAD_DER)
     ELSE IF stop # 0 THEN entries[stop]
     ELSE AfterSANs(a, IF a.referenceIDType = nameConstraints
                       THEN CheckPresentedIDConformsToConstraints(
                              directoryName, a.subject, a.referenceID)
                       ELSE Success)

Outcome(a) ==
  LET san == IF a.hasSubjectAltName THEN a.subjectAltName ELSE <<>>
  IN OutcomeOf(a, [i \in DOMAIN san |-> EntryOutcome(a, san[i])])

SpecInit(calls) ==
  /\ args \in calls
  /\ returned = FALSE
  /\ result = Pending

Decide ==
  /\ ~returned
  /\ returned' = TRUE
  /\ result' = Outcome(args)
  /\ UNCHANGED args

SpecNext == Decide

SpecSpec(calls) == SpecInit(calls) /\ [][SpecNext]_specVars
=============================================================================
