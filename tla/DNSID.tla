-------------------------------- MODULE DNSID --------------------------------
(***************************************************************************)
(* DNS-ID syntax checking and matching of mozilla::pkix (pkixnames.cpp):   *)
(* IsValidDNSID in its three modes, StartsWithIDNALabel,                  *)
(* LocaleInsensitveToLower and PresentedDNSIDMatchesReferenceDNSID.       *)
(*                                                                         *)
(* A byte string is a sequence of one-character strings; a byte outside   *)
(* ASCII is any other one-character string (e.g. "\xe9").  The loops over *)
(* a Reader are recursive operators over an index: i is the index of the  *)
(* next byte Read would return, and i > Len(s) is Reader::AtEnd.         *)
(***************************************************************************)
EXTENDS Integers, Sequences, FiniteSets

CONSTANTS
  MaxDNSIDLength,   \* 253 in IsValidDNSID
  MaxLabelLength    \* MAX_LABEL_LENGTH = 63 in IsValidDNSID

ASSUME MaxDNSIDLength \in Nat /\ MaxLabelLength \in Nat \ {0}

\* enum ValidDNSIDMatchType
ReferenceID    == "ReferenceID"
PresentedID    == "PresentedID"
NameConstraint == "NameConstraint"
ValidDNSIDMatchTypes == {ReferenceID, PresentedID, NameConstraint}

UpperCase == <<"A","B","C","D","E","F","G","H","I","J","K","L","M",
               "N","O","P","Q","R","S","T","U","V","W","X","Y","Z">>
LowerCase == <<"a","b","c","d","e","f","g","h","i","j","k","l","m",
               "n","o","p","q","r","s","t","u","v","w","x","y","z">>
Digits    == {"0","1","2","3","4","5","6","7","8","9"}
Letters   == {UpperCase[i] : i \in 1..26} \cup {LowerCase[i] : i \in 1..26}

\* Only 'A'..'Z' are folded; every other byte, non-ASCII included, is kept.
LocaleInsensitveToLower(b) ==
  IF \E i \in 1..26 : UpperCase[i] = b
  THEN LowerCase[CHOOSE i \in 1..26 : UpperCase[i] = b]
  ELSE b

StartsWithIDNALabel(id) ==
  /\ Len(id) >= 4
  /\ SubSeq(id, 1, 4) = <<"x", "n", "-", "-">>

(***************************************************************************)
(* The cases of the switch in the do-while loop of IsValidDNSID: each    *)
(* updates the scanner state st, or sets st.ok to FALSE where the code   *)
(* returns false.                                                         *)
(***************************************************************************)
ScanFail(st) == [st EXCEPT !.ok = FALSE]

\* ++labelLength, then the MAX_LABEL_LENGTH check
Grow(st) == IF st.labelLength + 1 > MaxLabelLength THEN ScanFail(st)
            ELSE [st EXCEPT !.labelLength = st.labelLength + 1]

\* mutant of ScanHyphen: a label may start with '-'
ScanHyphenFirst(st) ==
  Grow([st EXCEPT !.labelIsAllNumeric = FALSE, !.labelEndsWithHyphen = TRUE])

ScanHyphen(st) ==
  IF st.labelLength = 0 THEN ScanFail(st)
  ELSE Grow([st EXCEPT !.labelIsAllNumeric = FALSE,
                       !.labelEndsWithHyphen = TRUE])

ScanDigit(st) ==
  Grow([st EXCEPT !.labelIsAllNumeric = st.labelLength = 0 \/ st.labelIsAllNumeric,
                  !.labelEndsWithHyphen = FALSE])

ScanLetter(st) ==
  Grow([st EXCEPT !.labelIsAllNumeric = FALSE, !.labelEndsWithHyphen = FALSE])

ScanDot(st, matchType) ==
  IF \/ st.labelLength = 0 /\ (matchType # NameConstraint \/ ~st.isFirstByte)
     \/ st.labelEndsWithHyphen
  THEN ScanFail(st)
  ELSE [st EXCEPT !.dotCount = st.dotCount + 1, !.labelLength = 0]

\* one iteration: the switch on b, then isFirstByte = false
ScanByte(b, st, matchType) ==
  LET next == CASE b = "-"       -> ScanHyphen(st)
                [] b \in Digits  -> ScanDigit(st)
                [] b \in Letters -> ScanLetter(st)
                [] b = "."       -> ScanDot(st, matchType)
                [] OTHER         -> ScanFail(st)
  IN [next EXCEPT !.isFirstByte = FALSE]

\* do { Read; switch } while (!AtEnd): at least one byte is read.
RECURSIVE ScanLabels(_, _, _, _)
ScanLabels(hostname, i, st, matchType) ==
  IF i > Len(hostname) THEN ScanFail(st)
  ELSE LET next == ScanByte(hostname[i], st, matchType)
       IN IF ~next.ok \/ i = Len(hostname) THEN next
          ELSE ScanLabels(hostname, i + 1, next, matchType)

\* The checks after the loop, on the scanner state st it ended in: only a
\* reference ID may be absolute, the last label neither ends with a hyphen
\* nor is all numeric, and a wildcard is followed by at least two labels
\* that do not start an IDNA A-label.
LastLabelValid(hostname, matchType, isWildcard, st) ==
  LET labelCount == IF st.labelLength = 0 THEN st.dotCount
                    ELSE st.dotCount + 1
  IN /\ ~(st.labelLength = 0 /\ matchType # ReferenceID)
     /\ ~st.labelEndsWithHyphen
     /\ ~st.labelIsAllNumeric
     /\ isWildcard => labelCount >= 3 /\ ~StartsWithIDNALabel(hostname)

IsValidDNSID(hostname, matchType) ==
  LET isWildcard == matchType = PresentedID /\ Len(hostname) >= 1
                    /\ hostname[1] = "*"
      start == [ok |-> TRUE, dotCount |-> IF isWildcard THEN 1 ELSE 0,
                labelLength |-> 0, labelIsAllNumeric |-> FALSE,
                labelEndsWithHyphen |-> FALSE, isFirstByte |-> ~isWildcard]
      st == ScanLabels(hostname, IF isWildcard THEN 3 ELSE 1, start,
                       matchType)
  IN /\ Len(hostname) <= MaxDNSIDLength
     /\ \/ matchType = NameConstraint /\ hostname = <<>>
        \/ /\ ~isWildcard \/ (Len(hostname) >= 2 /\ hostname[2] = ".")
           /\ st.ok
           /\ LastLabelValid(hostname, matchType, isWildcard, st)

IsValidReferenceDNSID(hostname) == IsValidDNSID(hostname, ReferenceID)
IsValidPresentedDNSID(hostname) == IsValidDNSID(hostname, PresentedID)

(***************************************************************************)
(* PresentedDNSIDMatchesReferenceDNSID.  pi and ri index the next unread  *)
(* bytes of the presented and the reference Reader.                       *)
(***************************************************************************)

\* The for(;;) loop comparing the remaining bytes: the index of the first
\* unread reference byte when the presented ID is exhausted, 0 for false.
RECURSIVE CompareRest(_, _, _, _)

\* mutant of CompareRest: bytes compared without case folding
CompareRestCaseSensitive(presented, pi, reference, ri) ==
  IF pi > Len(presented) \/ ri > Len(reference) THEN 0
  ELSE IF presented[pi] # reference[ri] THEN 0
  ELSE IF pi = Len(presented)
       THEN IF presented[pi] = "." THEN 0 ELSE ri + 1
       ELSE CompareRest(presented, pi + 1, reference, ri + 1)

CompareRest(presented, pi, reference, ri) ==
  IF pi > Len(presented) \/ ri > Len(reference) THEN 0
  ELSE IF LocaleInsensitveToLower(presented[pi])
            # LocaleInsensitveToLower(reference[ri]) THEN 0
  ELSE IF pi = Len(presented)
       THEN IF presented[pi] = "." THEN 0 ELSE ri + 1
       ELSE CompareRest(presented, pi + 1, reference, ri + 1)

\* do { Read } while (!Peek('.')) after a '*': the index of the '.' that
\* ends the reference's label, 0 when the reference runs out first.
WildcardLabelEnd(reference, ri) ==
  LET dots == {j \in ri + 1 .. Len(reference) : reference[j] = "."}
  IN IF dots = {} THEN 0 ELSE CHOOSE j \in dots : \A k \in dots : j <= k

\* mutant of SkipConstraintPrefix: the prefix is skipped without checking
\* that it ends at a label boundary
SkipConstraintPrefixAnyBoundary(presented, reference) ==
  [emptyConstraint |-> reference = <<>>, boundary |-> TRUE,
   start |-> Len(presented) - Len(reference) + 1]

\* mutant of SkipConstraintPrefix: the empty constraint is not special
SkipConstraintPrefixNoEmpty(presented, reference) ==
  LET skip == Len(presented) - Len(reference)
  IN [emptyConstraint |-> FALSE,
      boundary |-> reference # <<>> /\ (reference[1] = "." \/ presented[skip] = "."),
      start |-> skip + 1]

\* The NameConstraint case of the switch, for a presented ID longer than
\* the constraint: the empty constraint matches everything; otherwise the
\* presented ID's extra prefix is skipped and must end where a label ends
\* (just before the constraint's leading '.', or at a '.' of its own).
SkipConstraintPrefix(presented, reference) ==
  LET skip == Len(presented) - Len(reference)
  IN [emptyConstraint |-> reference = <<>>,
      boundary |-> reference # <<>> /\ (reference[1] = "." \/ presented[skip] = "."),
      start |-> skip + 1]

PresentedDNSIDMatchesReferenceDNSID(presented, matchType, reference) ==
  LET lp == Len(presented)
      lr == Len(reference)
      align == matchType = NameConstraint /\ lp > lr
      cut == SkipConstraintPrefix(presented, reference)
      pStart == IF align THEN cut.start ELSE 1
      wildcard == pStart <= lp /\ presented[pStart] = "*"
      pi == IF wildcard THEN pStart + 1 ELSE pStart
      ri == IF wildcard THEN WildcardLabelEnd(reference, 1) ELSE 1
      rEnd == CompareRest(presented, pi, reference, ri)
  IN /\ IsValidPresentedDNSID(presented)
     /\ IsValidDNSID(reference, matchType)
     /\ matchType # PresentedID
     /\ \/ align /\ cut.emptyConstraint
        \/ /\ ~(align /\ cut.emptyConstraint)
           /\ align => cut.boundary
           /\ ri # 0
           /\ rEnd # 0
           /\ rEnd <= lr => /\ matchType # NameConstraint
                            /\ reference[rEnd] = "."
                            /\ rEnd = lr
=============================================================================
