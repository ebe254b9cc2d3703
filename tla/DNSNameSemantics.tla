--------------------------- MODULE DNSNameSemantics ---------------------------
(***************************************************************************)
(* What DNS-ID checking promises, stated over labels rather than over a  *)
(* byte cursor: the syntax rules of spec section 4.2, the RFC 6125        *)
(* matching of section 4.5 (wildcard = exactly one whole left-most        *)
(* label) and the RFC 5280 subtree rule for dNSName name constraints      *)
(* ("adding zero or more labels to the left", a leading '.' meaning       *)
(* strict subdomains).  These are the reference definitions the byte-     *)
(* level operators of DNSID are checked against.                          *)
(***************************************************************************)
EXTENDS DNSID

\* the labels of a byte string, split at every '.'
RECURSIVE SplitLabels(_)
SplitLabels(s) ==
  IF \A i \in DOMAIN s : s[i] # "."
  THEN <<s>>
  ELSE LET d == CHOOSE i \in DOMAIN s : s[i] = "." /\ \A j \in 1..i-1 : s[j] # "."
       IN <<SubSeq(s, 1, d - 1)>> \o SplitLabels(SubSeq(s, d + 1, Len(s)))

LowerLabel(l) == [i \in DOMAIN l |-> LocaleInsensitveToLower(l[i])]
LowerLabels(ls) == [i \in DOMAIN ls |-> LowerLabel(ls[i])]

IsLDHLabel(l) ==
  /\ 1 <= Len(l) /\ Len(l) <= MaxLabelLength
  /\ \A i \in DOMAIN l : l[i] \in Letters \cup Digits \cup {"-"}
  /\ l[1] # "-" /\ l[Len(l)] # "-"

IsAllDigits(l) == \A i \in DOMAIN l : l[i] \in Digits

\* The labels that carry a name: without the trailing empty label of an
\* absolute reference ID, the leading empty label of a '.'-constraint and
\* the leading '*' label of a wildcard presented ID.
NameLabels(s, matchType) ==
  LET L == SplitLabels(s)
  IN CASE matchType = ReferenceID /\ Len(L) > 1 /\ L[Len(L)] = <<>>
            -> SubSeq(L, 1, Len(L) - 1)
       [] matchType = NameConstraint /\ Len(L) > 1 /\ L[1] = <<>>
            -> Tail(L)
       [] matchType = PresentedID /\ L[1] = <<"*">> -> Tail(L)
       [] OTHER -> L

IsWildcardID(s) == SplitLabels(s)[1] = <<"*">>

\* Spec 4.2: the syntax of a DNS-ID in each of the three modes.
SpecValidDNSID(s, matchType) ==
  /\ Len(s) <= MaxDNSIDLength
  /\ \/ matchType = NameConstraint /\ s = <<>>
     \/ LET N == NameLabels(s, matchType)
        IN /\ Len(N) >= 1
           /\ \A i \in DOMAIN N : IsLDHLabel(N[i])
           /\ ~IsAllDigits(N[Len(N)])
           /\ matchType = PresentedID /\ IsWildcardID(s) =>
                 /\ Len(N) >= 2
                 /\ ~StartsWithIDNALabel(s)

\* RFC 6125 as restricted by spec 4.5: same number of labels, equal up to
\* ASCII case, a wildcard standing for exactly the left-most label.
SpecReferenceMatch(presented, reference) ==
  /\ SpecValidDNSID(presented, PresentedID)
  /\ SpecValidDNSID(reference, ReferenceID)
  /\ LET P == LowerLabels(SplitLabels(presented))
         R == LowerLabels(NameLabels(reference, ReferenceID))
     IN /\ Len(P) = Len(R)
        /\ \A i \in DOMAIN P : P[i] = R[i] \/ (i = 1 /\ P[1] = <<"*">>)

\* RFC 5280 4.2.1.10: the name with labels P lies in the subtree of the
\* constraint c.
LabelsInSubtree(P, c) ==
  \/ c = <<>>
  \/ LET C == LowerLabels(NameLabels(c, NameConstraint))
         strict == c[1] = "."
     IN /\ IF strict THEN Len(P) > Len(C) ELSE Len(P) >= Len(C)
        /\ \A i \in 1..Len(C) : LowerLabels(P)[Len(P) - Len(C) + i] = C[i]

\* A label that occurs in no constraint: stands for "any other label".
FreshLabel == <<"?">>

\* Every name a presented ID stands for (for a wildcard: every choice of
\* its left-most label) lies in the subtree of c.
SpecAllInSubtree(presented, c) ==
  LET P == SplitLabels(presented)
  IN IF IsWildcardID(presented)
     THEN LabelsInSubtree(<<FreshLabel>> \o Tail(P), c)
     ELSE LabelsInSubtree(P, c)

\* Some name a presented ID stands for lies in the subtree of c.
SpecSomeInSubtree(presented, c) ==
  LET P == SplitLabels(presented)
      choices == {FreshLabel} \cup
                 {LowerLabel(l) : l \in {SplitLabels(c)[i] : i \in DOMAIN SplitLabels(c)}}
  IN IF IsWildcardID(presented)
     THEN \E l \in choices : LabelsInSubtree(<<l>> \o Tail(P), c)
     ELSE LabelsInSubtree(P, c)
=============================================================================
