------------------------------- MODULE MCDNSID -------------------------------
(***************************************************************************)
(* Checks the DNS-ID operators of DNSID against DNSNameSemantics over     *)
(* every byte string of a small alphabet up to a small length.  A caller  *)
(* makes one call (Init picks its arguments) and the call returns.        *)
(***************************************************************************)
EXTENDS DNSNameSemantics, TLC

CONSTANTS
  Alphabet,     \* the bytes strings are made of
  MaxInputLen,  \* the longest string enumerated
  Calls,        \* the calls checked: SyntaxCalls or MatchCalls
  NotReturned   \* model value: the call has not returned yet

VARIABLES call, result
vars == <<call, result>>

Strings(n) == UNION {[1..k -> Alphabet] : k \in 0..n}

\* IsValidDNSID in every mode over every string.
SyntaxCalls ==
  [op : {"IsValidDNSID"}, s : Strings(MaxInputLen),
   matchType : ValidDNSIDMatchTypes]

\* PresentedDNSIDMatchesReferenceDNSID in mode mt over every pair of short
\* strings and every pair of longer ones that are syntactically valid in
\* their role.
MatchCallsIn(mt) ==
  LET short == Strings(MaxInputLen - 1)
      long == Strings(MaxInputLen) \ short
      presented == short \cup {s \in long : SpecValidDNSID(s, PresentedID)}
      reference == short \cup {s \in long : SpecValidDNSID(s, mt)}
  IN [op : {"Match"}, p : presented, matchType : {mt}, r : reference]

ReferenceMatchCalls == MatchCallsIn(ReferenceID)

ConstraintMatchCalls == MatchCallsIn(NameConstraint)
MatchCalls == ReferenceMatchCalls \cup ConstraintMatchCalls

Init ==
  /\ call \in Calls
  /\ result = NotReturned

Return ==
  /\ result = NotReturned
  /\ result' = IF call.op = "IsValidDNSID"
               THEN IsValidDNSID(call.s, call.matchType)
               ELSE PresentedDNSIDMatchesReferenceDNSID(call.p, call.matchType,
                                                        call.r)
  /\ UNCHANGED call

Next == Return

Spec == Init /\ [][Next]_vars

Returned == result # NotReturned

(***************************************************************************)
(* IsValidDNSID accepts exactly the strings of spec 4.2 in each mode:     *)
(* label length, hyphen placement, the all-numeric last label, the        *)
(* trailing dot only for reference IDs, the leading dot and the empty     *)
(* string only for constraints, the wildcard only for presented IDs and   *)
(* followed by two labels.                                                *)
(***************************************************************************)
SyntaxAgreesWithSpec ==
  Returned /\ call.op = "IsValidDNSID" =>
    result = SpecValidDNSID(call.s, call.matchType)

(***************************************************************************)
(* PresentedDNSIDMatchesReferenceDNSID in ReferenceID mode is RFC 6125    *)
(* matching: equal label by label up to ASCII case, a relative presented  *)
(* ID matching an absolute reference, a wildcard covering exactly the     *)
(* left-most label.                                                       *)
(***************************************************************************)
ReferenceMatchAgreesWithSpec ==
  Returned /\ call.op = "Match" /\ call.matchType = ReferenceID =>
    result = SpecReferenceMatch(call.p, call.r)

(***************************************************************************)
(* In NameConstraint mode a presented ID without wildcard matches exactly *)
(* when it lies in the constraint's subtree: whole labels added on the    *)
(* left, none required for a plain constraint, at least one for a         *)
(* '.'-constraint, the empty constraint matching everything.              *)
(***************************************************************************)
ConstraintMatchAgreesWithSpec ==
  Returned /\ call.op = "Match" /\ call.matchType = NameConstraint
    /\ ~IsWildcardID(call.p) =>
      result = /\ SpecValidDNSID(call.p, PresentedID)
               /\ SpecValidDNSID(call.r, NameConstraint)
               /\ SpecAllInSubtree(call.p, call.r)

(***************************************************************************)
(* An excluded dNSName subtree is never bypassed by a wildcard: when some *)
(* name a valid wildcard presented ID stands for lies in the subtree of a *)
(* valid constraint, the constraint matches it (and excludedSubtrees then *)
(* rejects the certificate).                                              *)
(***************************************************************************)
ExcludedConstraintSound ==
  Returned /\ call.op = "Match" /\ call.matchType = NameConstraint
    /\ SpecValidDNSID(call.p, PresentedID)
    /\ SpecValidDNSID(call.r, NameConstraint)
    /\ SpecSomeInSubtree(call.p, call.r) => result

=============================================================================
