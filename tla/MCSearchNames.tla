---------------------------- MODULE MCSearchNames ----------------------------
(***************************************************************************)
(* One SearchNames call over every combination of a few subjectAltName   *)
(* entries, subject RDNs, reference IDs and the fallback flag.            *)
(***************************************************************************)
EXTENDS SearchNames, TLC

CONSTANTS
  MaxSANs,  \* the most subjectAltName entries of a certificate
  MaxRDNs   \* the most RDNs of a subject

\* byte strings
ab   == <<"a", ".", "b">>
Ab   == <<"A", ".", "b">>
cb   == <<"c", ".", "b">>
b    == <<"b">>
v4s  == <<"1", ".", "2", ".", "3", ".", "4">>
x    == <<"x">>

\* addresses and constraints as bytes
v4   == <<1, 2, 3, 4>>
v6   == <<0, 0, 0, 0, 0, 0, 0, 0, 0, 0, 0, 0, 0, 0, 0, 1>>
net  == <<1, 2, 3, 0, 255, 255, 255, 0>>

\* AVAs and RDNs
organization == "organization"
RDNOrg   == <<[type |-> organization, tag |-> PrintableString, value |-> x]>>
RDNCN    == <<[type |-> commonName, tag |-> PrintableString, value |-> ab]>>
RDNCNIP  == <<[type |-> commonName, tag |-> UTF8String, value |-> v4s]>>
RDNCNBMP == <<[type |-> commonName, tag |-> "BMPString", value |-> ab]>>
RDNTwo   == <<[type |-> organization, tag |-> PrintableString, value |-> x],
              [type |-> commonName, tag |-> TeletexString, value |-> cb]>>
RDNs == {RDNOrg, RDNCN, RDNCNIP, RDNCNBMP, RDNTwo, <<>>}

\* GeneralNames
GNs == {[type |-> dNSName, value |-> ab], [type |-> dNSName, value |-> cb],
        [type |-> iPAddress, value |-> v4], [type |-> rfc822Name, value |-> x],
        [type |-> directoryName, value |-> <<RDNOrg>>],
        [type |-> "unknownTag", value |-> x]}

SeqsUpTo(S, n) == UNION {[1..k -> S] : k \in 0..n}

Subtree(type, value) == [base |-> [type |-> type, value |-> value],
                         extra |-> FALSE]

Constraints ==
  { <<[tag |-> permittedSubtrees, subtrees |-> <<Subtree(dNSName, b)>>]>>,
    <<[tag |-> excludedSubtrees, subtrees |-> <<Subtree(dNSName, cb)>>]>>,
    <<[tag |-> permittedSubtrees,
       subtrees |-> <<Subtree(iPAddress, net), Subtree(directoryName, <<RDNOrg>>)>>]>> }

ReferenceIDs ==
  [referenceIDType : {dNSName}, referenceID : {ab, cb}] \cup
  [referenceIDType : {iPAddress}, referenceID : {v4, v6}] \cup
  [referenceIDType : {nameConstraints}, referenceID : Constraints]

Certs ==
  [hasSubjectAltName : {FALSE}, subjectAltName : {<<>>},
   subject : SeqsUpTo(RDNs, MaxRDNs)] \cup
  [hasSubjectAltName : {TRUE}, subjectAltName : SeqsUpTo(GNs, MaxSANs),
   subject : SeqsUpTo(RDNs, MaxRDNs)]

Calls ==
  { [subjectAltName |-> c.subjectAltName,
     hasSubjectAltName |-> c.hasSubjectAltName, subject |-> c.subject,
     referenceIDType |-> r.referenceIDType, referenceID |-> r.referenceID,
     fallBackToCommonName |-> f] : c \in Certs, r \in ReferenceIDs, f \in BOOLEAN }

Init == \E a \in Calls : SearchStarted(a)

Spec == Init /\ [][SearchStep]_searchVars

Abstract == INSTANCE SearchNamesSpec WITH
  returned <- pc = "Done",
  result <- IF pc = "Done"
            THEN [rv |-> rv,
                  match |-> IF rv = Success THEN match ELSE NoNamesOfGivenType]
            ELSE [rv |-> Success, match |-> NoNamesOfGivenType]

\* the loop indices stay within the input they walk
TypeOK ==
  /\ pc \in {"SAN", "Subject", "CN", "Done"}
  /\ pc = "SAN" => \/ sanIndex \in DOMAIN args.subjectAltName
                   \/ args.subjectAltName = <<>> /\ sanIndex = 1
  /\ pc = "CN" => /\ rdnIndex \in DOMAIN args.subject
                  /\ \/ avaIndex \in DOMAIN args.subject[rdnIndex]
                     \/ args.subject[rdnIndex] = <<>> /\ avaIndex = 1
  /\ match \in MatchResults
  /\ hasAtLeastOneDNSNameOrIPAddressSAN \in BOOLEAN
  /\ rv \in {Success, ERROR_BAD_DER, ERROR_CERT_NOT_IN_NAME_SPACE,
             FATAL_ERROR_LIBRARY_FAILURE}

(***************************************************************************)
(* SearchNames implements its atomic specification: whatever the order of *)
(* subjectAltName entries and subject AVAs, the loop returns what the     *)
(* selection rule says -- the first entry that ends the loop decides, a   *)
(* dNSName or iPAddress SAN suppresses the CN fallback, and only the last *)
(* CN of the subject counts (each CN resets the match).                   *)
(***************************************************************************)
ImplementsSearchNamesSpec ==
  /\ Abstract!SpecInit(Calls)
  /\ [][Abstract!SpecNext]_Abstract!specVars

=============================================================================
