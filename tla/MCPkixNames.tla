----------------------------- MODULE MCPkixNames -----------------------------
(***************************************************************************)
(* A verifier over small chains: one constrained CA's extension, at most *)
(* one intermediate and an end-entity certificate, a required EKU and a   *)
(* hostname.  The end-to-end question: a hostname the end-entity          *)
(* certificate is accepted for, on a chain that passed the name           *)
(* constraints, lies inside those constraints.                            *)
(***************************************************************************)
EXTENDS PkixNames, DNSNameSemantics, IPAddressSemantics, TLC
LOCAL INSTANCE SequencesExt

CONSTANTS
  DNSSANValues  \* the dNSName values an end-entity SAN may carry

\* byte strings
ab   == <<"a", ".", "b">>
abAbs == <<"a", ".", "b", ".">>
acb  == <<"a", ".", "c", ".", "b">>
dcb  == <<"d", ".", "c", ".", "b">>
wcb  == <<"*", ".", "c", ".", "b">>
b    == <<"b">>
cb   == <<"c", ".", "b">>
dotcb == <<".", "c", ".", "b">>
x    == <<"x">>
v4s  == <<"1", ".", "2", ".", "3", ".", "4">>
v4s2 == <<"5", ".", "6", ".", "7", ".", "8">>
v6s  == <<":", ":", "1">>

\* addresses
v4   == <<1, 2, 3, 4>>
v4b  == <<5, 6, 7, 8>>
v6   == <<0, 0, 0, 0, 0, 0, 0, 0, 0, 0, 0, 0, 0, 0, 0, 1>>
net  == <<1, 2, 3, 0, 255, 255, 255, 0>>
badNet == <<1, 2, 3, 0, 255>>   \* an iPAddress base of neither 8 nor 32 bytes

\* the DNS-ID syntax of each ASCII hostname, independent of the parsers
PlainPresented == {ab, acb, dcb}
WithWildcard   == {ab, acb, dcb, wcb}
DNSHostnames   == {ab, abAbs, acb, dcb}
HostAddress(h) == CASE h = v4s -> v4 [] h = v4s2 -> v4b [] h = v6s -> v6
Hostnames == DNSHostnames \cup {v4s, v4s2, v6s}

organization == "organization"
RDNOrg  == <<[type |-> organization, tag |-> PrintableString, value |-> x]>>
RDNCN   == <<[type |-> commonName, tag |-> PrintableString, value |-> ab]>>
RDNCNd  == <<[type |-> commonName, tag |-> UTF8String, value |-> dcb]>>
RDNCNIP == <<[type |-> commonName, tag |-> TeletexString, value |-> v4s2]>>

SeqsUpTo(S, n) == UNION {[1..k -> S] : k \in 0..n}

GNs == {[type |-> dNSName, value |-> v] : v \in DNSSANValues} \cup
       {[type |-> iPAddress, value |-> v4], [type |-> rfc822Name, value |-> x]}

EndEntityCerts ==
  [hasSubjectAltName : {FALSE}, subjectAltName : {<<>>},
   subject : SeqsUpTo({RDNOrg, RDNCN, RDNCNd, RDNCNIP}, 2),
   endEntity : {TRUE}] \cup
  [hasSubjectAltName : {TRUE},
   subjectAltName : SeqsUpTo(GNs, 2) \ {<<>>},
   subject : SeqsUpTo({RDNOrg, RDNCN, RDNCNd, RDNCNIP}, 1),
   endEntity : {TRUE}]

Intermediate == [hasSubjectAltName |-> FALSE, subjectAltName |-> <<>>,
                 subject |-> <<RDNOrg>>, endEntity |-> FALSE]

Subtree(type, value) == [base |-> [type |-> type, value |-> value],
                         extra |-> FALSE]
Permit(s) == [tag |-> permittedSubtrees, subtrees |-> s]
Exclude(s) == [tag |-> excludedSubtrees, subtrees |-> s]

Constraints ==
  { <<Permit(<<Subtree(dNSName, b)>>)>>,
    <<Permit(<<Subtree(dNSName, acb)>>)>>,
    <<Permit(<<Subtree(dNSName, dotcb)>>)>>,
    <<Permit(<<Subtree(dNSName, b)>>), Exclude(<<Subtree(dNSName, cb)>>)>>,
    <<Permit(<<Subtree(iPAddress, net)>>)>>,
    <<Permit(<<Subtree(iPAddress, net), Subtree(directoryName, <<RDNOrg>>)>>)>>,
    <<Permit(<<Subtree(iPAddress, badNet)>>)>>,
    <<Permit(<<Subtree(directoryName, <<RDNOrg, RDNCN>>)>>)>>,
    <<Exclude(<<Subtree(directoryName, <<RDNOrg>>)>>)>>,
    <<Exclude(<<Subtree(directoryName, <<>>)>>)>> }

Verifications ==
  [constraints : Constraints,
   children : {<<ee>> : ee \in EndEntityCerts} \cup
              {<<Intermediate, ee>> : ee \in EndEntityCerts},
   requiredEKU : {id_kp_serverAuth, id_kp_clientAuth},
   hostname : Hostnames]

Init == VerifierInit(Verifications)
Next == VerifierNext
Spec == Init /\ [][Next]_vars

TypeOK ==
  /\ phase \in {"NameConstraints", "Hostname", "Done"}
  /\ child \in 1..Len(verification.children)
  /\ ncRv \in {NotCalled, Success, ERROR_BAD_DER, ERROR_CERT_NOT_IN_NAME_SPACE,
               FATAL_ERROR_LIBRARY_FAILURE}
  /\ hostRv \in {NotCalled, Success, ERROR_BAD_DER, ERROR_BAD_CERT_DOMAIN}

\* the base values of the subtrees of one kind and one name type
Bases(constraints, tag, type) ==
  LET subtrees == UNION {Range(e.subtrees) : e \in {e \in Range(constraints) :
                                                     e.tag = tag}}
  IN {st.base.value : st \in {st \in subtrees : st.base.type = type}}

\* the hostname lies in some permitted subtree of its type, when there is
\* one, and in no excluded subtree of its type
HostnameInConstraints(h, constraints) ==
  LET isDNS == h \in DNSHostnames
      type == IF isDNS THEN dNSName ELSE iPAddress
      in(c) == IF isDNS THEN LabelsInSubtree(NameLabels(h, ReferenceID), c)
               ELSE InIPSubtree(HostAddress(h), c)
      permitted == Bases(constraints, permittedSubtrees, type)
      excluded == Bases(constraints, excludedSubtrees, type)
  IN /\ permitted = {} \/ \E c \in permitted : in(c)
     /\ \A c \in excluded : ~in(c)

(***************************************************************************)
(* The identities CheckNameConstraints holds a descendant to, stated from *)
(* RFC 5280 and spec 4.8 rather than from SearchNames: every              *)
(* subjectAltName entry, the subject as a directoryName, and, when the CN *)
(* fallback applies and no dNSName or iPAddress SAN exists, the last      *)
(* commonName of the subject if it is a CN-ID: a string encoding holding  *)
(* a presented DNS-ID or a dotted-quad IPv4 address.                      *)
(***************************************************************************)
CNIdentities(subject) ==
  LET avas == FlattenSeq(subject)
      last == SelectLastInSeq(avas, LAMBDA ava : ava.type = commonName)
      v == avas[last].value
  IN IF last = 0 \/ avas[last].tag \notin CNIDEncodings THEN {}
     ELSE IF SpecValidDNSID(v, PresentedID) THEN {[type |-> dNSName, value |-> v]}
     ELSE IF SpecIPv4Address(v).ok
     THEN {[type |-> iPAddress, value |-> SpecIPv4Address(v).bytes]}
     ELSE {}

Identities(cert, fallBack) ==
  LET san == Range(cert.subjectAltName)
  IN {[type |-> g.type, value |-> g.value] : g \in san}
     \cup {[type |-> directoryName, value |-> cert.subject]}
     \cup IF fallBack /\ \A g \in san : g.type \notin {dNSName, iPAddress}
          THEN CNIdentities(cert.subject) ELSE {}

\* what the constraints say of each identity of each descendant
IdentityResults(v) ==
  UNION {{CheckPresentedIDConformsToConstraints(id.type, id.value, v.constraints) :
          id \in Identities(v.children[i],
                            v.children[i].endEntity /\ v.requiredEKU = id_kp_serverAuth)} :
         i \in DOMAIN v.children}

(***************************************************************************)
(* RFC 5280 4.2.1.10 for one identity: it lies in some permitted subtree *)
(* of its type when there is one, and in no excluded subtree of its type. *)
(* A DNS name is within a subtree by whole labels, an address within a    *)
(* subnet bit by bit, and a directoryName when the constraint's RDNs are  *)
(* a prefix of its RDNs.                                                  *)
(***************************************************************************)
InSubtree(id, c) ==
  CASE id.type = dNSName -> LabelsInSubtree(NameLabels(id.value, PresentedID), c)
    [] id.type = iPAddress -> InIPSubtree(id.value, c)
    [] id.type = directoryName -> IsPrefix(c, id.value)
    [] OTHER -> FALSE

Conforms(id, constraints) ==
  /\ \/ Bases(constraints, permittedSubtrees, id.type) = {}
     \/ \E c \in Bases(constraints, permittedSubtrees, id.type) : InSubtree(id, c)
  /\ \A c \in Bases(constraints, excludedSubtrees, id.type) : ~InSubtree(id, c)

\* RFC 5280 applies directoryName constraints to the subject only when it
\* is not empty.
RFCIdentities(cert, fallBack) ==
  {id \in Identities(cert, fallBack) :
     ~(id.type = directoryName /\ id.value = <<>>)}

(***************************************************************************)
(* Every identity of every certificate below the constrained CA lies     *)
(* within the CA's constraints as RFC 5280 defines them, once            *)
(* CheckNameConstraints has accepted the chain.  It covers the            *)
(* intermediate and the end entity, SAN entries, the subject and the CN- *)
(* ID, and directoryName constraints, which the code matches by its own *)
(* rules: permitted subtrees by RDN-prefix equality, and excluded ones by *)
(* rejecting every non-empty constraint (pkixnames.cpp 1227-1233) instead *)
(* of comparing.                                                          *)
(***************************************************************************)
AcceptedChainWithinConstraints ==
  phase # "NameConstraints" /\ ncRv = Success =>
    \A i \in DOMAIN verification.children :
      \A id \in RFCIdentities(verification.children[i],
                              verification.children[i].endEntity
                                /\ verification.requiredEKU = id_kp_serverAuth) :
        Conforms(id, verification.constraints)

(***************************************************************************)
(* A chain CheckNameConstraints accepts presents no identity the         *)
(* constraints reject on their own: an error CheckPresentedIDConforms-   *)
(* ToConstraints reports for a CN-ID (SearchWithinAVA turns it into      *)
(* Mismatch) must still fail the chain, as it does for a SAN entry       *)
(* (SearchNames returns it).  This relates the per-identity check to the *)
(* verdict over the whole chain, through the SAN loop, the subject check *)
(* and the CN selection.                                                  *)
(***************************************************************************)
AcceptedChainConforms ==
  phase # "NameConstraints" /\ ncRv = Success =>
    IdentityResults(verification) = {Success}

(***************************************************************************)
(* Spec 7: CheckNameConstraints returns ErrBadDer on malformed            *)
(* constraints.  Stated for a chain where the only thing the constraints  *)
(* reject about any identity is that a subtree of its type is malformed: *)
(* then the verdict is ERROR_BAD_DER, whether the identity is a SAN entry *)
(* or a CN-ID.                                                            *)
(***************************************************************************)
MalformedConstraintsAreBadDER ==
  /\ phase # "NameConstraints"
  /\ ERROR_BAD_DER \in IdentityResults(verification)
  /\ IdentityResults(verification) \subseteq {Success, ERROR_BAD_DER}
  => ncRv = ERROR_BAD_DER

(***************************************************************************)
(* A server certificate accepted for a hostname is never outside its     *)
(* CA's name constraints: when CheckNameConstraints accepted the chain    *)
(* for serverAuth and CheckCertHostname then accepted the end-entity      *)
(* certificate for the hostname, the hostname itself lies in the          *)
(* permitted and outside the excluded subtrees.  This is what running     *)
(* both checks through the one SearchNames traversal is for: whatever    *)
(* identity the hostname matched (a SAN entry, or the last CN when the    *)
(* CN fallback applies) was also the identity the constraints checked.    *)
(***************************************************************************)
HostnameWithinNameConstraints ==
  /\ phase = "Done" /\ ncRv = Success /\ hostRv = Success
  /\ verification.requiredEKU = id_kp_serverAuth
  => HostnameInConstraints(verification.hostname, verification.constraints)
=============================================================================
