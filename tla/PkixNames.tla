------------------------------ MODULE PkixNames ------------------------------
(***************************************************************************)
(* The two public entry points of pkixnames.cpp and how a verifier uses  *)
(* them: while a chain is built, CheckNameConstraints runs the constrained *)
(* CA's extension over every descendant certificate (the childCert list); *)
(* once the chain is accepted, CheckCertHostname matches the end-entity   *)
(* certificate against the hostname.  Both call SearchNames; here its     *)
(* result is SearchNamesSpec's Outcome, which MCSearchNames shows the    *)
(* loop-level SearchNames implements.                                     *)
(*                                                                         *)
(* A certificate is [hasSubjectAltName, subjectAltName, subject,          *)
(* endEntity]; BackCert::Init (parsing of the certificate itself) is not  *)
(* modelled.  A verification is [constraints, children, requiredEKU,      *)
(* hostname] with children the descendants, first child first, the end-  *)
(* entity certificate last.                                               *)
(***************************************************************************)
EXTENDS IdentityMatch

LOCAL Search == INSTANCE SearchNamesSpec
                  WITH args <- <<>>, returned <- FALSE, result <- <<>>

\* enum KeyPurposeId (the two values the verifier is called with here)
id_kp_serverAuth == "id_kp_serverAuth"
id_kp_clientAuth == "id_kp_clientAuth"

SearchNames(cert, referenceIDType, referenceID, fallBackToCommonName) ==
  Search!Outcome([subjectAltName |-> cert.subjectAltName,
                  hasSubjectAltName |-> cert.hasSubjectAltName,
                  subject |-> cert.subject,
                  referenceIDType |-> referenceIDType,
                  referenceID |-> referenceID,
                  fallBackToCommonName |-> fallBackToCommonName])

(***************************************************************************)
(* CheckCertHostname: the hostname's syntax picks the reference type and *)
(* whether the CN may be used: a DNS-ID, else an IPv6 literal (no CN),   *)
(* else an IPv4 literal; anything else is ERROR_BAD_CERT_DOMAIN.         *)
(***************************************************************************)
\* The Result for what SearchNames returned.
HostnameResult(search) ==
  IF search.rv # Success THEN search.rv
  ELSE IF search.match = Match THEN Success
  ELSE ERROR_BAD_CERT_DOMAIN

\* mutant of HostnameReferenceID: the CN fallback also for IPv6 literals
HostnameReferenceIDIPv6FallBack(hostname) ==
  LET ipv6 == ParseIPv6Address(hostname)
      ipv4 == ParseIPv4Address(hostname)
  IN IF IsValidReferenceDNSID(hostname)
     THEN [ok |-> TRUE, type |-> dNSName, id |-> hostname, fallBack |-> TRUE]
     ELSE IF ipv6.ok
     THEN [ok |-> TRUE, type |-> iPAddress, id |-> ipv6.bytes, fallBack |-> TRUE]
     ELSE IF ipv4.ok
     THEN [ok |-> TRUE, type |-> iPAddress, id |-> ipv4.bytes, fallBack |-> TRUE]
     ELSE [ok |-> FALSE, type |-> iPAddress, id |-> <<>>, fallBack |-> FALSE]

\* The reference ID the hostname stands for, and whether the CN may be used.
HostnameReferenceID(hostname) ==
  LET ipv6 == ParseIPv6Address(hostname)
      ipv4 == ParseIPv4Address(hostname)
  IN IF IsValidReferenceDNSID(hostname)
     THEN [ok |-> TRUE, type |-> dNSName, id |-> hostname, fallBack |-> TRUE]
     ELSE IF ipv6.ok
     THEN [ok |-> TRUE, type |-> iPAddress, id |-> ipv6.bytes, fallBack |-> FALSE]
     ELSE IF ipv4.ok
     THEN [ok |-> TRUE, type |-> iPAddress, id |-> ipv4.bytes, fallBack |-> TRUE]
     ELSE [ok |-> FALSE, type |-> iPAddress, id |-> <<>>, fallBack |-> FALSE]

SearchHostname(endEntityCert, ref) ==
  IF ~ref.ok THEN ERROR_BAD_CERT_DOMAIN
  ELSE HostnameResult(SearchNames(endEntityCert, ref.type, ref.id, ref.fallBack))

CheckCertHostname(endEntityCert, hostname) ==
  SearchHostname(endEntityCert, HostnameReferenceID(hostname))

\* The Result for what SearchNames returned for a descendant.
ChildResult(r) ==
  IF r.rv # Success THEN r.rv
  ELSE IF r.match = Mismatch THEN ERROR_CERT_NOT_IN_NAME_SPACE
  ELSE Success

\* mutant of CheckNameConstraintsChild: the CN fallback flag inverted
CheckNameConstraintsChildInverted(encodedNameConstraints, child, requiredEKUIfPresent) ==
  ChildResult(SearchNames(child, nameConstraints, encodedNameConstraints,
                          ~(child.endEntity /\ requiredEKUIfPresent = id_kp_serverAuth)))

\* One iteration of CheckNameConstraints' loop over the descendants:
\* [rv, done] with done once the loop returns.
CheckNameConstraintsChild(encodedNameConstraints, child, requiredEKUIfPresent) ==
  LET fallBackToCommonName ==
        child.endEntity /\ requiredEKUIfPresent = id_kp_serverAuth
  IN ChildResult(SearchNames(child, nameConstraints, encodedNameConstraints,
                             fallBackToCommonName))

VARIABLES
  verification,  \* [constraints, children, requiredEKU, hostname]
  phase,         \* "NameConstraints", "Hostname" or "Done"
  child,         \* the index of the descendant CheckNameConstraints is at
  ncRv,          \* what CheckNameConstraints returned, once it has
  hostRv         \* what CheckCertHostname returned, once it has

vars == <<verification, phase, child, ncRv, hostRv>>

NotCalled == "NotCalled"

VerifierInit(verifications) ==
  /\ verification \in verifications
  /\ phase = "NameConstraints"
  /\ child = 1
  /\ ncRv = NotCalled
  /\ hostRv = NotCalled

\* mutant of NameConstraintsStep: the loop runs past the last descendant
NameConstraintsStepPastEnd ==
  LET children == verification.children
      rv == CheckNameConstraintsChild(verification.constraints,
                                      children[child],
                                      verification.requiredEKU)
  IN /\ phase = "NameConstraints"
     /\ IF rv # Success
        THEN /\ ncRv' = rv
             /\ phase' = "Done"
             /\ UNCHANGED child
        ELSE IF child > Len(children)
        THEN /\ ncRv' = Success
             /\ phase' = "Hostname"
             /\ UNCHANGED child
        ELSE /\ child' = child + 1
             /\ UNCHANGED <<ncRv, phase>>
     /\ UNCHANGED <<verification, hostRv>>

\* What the verifier does with the Result rv for the current descendant.
AfterChild(rv) ==
  IF rv # Success
  THEN /\ ncRv' = rv
       /\ phase' = "Done"
       /\ UNCHANGED child
  ELSE IF child = Len(verification.children)
  THEN /\ ncRv' = Success
       /\ phase' = "Hostname"
       /\ UNCHANGED child
  ELSE /\ child' = child + 1
       /\ UNCHANGED <<ncRv, phase>>

\* CheckNameConstraints checks one descendant; an error ends chain
\* building, success on the last one accepts the chain.
NameConstraintsStep ==
  /\ phase = "NameConstraints"
  /\ AfterChild(CheckNameConstraintsChild(verification.constraints,
                                          verification.children[child],
                                          verification.requiredEKU))
  /\ UNCHANGED <<verification, hostRv>>

\* The application checks the accepted end-entity certificate's names.
HostnameStep ==
  /\ phase = "Hostname"
  /\ hostRv' = CheckCertHostname(verification.children[Len(verification.children)],
                                 verification.hostname)
  /\ phase' = "Done"
  /\ UNCHANGED <<verification, child, ncRv>>

VerifierNext == NameConstraintsStep \/ HostnameStep
=============================================================================
