----------------------------- MODULE MCHostname -----------------------------
(***************************************************************************)
(* Checks the first step of CheckCertHostname, HostnameReferenceID of     *)
(* PkixNames: which kind of reference ID a hostname is and whether the CN *)
(* may stand in for it.  The code tries the DNS-ID syntax first, then the *)
(* IPv6 and the IPv4 parser; spec 6 lists IPv6, IPv4, then DNS-ID.  The   *)
(* reference here takes the spec's order and the RFC definitions of      *)
(* DNSNameSemantics and IPAddressSemantics, so the check holds only if   *)
(* no hostname is both a reference DNS-ID and an IP literal, and each     *)
(* parser gives the RFC's bytes.  A caller makes one call per initial     *)
(* state: every string of a small alphabet up to a small length, and a   *)
(* few longer literals.                                                   *)
(***************************************************************************)
EXTENDS DNSNameSemantics, IPAddressSemantics, TLC

CONSTANTS
  Alphabet,     \* the bytes hostnames are made of
  MaxInputLen,  \* every string of Alphabet up to this length is tried
  NotReturned   \* model value: the call has not returned yet

LOCAL P == INSTANCE PkixNames
             WITH verification <- <<>>, phase <- "", child <- 0,
                  ncRv <- "", hostRv <- ""

VARIABLES hostname, result
vars == <<hostname, result>>

\* literals longer than MaxInputLen: dotted-quad tails and full forms
LongLiterals ==
  {<<":", ":", "1", ".", "1", ".", "1", ".", "1">>,
   <<"1", ":", ":", "1", ".", "1", ".", "1", ".", "1">>,
   <<"1", "1", "1", ".", "1", ".", "1", ".", "1">>,
   <<"a", "1", ".", "1", ".", "1", ".", "1">>,
   <<"1", ".", "1", ".", "1", ".", "1", ".">>,
   <<"1", ":", "1", ":", "1", ":", "1", ":", "1", ":", "1", ":", "1", ":", "1">>}

Hostnames ==
  UNION {[1..k -> Alphabet] : k \in 0..MaxInputLen} \cup LongLiterals

Init ==
  /\ hostname \in Hostnames
  /\ result = NotReturned

Return ==
  /\ result = NotReturned
  /\ result' = P!HostnameReferenceID(hostname)
  /\ UNCHANGED hostname

Next == Return

Spec == Init /\ [][Next]_vars

\* Spec 6's dispatch over the RFC definitions: an IPv6 literal is an
\* iPAddress reference without CN fallback, an IPv4 literal one with it,
\* anything else a DNS-ID with fallback if it is a valid reference DNS-ID.
\* The all-zero "::" is not taken as a literal: ParseIPv6Address rejects it
\* on purpose (the comment at its contraction check), as MCIPAddress notes.
SpecDispatch(h) ==
  LET v6 == SpecIPv6Address(h)
      v4 == SpecIPv4Address(h)
  IN IF v6.ok /\ h # <<":", ":">> THEN [ok |-> TRUE, type |-> P!iPAddress, id |-> v6.bytes, fallBack |-> FALSE]
     ELSE IF v4.ok THEN [ok |-> TRUE, type |-> P!iPAddress, id |-> v4.bytes, fallBack |-> TRUE]
     ELSE IF SpecValidDNSID(h, ReferenceID)
     THEN [ok |-> TRUE, type |-> P!dNSName, id |-> h, fallBack |-> TRUE]
     ELSE [ok |-> FALSE]

(***************************************************************************)
(* CheckCertHostname classifies every hostname as spec 6 does, although   *)
(* it tries the three syntaxes in another order: the same reference type, *)
(* the same reference bytes and the same CN-fallback decision, and        *)
(* ERROR_BAD_CERT_DOMAIN exactly for the strings none of them accepts.   *)
(***************************************************************************)
HostnameDispatchAgreesWithSpec ==
  result # NotReturned =>
    LET expected == SpecDispatch(hostname)
    IN IF expected.ok THEN result = expected ELSE ~result.ok

=============================================================================
