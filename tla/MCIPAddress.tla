----------------------------- MODULE MCIPAddress -----------------------------
(***************************************************************************)
(* Checks ParseIPv4Address and ParseIPv6Address of IPAddress against     *)
(* IPAddressSemantics over generated literals: dotted quads of a few     *)
(* decimal fields, colon-separated forms of up to nine hex fields with    *)
(* every placement of "::" (and two of them), a dotted-quad tail, over-  *)
(* long fields, and every short string of a small alphabet.               *)
(***************************************************************************)
EXTENDS IPAddress, IPAddressSemantics, TLC
LOCAL INSTANCE SequencesExt

CONSTANTS
  MaxFields,    \* the most fields of a generated literal
  ShortLen,     \* every string of ShortAlphabet up to this length is tried
  ShortAlphabet,
  NotReturned   \* model value: the call has not returned yet

VARIABLES hostname, result
vars == <<hostname, result>>

Colons(n) == [i \in 1..n |-> ":"]

\* decimal fields joined by '.'
DecimalTokens == {<<"0">>, <<"0","0">>, <<"7">>, <<"2","5">>, <<"2","5","5">>,
                  <<"2","5","6">>, <<"1","2","3","4">>}
DottedCandidates ==
  UNION {{FlattenSeq([i \in 1..k |-> IF i < k THEN t[i] \o <<".">> ELSE t[i]]) :
          t \in [1..k -> DecimalTokens]} : k \in 1..5}

\* hex fields "1", "2", ... joined by ':' or "::", one field possibly
\* four or five digits long, the last possibly a dotted quad
HexToken(i) == <<<<"1","2","3","4","5","6","7","8","9">>[i]>>
Long4 == <<"a", "B", "0", "f">>
Long5 == <<"1", "2", "3", "4", "5">>
Quad == <<"1", ".", "2", ".", "3", ".", "4">>
ColonCandidates ==
  UNION {
    { LET tok(i) == IF i = k /\ last = "quad" THEN Quad
                    ELSE IF <<variant, i>> \in {<<"long4", 1>>, <<"long5", k>>}
                         THEN IF variant = "long4" THEN Long4 ELSE Long5
                    ELSE HexToken(i)
          sep(i) == IF i \in doubles THEN Colons(2) ELSE Colons(1)
      IN Colons(lead)
         \o FlattenSeq([i \in 1..k |-> IF i < k THEN tok(i) \o sep(i) ELSE tok(i)])
         \o Colons(trail) :
      lead \in 0..2, trail \in 0..2, last \in {"hex", "quad"},
      variant \in {"none", "long4", "long5"},
      doubles \in {D \in SUBSET (1..k - 1) : Cardinality(D) <= 2} }
    : k \in 0..MaxFields }

ShortCandidates == UNION {[1..k -> ShortAlphabet] : k \in 0..ShortLen}

Candidates == DottedCandidates \cup ColonCandidates \cup ShortCandidates

Init ==
  /\ hostname \in Candidates
  /\ result = NotReturned

Return ==
  /\ result = NotReturned
  /\ result' = [v4 |-> ParseIPv4Address(hostname),
                v6 |-> ParseIPv6Address(hostname),
                v6Top |-> IPv6Parse(hostname).top]
  /\ UNCHANGED hostname

Spec == Init /\ [][Return]_vars

(***************************************************************************)
(* ParseIPv6Address never writes, or takes the 4-byte dotted-quad array, *)
(* past out[15], whatever the input: "too many components" (1486) stops *)
(* a ninth hex component and the check before the IPv4 component (1455) *)
(* a dotted quad after the sixth, whether or not the parse then fails.   *)
(***************************************************************************)
WritesWithinOut ==
  result # NotReturned => result.v6Top <= 15

(***************************************************************************)
(* ParseIPv4Address (with ReadIPv4AddressComponent) accepts exactly the  *)
(* dotted quads of four decimal fields 0..255 without leading zeros, and *)
(* yields their values.                                                   *)
(***************************************************************************)
IPv4ParserAgreesWithSpec ==
  result # NotReturned => result.v4 = SpecIPv4Address(hostname)

(***************************************************************************)
(* ParseIPv6Address (with FinishIPv6Address) accepts exactly the RFC 4291 *)
(* text forms, and places every field (those after "::" moved to the end, *)
(* the gap zero-filled, a dotted-quad tail as the last four bytes) where  *)
(* the RFC says -- except the all-zero "::", which the code rejects on    *)
(* purpose (the source's comment at the contraction check).               *)
(***************************************************************************)
IPv6ParserAgreesWithSpec ==
  result # NotReturned /\ hostname # <<":", ":">> =>
    result.v6 = SpecIPv6Address(hostname)
=============================================================================
