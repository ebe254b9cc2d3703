---------------------------- MODULE MCIPConstraint ----------------------------
(***************************************************************************)
(* Checks MatchPresentedIPAddressWithConstraint of NameConstraints (the   *)
(* iPAddress case of name-constraint matching) against the bit-level      *)
(* subnet rule of IPAddressSemantics.  A caller makes one call: a         *)
(* presented address against an address-and-mask constraint.  The inputs *)
(* are an IPv4 address and each of its 32 one-bit neighbours, against    *)
(* constraints built from any of those addresses and every /0../32 mask  *)
(* or a mask that is not a prefix (so constraint address bits outside the *)
(* mask occur); IPv6 addresses against /0, /64, /127, /128 constraints;   *)
(* each family against the other's constraints; and values of the wrong *)
(* length.                                                                *)
(***************************************************************************)
EXTENDS NameConstraints, IPAddressSemantics, TLC

CONSTANTS
  Calls,        \* the calls checked
  NotReturned   \* model value: the call has not returned yet

VARIABLES call, result
vars == <<call, result>>

\* a with bit k of byte i inverted
Flip(a, i, k) == [a EXCEPT ![i] = a[i] ^^ (2^k)]

\* the mask of a /n prefix over len bytes, most significant byte first
PrefixMask(len, n) ==
  [i \in 1..len |->
     LET b == IF n >= 8 * i THEN 8 ELSE IF n <= 8 * (i - 1) THEN 0
              ELSE n - 8 * (i - 1)
     IN 256 - 2^(8 - b)]

V4Base == <<192, 0, 2, 1>>
V4Addresses == {V4Base} \cup {Flip(V4Base, i, k) : i \in 1..4, k \in 0..7}
V4Masks == {PrefixMask(4, n) : n \in 0..32} \cup {<<255, 0, 255, 0>>, <<0, 0, 0, 1>>}
V4Constraints == {a \o m : a \in V4Addresses, m \in V4Masks}

V6Base == [i \in 1..16 |-> IF i = 1 THEN 32 ELSE IF i = 16 THEN 1 ELSE 0]
V6Addresses == {V6Base, Flip(V6Base, 16, 0), Flip(V6Base, 8, 7), Flip(V6Base, 1, 7)}
V6Constraints == {V6Base \o PrefixMask(16, n) : n \in {0, 64, 127, 128}}

\* lengths neither family has
BadAddresses == {<<192, 0, 2>>, <<192, 0, 2, 1, 0>>}
BadConstraints == {<<192, 0, 2, 1, 255, 255, 255>>, V6Base}

IPConstraintCalls ==
  [p : V4Addresses, c : V4Constraints]
  \cup [p : V4Addresses \cup V6Addresses, c : V6Constraints \cup {V4Base \o PrefixMask(4, 24)}]
  \cup [p : BadAddresses, c : {V4Base \o PrefixMask(4, 24)}]
  \cup [p : {V4Base}, c : BadConstraints]

Init ==
  /\ call \in Calls
  /\ result = NotReturned

Return ==
  /\ result = NotReturned
  /\ result' = MatchPresentedIPAddressWithConstraint(call.p, call.c)
  /\ UNCHANGED call

Next == Return

Spec == Init /\ [][Next]_vars

Returned == result # NotReturned

(***************************************************************************)
(* MatchPresentedIPAddressWithConstraint reports BAD_DER for a presented *)
(* value that is not 4 or 16 bytes or a constraint that is not 8 or 32,   *)
(* and otherwise matches exactly when the address lies in the subnet:     *)
(* same family, and equal to the constraint address on every bit the mask *)
(* sets, whatever the constraint address holds outside the mask and       *)
(* whether or not the mask is a prefix.                                   *)
(***************************************************************************)
IPConstraintAgreesWithSubnet ==
  Returned =>
    IF Len(call.p) \in {4, 16} /\ Len(call.c) \in {8, 32}
    THEN result = [rv |-> Success, matches |-> InIPSubtree(call.p, call.c)]
    ELSE result.rv = ERROR_BAD_DER

=============================================================================
