-------------------------- MODULE IPAddressSemantics --------------------------
(***************************************************************************)
(* What the IP literal parsers promise, stated over fields rather than a *)
(* byte cursor: RFC 791 dotted-quad (four decimal fields 0..255, no       *)
(* leading zero) and RFC 4291 section 2.2 text forms (eight fields of 1-4 *)
(* hex digits, at most one "::" standing for one or more zero fields, an  *)
(* optional dotted-quad for the last two fields).  These are the          *)
(* reference definitions IPAddress is checked against.                    *)
(***************************************************************************)
EXTENDS Integers, Sequences
LOCAL INSTANCE SequencesExt

\* the fields of s between the separator c (one more than there are c's)
RECURSIVE SplitOn(_, _)
SplitOn(s, c) ==
  LET i == SelectInSeq(s, LAMBDA e : e = c)
  IN IF i = 0 THEN <<s>>
     ELSE <<SubSeq(s, 1, i - 1)>> \o SplitOn(SubSeq(s, i + 1, Len(s)), c)

DigitOf == [d \in {"0","1","2","3","4","5","6","7","8","9"} |->
              CASE d = "0" -> 0 [] d = "1" -> 1 [] d = "2" -> 2 [] d = "3" -> 3
                [] d = "4" -> 4 [] d = "5" -> 5 [] d = "6" -> 6 [] d = "7" -> 7
                [] d = "8" -> 8 [] d = "9" -> 9]
HexDigitOf == DigitOf @@
  [d \in {"a","b","c","d","e","f","A","B","C","D","E","F"} |->
     CASE d \in {"a","A"} -> 10 [] d \in {"b","B"} -> 11 [] d \in {"c","C"} -> 12
       [] d \in {"d","D"} -> 13 [] d \in {"e","E"} -> 14 [] d \in {"f","F"} -> 15]

\* the value of a field of digits in base radix
FieldValue(f, digits, radix) ==
  FoldLeft(LAMBDA acc, d : acc * radix + digits[d], 0, f)

IsField(f, digits, maxLen) ==
  /\ 1 <= Len(f) /\ Len(f) <= maxLen
  /\ \A i \in DOMAIN f : f[i] \in DOMAIN digits

IsDecimalOctet(f) ==
  /\ IsField(f, DigitOf, 3)
  /\ Len(f) = 1 \/ f[1] # "0"
  /\ FieldValue(f, DigitOf, 10) <= 255

NoAddress == [ok |-> FALSE, bytes |-> <<>>]

SpecIPv4Address(s) ==
  LET F == SplitOn(s, ".")
  IN IF Len(F) = 4 /\ \A i \in 1..4 : IsDecimalOctet(F[i])
     THEN [ok |-> TRUE, bytes |-> [i \in 1..4 |-> FieldValue(F[i], DigitOf, 10)]]
     ELSE NoAddress

IsHexField(f) == IsField(f, HexDigitOf, 4)

\* the fields of one side of a "::" (none when the side is empty)
Fields(side) == IF side = <<>> THEN <<>> ELSE SplitOn(side, ":")

\* [ok, bytes] of a sequence of fields of which only the last may be a
\* dotted quad
FieldsBytes(F) ==
  LET hexBytes(f) == LET v == FieldValue(f, HexDigitOf, 16)
                     IN <<v \div 256, v % 256>>
      last == F[Len(F)]
      tail == SpecIPv4Address(last)
      ok == \A i \in 1..Len(F) - 1 : IsHexField(F[i])
  IN IF F = <<>> THEN [ok |-> TRUE, bytes |-> <<>>]
     ELSE IF ok /\ IsHexField(last)
     THEN [ok |-> TRUE, bytes |-> FlattenSeq([i \in DOMAIN F |-> hexBytes(F[i])])]
     ELSE IF ok /\ tail.ok
     THEN [ok |-> TRUE,
           bytes |-> FlattenSeq([i \in 1..Len(F) - 1 |-> hexBytes(F[i])]) \o tail.bytes]
     ELSE NoAddress

SpecIPv6Address(s) ==
  LET doubles == {i \in 1..Len(s) - 1 : s[i] = ":" /\ s[i + 1] = ":"}
      d == CHOOSE i \in doubles : TRUE
      left == FieldsBytes(Fields(SubSeq(s, 1, d - 1)))
      right == FieldsBytes(Fields(SubSeq(s, d + 2, Len(s))))
      leftHasTail == d > 1 /\ ~IsHexField(Last(Fields(SubSeq(s, 1, d - 1))))
      whole == FieldsBytes(SplitOn(s, ":"))
  IN IF doubles = {}
     THEN IF whole.ok /\ Len(whole.bytes) = 16 THEN whole ELSE NoAddress
     ELSE IF Cardinality(doubles) = 1 /\ left.ok /\ right.ok /\ ~leftHasTail
             /\ Len(left.bytes) + Len(right.bytes) <= 14
     THEN [ok |-> TRUE,
           bytes |-> left.bytes
                     \o [i \in 1..16 - Len(left.bytes) - Len(right.bytes) |-> 0]
                     \o right.bytes]
     ELSE NoAddress

(***************************************************************************)
(* RFC 5280 section 4.2.1.10: an iPAddress constraint is an address      *)
(* followed by a mask of the same length; an address lies in it when it  *)
(* agrees with the constraint's address on every bit the mask sets.  The *)
(* definition is bit by bit, so it also gives a meaning to a mask that   *)
(* is not a CIDR prefix and to address bits the mask clears.             *)
(***************************************************************************)
\* bit k of a byte
Bit(byte, k) == (byte \div 2^k) % 2 = 1

InIPSubtree(addr, c) ==
  /\ Len(c) = 2 * Len(addr)
  /\ \A i \in 1..Len(addr), k \in 0..7 :
       Bit(c[Len(addr) + i], k) => (Bit(addr[i], k) <=> Bit(c[i], k))

=============================================================================
