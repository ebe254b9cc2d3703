------------------------------ MODULE IPAddress ------------------------------
(***************************************************************************)
(* The IP literal parsers of pkixnames.cpp: ReadIPv4AddressComponent,     *)
(* ParseIPv4Address, FinishIPv6Address and ParseIPv6Address.  Input is a *)
(* byte string (a sequence of one-character strings) and i the index of  *)
(* the next byte the Reader returns.  A parser returns [ok, bytes] with   *)
(* bytes the address as a sequence of values 0..255.                      *)
(***************************************************************************)
EXTENDS Integers, Sequences

DecimalDigits == <<"0","1","2","3","4","5","6","7","8","9">>
HexLower == <<"a","b","c","d","e","f">>
HexUpper == <<"A","B","C","D","E","F">>

IndexIn(seq, b) == CHOOSE i \in DOMAIN seq : seq[i] = b
IsIn(seq, b) == \E i \in DOMAIN seq : seq[i] = b

DigitValue(b) == IndexIn(DecimalDigits, b) - 1

\* the switch of ParseIPv6Address: a hex digit's value, -1 for other bytes
HexValue(b) ==
  CASE IsIn(DecimalDigits, b) -> DigitValue(b)
    [] IsIn(HexLower, b) -> IndexIn(HexLower, b) + 9
    [] IsIn(HexUpper, b) -> IndexIn(HexUpper, b) + 9
    [] OTHER -> -1

Fail == [ok |-> FALSE, bytes |-> <<>>]

(***************************************************************************)
(* ReadIPv4AddressComponent: [ok, value, next].  The last component ends *)
(* at the end of the input, the others at a '.'; no leading zero, value  *)
(* at most 255, at least one digit.                                      *)
(***************************************************************************)
RECURSIVE ReadIPv4AddressComponent(_, _, _, _, _)

\* mutant of ReadIPv4AddressComponent: leading zeros accepted
ReadIPv4AddressComponentLeadingZero(input, i, lastComponent, length, value) ==
  LET done(next) == IF length = 0 THEN [ok |-> FALSE, value |-> 0, next |-> next]
                    ELSE [ok |-> TRUE, value |-> value, next |-> next]
      bad == [ok |-> FALSE, value |-> 0, next |-> i]
  IN IF i > Len(input)
     THEN IF lastComponent THEN done(i) ELSE bad
     ELSE LET b == input[i]
          IN IF IsIn(DecimalDigits, b)
             THEN IF value * 10 + DigitValue(b) > 255 THEN bad
                  ELSE ReadIPv4AddressComponent(input, i + 1, lastComponent,
                                                length + 1,
                                                value * 10 + DigitValue(b))
             ELSE IF ~lastComponent /\ b = "." THEN done(i + 1)
             ELSE bad

ReadIPv4AddressComponent(input, i, lastComponent, length, value) ==
  LET done(next) == IF length = 0 THEN [ok |-> FALSE, value |-> 0, next |-> next]
                    ELSE [ok |-> TRUE, value |-> value, next |-> next]
      bad == [ok |-> FALSE, value |-> 0, next |-> i]
  IN IF i > Len(input)
     THEN IF lastComponent THEN done(i) ELSE bad
     ELSE LET b == input[i]
          IN IF IsIn(DecimalDigits, b)
             THEN IF value = 0 /\ length > 0 THEN bad
                  ELSE IF value * 10 + DigitValue(b) > 255 THEN bad
                  ELSE ReadIPv4AddressComponent(input, i + 1, lastComponent,
                                                length + 1,
                                                value * 10 + DigitValue(b))
             ELSE IF ~lastComponent /\ b = "." THEN done(i + 1)
             ELSE bad

ParseIPv4Address(hostname) ==
  LET c1 == ReadIPv4AddressComponent(hostname, 1, FALSE, 0, 0)
      c2 == ReadIPv4AddressComponent(hostname, c1.next, FALSE, 0, 0)
      c3 == ReadIPv4AddressComponent(hostname, c2.next, FALSE, 0, 0)
      c4 == ReadIPv4AddressComponent(hostname, c3.next, TRUE, 0, 0)
  IN IF c1.ok /\ c2.ok /\ c3.ok /\ c4.ok
     THEN [ok |-> TRUE, bytes |-> <<c1.value, c2.value, c3.value, c4.value>>]
     ELSE Fail

Zeros(n) == [i \in 1..n |-> 0]

(***************************************************************************)
(* FinishIPv6Address: address holds the 2 * numComponents bytes written  *)
(* so far; the components after the contraction move to the end and the *)
(* gap is zero-filled (the memmove and memset).                          *)
(***************************************************************************)
\* mutant of FinishIPv6Address: a contraction may stand for no component
FinishIPv6AddressEmptyContraction(address, numComponents, contractionIndex) ==
  IF ~(numComponents \in 0..8 /\ contractionIndex \in -1..8
       /\ contractionIndex <= numComponents)
  THEN Fail
  ELSE IF contractionIndex = -1
  THEN IF numComponents = 8 THEN [ok |-> TRUE, bytes |-> address] ELSE Fail
  ELSE [ok |-> TRUE,
        bytes |-> SubSeq(address, 1, 2 * contractionIndex)
                  \o Zeros(2 * (8 - numComponents))
                  \o SubSeq(address, 2 * contractionIndex + 1,
                            2 * numComponents)]

FinishIPv6Address(address, numComponents, contractionIndex) ==
  IF ~(numComponents \in 0..8 /\ contractionIndex \in -1..8
       /\ contractionIndex <= numComponents)
  THEN Fail
  ELSE IF contractionIndex = -1
  THEN IF numComponents = 8 THEN [ok |-> TRUE, bytes |-> address] ELSE Fail
  ELSE IF numComponents >= 8 THEN Fail
  ELSE [ok |-> TRUE,
        bytes |-> SubSeq(address, 1, 2 * contractionIndex)
                  \o Zeros(2 * (8 - numComponents))
                  \o SubSeq(address, 2 * contractionIndex + 1,
                            2 * numComponents)]

\* The inner while loop: reads hex digits up to the next ':' or the end;
\* kind is "hex", "dot" (a '.' was read) or "bad".
RECURSIVE ReadHexComponent(_, _, _, _)
ReadHexComponent(input, i, componentLength, componentValue) ==
  IF i > Len(input) \/ input[i] = ":"
  THEN [kind |-> "hex", length |-> componentLength,
        value |-> componentValue, next |-> i]
  ELSE IF input[i] = "." THEN [kind |-> "dot", length |-> componentLength,
                               value |-> componentValue, next |-> i]
  ELSE IF HexValue(input[i]) < 0 \/ componentLength >= 4
       THEN [kind |-> "bad", length |-> componentLength,
             value |-> componentValue, next |-> i]
  ELSE ReadHexComponent(input, i + 1, componentLength + 1,
                        componentValue * 16 + HexValue(input[i]))

(***************************************************************************)
(* The out array of ParseIPv6Address is 16 bytes.  The parse also        *)
(* records top, the highest index of out written or referred to, to show *)
(* that the component checks keep every write in bounds.  The components *)
(* are written in order, so after currentComponentIndex of them out[0]   *)
(* .. out[2 * currentComponentIndex - 1] are written.                    *)
(***************************************************************************)
WithTop(r, top) == [ok |-> r.ok, bytes |-> r.bytes, top |-> top]

\* (mutant) case '.' without the "too many components before the IPv4
\* component" check
IPv4TailUnchecked(input, i, currentComponentIndex, contractionIndex, out) ==
  LET v4 == ParseIPv4Address(SubSeq(input, i, Len(input)))
  IN WithTop(IF v4.ok
             THEN FinishIPv6Address(out \o v4.bytes, currentComponentIndex + 2,
                                    contractionIndex)
             ELSE Fail,
             2 * currentComponentIndex + 3)

\* case '.': the input from the start of the component is parsed as a
\* dotted quad into the 4-byte array at out[2 * currentComponentIndex]
\* (the reinterpret_cast), and the address is finished.
IPv4Tail(input, i, currentComponentIndex, contractionIndex, out) ==
  IF currentComponentIndex > 6
  THEN WithTop(Fail, 2 * currentComponentIndex - 1)
  ELSE LET v4 == ParseIPv4Address(SubSeq(input, i, Len(input)))
       IN WithTop(IF v4.ok
                  THEN FinishIPv6Address(out \o v4.bytes,
                                         currentComponentIndex + 2,
                                         contractionIndex)
                  ELSE Fail,
                  2 * currentComponentIndex + 3)

(***************************************************************************)
(* One iteration of the for(;;) loop of ParseIPv6Address from index i   *)
(* (startOfComponent), with currentComponentIndex, contractionIndex and *)
(* the bytes written so far; [ok, bytes, top].                           *)
(***************************************************************************)
RECURSIVE ParseIPv6From(_, _, _, _, _)
ParseIPv6From(input, i, currentComponentIndex, contractionIndex, out) ==
  LET c == ReadHexComponent(input, i, 0, 0)
      index == currentComponentIndex + 1
      written == out \o <<c.value \div 256, c.value % 256>>
      top == 2 * currentComponentIndex - 1
      j == c.next + 1
  IN IF c.kind = "bad" THEN WithTop(Fail, top)
     ELSE IF c.kind = "dot"
     THEN IPv4Tail(input, i, currentComponentIndex, contractionIndex, out)
     ELSE IF currentComponentIndex >= 8 THEN WithTop(Fail, top)
     ELSE IF c.length = 0
     THEN WithTop(IF /\ c.next > Len(input)
                     /\ currentComponentIndex = contractionIndex
                     /\ contractionIndex # 0
                  THEN FinishIPv6Address(out, currentComponentIndex,
                                         contractionIndex)
                  ELSE Fail,
                  top)
     ELSE IF c.next > Len(input)
     THEN WithTop(FinishIPv6Address(written, index, contractionIndex), top + 2)
     ELSE IF j <= Len(input) /\ input[j] = ":"
     THEN IF contractionIndex # -1 THEN WithTop(Fail, top + 2)
          ELSE IF j + 1 > Len(input)
          THEN WithTop(FinishIPv6Address(written, index, index), top + 2)
          ELSE ParseIPv6From(input, j + 1, index, index, written)
     ELSE ParseIPv6From(input, j, index, contractionIndex, written)

\* ParseIPv6Address with the highest index of out it writes: the leading
\* "::" check, then the loop.
IPv6Parse(hostname) ==
  IF Len(hostname) >= 1 /\ hostname[1] = ":"
  THEN IF Len(hostname) >= 2 /\ hostname[2] = ":"
       THEN ParseIPv6From(hostname, 3, 0, 0, <<>>)
       ELSE WithTop(Fail, -1)
  ELSE ParseIPv6From(hostname, 1, 0, -1, <<>>)

ParseIPv6Address(hostname) ==
  LET r == IPv6Parse(hostname)
  IN [ok |-> r.ok, bytes |-> r.bytes]
=============================================================================
