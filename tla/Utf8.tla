-------------------------------- MODULE Utf8 --------------------------------
(***************************************************************************)
(* The UTF-8 codec of the audio worklet, which replaces the native         *)
(* TextEncoder and TextDecoder (examples/rattlegram/assets/text-encoder.js)*)
(* A JavaScript string is a sequence of 16-bit code units.  Indices i are  *)
(* those of the code and start at 0.  Shifts are divisions by powers of 64 *)
(* and masks are remainders; the marker of an octet and its payload have   *)
(* no bit in common, so that "|" is a sum.                                 *)
(***************************************************************************)
EXTENDS Integers, Sequences

CodeUnit == {n \in Nat : n <= 65535}
CodePoint == {n \in Nat : n <= 1114111}
Octet == {n \in Nat : n <= 255}

IsHigh(u) == 55296 <= u /\ u <= 56319
IsLow(u) == 56320 <= u /\ u <= 57343

\* String.prototype.codePointAt: a surrogate pair is one code point, a
\* surrogate without its partner stands for itself.
CodePointAt(string, i) ==
  IF /\ IsHigh(string[i + 1])
     /\ i + 1 < Len(string)
     /\ IsLow(string[i + 2])
  THEN 65536 + (string[i + 1] - 55296) * 1024 + (string[i + 2] - 56320)
  ELSE string[i + 1]

\* String.fromCodePoint
FromCodePoint(codePoint) ==
  IF codePoint >= 65536
  THEN << 55296 + (codePoint - 65536) \div 1024,
          56320 + ((codePoint - 65536) % 1024) >>
  ELSE << codePoint >>

\* The code units codePointAt() has read.
Units(codePoint) == IF codePoint >= 65536 THEN 2 ELSE 1

Continuation(payload) == 128 + (payload % 64)

\* Mutant: the limit of two octets is missed by one.
OctetsOffByOne(codePoint) ==
  IF codePoint <= 127 THEN << codePoint >>
  ELSE IF codePoint <= 2046 THEN
         << 192 + codePoint \div 64, Continuation(codePoint) >>
  ELSE IF codePoint <= 65535 THEN
         << 224 + codePoint \div 4096, Continuation(codePoint \div 64),
            Continuation(codePoint) >>
  ELSE   << 240 + codePoint \div 262144, Continuation(codePoint \div 4096),
            Continuation(codePoint \div 64), Continuation(codePoint) >>

\* Mutant: the last of two octets keeps its high bits.
OctetsUnmasked(codePoint) ==
  IF codePoint <= 127 THEN << codePoint >>
  ELSE IF codePoint <= 2047 THEN
         << 192 + codePoint \div 64, 128 + codePoint >>
  ELSE IF codePoint <= 65535 THEN
         << 224 + codePoint \div 4096, Continuation(codePoint \div 64),
            Continuation(codePoint) >>
  ELSE   << 240 + codePoint \div 262144, Continuation(codePoint \div 4096),
            Continuation(codePoint \div 64), Continuation(codePoint) >>

\* What the body of encode()'s loop pushes for one code point.  The limit of
\* four octets, 0x1fffff, is above every code point.
Octets(codePoint) ==
  IF codePoint <= 127 THEN << codePoint >>
  ELSE IF codePoint <= 2047 THEN
         << 192 + codePoint \div 64, Continuation(codePoint) >>
  ELSE IF codePoint <= 65535 THEN
         << 224 + codePoint \div 4096, Continuation(codePoint \div 64),
            Continuation(codePoint) >>
  ELSE   << 240 + codePoint \div 262144, Continuation(codePoint \div 4096),
            Continuation(codePoint \div 64), Continuation(codePoint) >>

\* What decode() takes from the first octet: how many octets follow, and the
\* first bits of the code point.  An octet that cannot be first is not refused.
BytesNeeded(octet) ==
  IF octet <= 127 THEN 0
  ELSE IF octet <= 223 THEN 1
  ELSE IF octet <= 239 THEN 2
  ELSE IF octet <= 244 THEN 3 ELSE 0

LeadBits(octet) ==
  IF octet <= 127 THEN octet
  ELSE IF octet <= 223 THEN octet % 32
  ELSE IF octet <= 239 THEN octet % 16
  ELSE IF octet <= 244 THEN octet % 8 ELSE 0

\* One iteration of decode()'s inner loop: six more bits.
WithMore(bits, octet) == bits * 64 + (octet % 64)

\* decode()'s inner loop: the n octets behind the one at i.
Collected(octets, i, n) ==
  LET lead == LeadBits(octets[i + 1])
  IN IF n = 0 THEN lead
     ELSE IF n = 1 THEN WithMore(lead, octets[i + 2])
     ELSE IF n = 2 THEN WithMore(WithMore(lead, octets[i + 2]), octets[i + 3])
     ELSE WithMore(WithMore(WithMore(lead, octets[i + 2]), octets[i + 3]),
                   octets[i + 4])

\* Mutant: the last sequence is taken for a truncated one.
DecodedShort(octets, i) ==
  LET n == BytesNeeded(octets[i + 1])
  IN IF (Len(octets) - i) - n > 1
     THEN [codePoint |-> Collected(octets, i, n), next |-> i + n + 1]
     ELSE [codePoint |-> 65533, next |-> Len(octets) + 1]

\* Mutant: the first octet is not counted.
DecodedStuck(octets, i) ==
  LET n == BytesNeeded(octets[i + 1])
  IN IF (Len(octets) - i) - n > 0
     THEN [codePoint |-> Collected(octets, i, n), next |-> i + n]
     ELSE [codePoint |-> 65533, next |-> Len(octets) + 1]

\* The body of decode()'s loop: the code point at i and where the next one
\* starts.  A truncated sequence becomes U+FFFD and ends the string.
Decoded(octets, i) ==
  LET n == BytesNeeded(octets[i + 1])
  IN IF (Len(octets) - i) - n > 0
     THEN [codePoint |-> Collected(octets, i, n), next |-> i + n + 1]
     ELSE [codePoint |-> 65533, next |-> Len(octets) + 1]
=============================================================================
