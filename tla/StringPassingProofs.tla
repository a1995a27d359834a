------------------------ MODULE StringPassingProofs ------------------------
(***************************************************************************)
(* Theorems about StringPassing, for strings of any length.                *)
(***************************************************************************)
EXTENDS StringPassing, SequenceTheorems, FiniteSetTheorems, TLAPS

-----------------------------------------------------------------------------
(* The codec, one code point at a time.                                    *)

\* Parts of one and of two elements.
LEMMA SubSeqOne ==
  ASSUME NEW S, NEW s \in Seq(S), NEW u \in Nat, u < Len(s)
  PROVE  SubSeq(s, u + 1, u + 1) = << s[u + 1] >>
<1> DEFINE t == SubSeq(s, u + 1, u + 1)
<1>1. /\ t \in Seq(S) /\ Len(t) = 1
      /\ \A k \in 1 .. 1 : t[k] = s[u + k]
  BY SubSeqProperties
<1>2. << s[u + 1] >> \in Seq(S)
  BY ElementOfSeq
<1> HIDE DEF t
<1>3. t = << s[u + 1] >>
  BY <1>1, <1>2, SeqEqual
<1> QED  BY <1>3 DEF t

\* A part of two elements.
LEMMA SubSeqTwo ==
  ASSUME NEW S, NEW s \in Seq(S), NEW u \in Nat, u + 1 < Len(s)
  PROVE  SubSeq(s, u + 1, u + 2) = << s[u + 1], s[u + 2] >>
<1> DEFINE t == SubSeq(s, u + 1, u + 2)
<1>1. /\ t \in Seq(S) /\ Len(t) = 2
      /\ \A k \in 1 .. 2 : t[k] = s[u + k]
  BY SubSeqProperties
<1>2. << s[u + 1], s[u + 2] >> \in Seq(S)
  BY ElementOfSeq
<1> HIDE DEF t
<1>3. t = << s[u + 1], s[u + 2] >>
  BY <1>1, <1>2, SeqEqual
<1> QED  BY <1>3 DEF t

\* codePointAt() reads units inside of the string, and fromCodePoint() gives
\* them back.
LEMMA CodePointAtReads ==
  ASSUME NEW s \in Seq(CodeUnit), NEW u \in Nat, u < Len(s)
  PROVE  LET codePoint == CodePointAt(s, u)
         IN /\ codePoint \in CodePoint
            /\ Units(codePoint) \in 1 .. 2
            /\ u + Units(codePoint) <= Len(s)
            /\ FromCodePoint(codePoint) = SubSeq(s, u + 1, u + Units(codePoint))
<1> DEFINE cp == CodePointAt(s, u)
           Pair == IsHigh(s[u + 1]) /\ u + 1 < Len(s) /\ IsLow(s[u + 2])
<1>1. s[u + 1] \in CodeUnit
  OBVIOUS
<1>2. CASE Pair
  <2>1. /\ s[u + 1] \in Nat /\ 55296 <= s[u + 1] /\ s[u + 1] <= 56319
        /\ s[u + 2] \in Nat /\ 56320 <= s[u + 2] /\ s[u + 2] <= 57343
        /\ u + 2 <= Len(s)
    BY <1>2, SMTT(60) DEF IsHigh, IsLow, CodeUnit
  <2> DEFINE h == s[u + 1] - 55296
             l == s[u + 2] - 56320
  <2>2. cp = 65536 + h * 1024 + l
    BY <1>2 DEF CodePointAt
  <2>3. /\ h \in Nat /\ h < 1024 /\ s[u + 1] = h + 55296
        /\ l \in Nat /\ l < 1024 /\ s[u + 2] = l + 56320
    BY <2>1, SMTT(60)
  <2> HIDE DEF cp, h, l
  <2>4. cp \in Nat /\ 65536 <= cp /\ cp <= 1114111
    BY <2>2, <2>3
  <2>5. Units(cp) = 2
    BY <2>4 DEF Units
  <2>6. /\ (cp - 65536) \div 1024 = h
        /\ (cp - 65536) % 1024 = l
    BY <2>2, <2>3
  <2>7. FromCodePoint(cp) = << s[u + 1], s[u + 2] >>
    BY <2>1, <2>4, <2>6, <2>3 DEF FromCodePoint
  <2>8. SubSeq(s, u + 1, u + 2) = << s[u + 1], s[u + 2] >>
    BY <2>1, SubSeqTwo
  <2> QED  BY <2>1, <2>4, <2>5, <2>7, <2>8, SMTT(60) DEF CodePoint, cp
<1>3. CASE ~Pair
  <2>1. cp = s[u + 1]
    BY <1>1, <1>3 DEF CodePointAt, CodeUnit
  <2>0. s[u + 1] \in Nat /\ s[u + 1] <= 65535
    BY <1>1 DEF CodeUnit
  <2>2. FromCodePoint(cp) = << s[u + 1] >> /\ Units(cp) = 1
    BY <2>1, <2>0, SMTT(60) DEF FromCodePoint, Units
  <2>3. SubSeq(s, u + 1, u + 1) = << s[u + 1] >>
    BY SubSeqOne
  <2> QED  BY <2>0, <2>1, <2>2, <2>3 DEF CodePoint
<1> QED  BY <1>2, <1>3

\* encode() pushes one to four octets, at most three for a unit.
LEMMA OctetsShort ==
  ASSUME NEW cp \in CodePoint
  PROVE  /\ Octets(cp) \in Seq(Octet)
         /\ Len(Octets(cp)) \in 1 .. 4
         /\ Len(Octets(cp)) <= 3 * Units(cp)
<1> USE DEF CodePoint, Octet
<1>0. \A p \in Nat : Continuation(p) \in 128 .. 191
  BY DEF Continuation
<1>1. CASE cp <= 127
  BY <1>1 DEF Octets, Units
<1>2. CASE 128 <= cp /\ cp <= 2047
  <2>1. Octets(cp) = << 192 + cp \div 64, Continuation(cp) >>
    BY <1>2 DEF Octets
  <2>2. 192 + cp \div 64 \in Octet /\ Continuation(cp) \in Octet
    BY <1>0, <1>2
  <2> QED  BY <1>2, <2>1, <2>2 DEF Units
<1>3. CASE 2048 <= cp /\ cp <= 65535
  <2>1. Octets(cp) = << 224 + cp \div 4096, Continuation(cp \div 64),
                        Continuation(cp) >>
    BY <1>3 DEF Octets
  <2>2. /\ 224 + cp \div 4096 \in Octet
        /\ Continuation(cp \div 64) \in Octet /\ Continuation(cp) \in Octet
    BY <1>0, <1>3
  <2> QED  BY <1>3, <2>1, <2>2 DEF Units
<1>4. CASE 65536 <= cp
  <2>1. Octets(cp) = << 240 + cp \div 262144, Continuation(cp \div 4096),
                        Continuation(cp \div 64), Continuation(cp) >>
    BY <1>4 DEF Octets
  <2>2. /\ 240 + cp \div 262144 \in Octet /\ Continuation(cp \div 4096) \in Octet
        /\ Continuation(cp \div 64) \in Octet /\ Continuation(cp) \in Octet
    BY <1>0, <1>4
  <2> QED  BY <1>4, <2>1, <2>2 DEF Units
<1> QED  BY <1>1, <1>2, <1>3, <1>4

\* decode() undoes encode(), wherever the octets of a code point are.
LEMMA DecodesOctets ==
  ASSUME NEW bytes \in Seq(Octet), NEW b \in Nat, NEW cp \in CodePoint,
         b + Len(Octets(cp)) <= Len(bytes),
         \A k \in 1 .. Len(Octets(cp)) : bytes[b + k] = Octets(cp)[k]
  PROVE  Decoded(bytes, b) = [codePoint |-> cp, next |-> b + Len(Octets(cp))]
<1> USE DEF CodePoint
<1> DEFINE o == Octets(cp)
<1>0. Len(bytes) \in Nat
  OBVIOUS
<1>1. CASE cp <= 127
  <2>1. o = << cp >>
    BY <1>1 DEF Octets
  <2>2. bytes[b + 1] = cp
    BY <2>1
  <2>3. BytesNeeded(cp) = 0 /\ LeadBits(cp) = cp
    BY <1>1 DEF BytesNeeded, LeadBits
  <2> QED  BY <1>0, <2>1, <2>2, <2>3 DEF Decoded, Collected
<1>2. CASE 128 <= cp /\ cp <= 2047
  <2>1. o = << 192 + cp \div 64, Continuation(cp) >>
    BY <1>2 DEF Octets
  <2>2. bytes[b + 1] = 192 + cp \div 64 /\ bytes[b + 2] = Continuation(cp)
    BY <2>1
  <2>3. cp \div 64 \in 2 .. 31
    BY <1>2
  <2>4. BytesNeeded(192 + cp \div 64) = 1
    BY <2>3 DEF BytesNeeded
  <2>5. LeadBits(192 + cp \div 64) = cp \div 64
    <3>1. (192 + cp \div 64) % 32 = cp \div 64
      BY <2>3
    <3> QED  BY <2>3, <3>1 DEF LeadBits
  <2>6. Continuation(cp) % 64 = cp % 64
    BY DEF Continuation
  <2>7. (cp \div 64) * 64 + (cp % 64) = cp
    OBVIOUS
  <2>8. Collected(bytes, b, 1) = cp
    BY <2>2, <2>5, <2>6, <2>7 DEF Collected, WithMore
  <2> QED  BY <1>0, <2>1, <2>2, <2>4, <2>8 DEF Decoded
<1>3. CASE 2048 <= cp /\ cp <= 65535
  <2>1. o = << 224 + cp \div 4096, Continuation(cp \div 64), Continuation(cp) >>
    BY <1>3 DEF Octets
  <2>2. /\ bytes[b + 1] = 224 + cp \div 4096
        /\ bytes[b + 2] = Continuation(cp \div 64)
        /\ bytes[b + 3] = Continuation(cp)
    BY <2>1
  <2>3. cp \div 4096 \in 0 .. 15
    BY <1>3
  <2>4. BytesNeeded(224 + cp \div 4096) = 2
    BY <2>3 DEF BytesNeeded
  <2>5. LeadBits(224 + cp \div 4096) = cp \div 4096
    <3>1. (224 + cp \div 4096) % 16 = cp \div 4096
      BY <2>3
    <3> QED  BY <2>3, <3>1 DEF LeadBits
  <2>6. /\ Continuation(cp) % 64 = cp % 64
        /\ Continuation(cp \div 64) % 64 = (cp \div 64) % 64
    BY DEF Continuation
  <2>7. /\ (cp \div 4096) * 64 + ((cp \div 64) % 64) = cp \div 64
        /\ (cp \div 64) * 64 + (cp % 64) = cp
    BY <1>3
  <2>8. /\ WithMore(LeadBits(bytes[b + 1]), bytes[b + 2]) = cp \div 64
        /\ WithMore(cp \div 64, bytes[b + 3]) = cp
    BY <2>2, <2>5, <2>6, <2>7, SMTT(60) DEF WithMore
  <2>9. Collected(bytes, b, 2) = cp
    BY <2>8 DEF Collected
  <2> QED  BY <1>0, <2>1, <2>2, <2>4, <2>9 DEF Decoded
<1>4. CASE 65536 <= cp
  <2>1. o = << 240 + cp \div 262144, Continuation(cp \div 4096),
               Continuation(cp \div 64), Continuation(cp) >>
    BY <1>4 DEF Octets
  <2>2. /\ bytes[b + 1] = 240 + cp \div 262144
        /\ bytes[b + 2] = Continuation(cp \div 4096)
        /\ bytes[b + 3] = Continuation(cp \div 64)
        /\ bytes[b + 4] = Continuation(cp)
    BY <2>1
  <2>3. cp \div 262144 \in 0 .. 4
    BY <1>4
  <2>4. BytesNeeded(240 + cp \div 262144) = 3
    BY <2>3 DEF BytesNeeded
  <2>5. LeadBits(240 + cp \div 262144) = cp \div 262144
    <3>1. (240 + cp \div 262144) % 8 = cp \div 262144
      BY <2>3
    <3> QED  BY <2>3, <3>1 DEF LeadBits
  <2>6. /\ Continuation(cp) % 64 = cp % 64
        /\ Continuation(cp \div 64) % 64 = (cp \div 64) % 64
        /\ Continuation(cp \div 4096) % 64 = (cp \div 4096) % 64
    BY DEF Continuation
  <2>7. /\ (cp \div 262144) * 64 + ((cp \div 4096) % 64) = cp \div 4096
        /\ (cp \div 4096) * 64 + ((cp \div 64) % 64) = cp \div 64
        /\ (cp \div 64) * 64 + (cp % 64) = cp
    BY <1>4
  <2>8. /\ WithMore(LeadBits(bytes[b + 1]), bytes[b + 2]) = cp \div 4096
        /\ WithMore(cp \div 4096, bytes[b + 3]) = cp \div 64
        /\ WithMore(cp \div 64, bytes[b + 4]) = cp
    <3>1. WithMore(LeadBits(bytes[b + 1]), bytes[b + 2]) = cp \div 4096
      BY <2>2, <2>5, <2>6, <2>7, SMTT(60) DEF WithMore
    <3>2. WithMore(cp \div 4096, bytes[b + 3]) = cp \div 64
      BY <2>2, <2>6, <2>7, SMTT(60) DEF WithMore
    <3>3. WithMore(cp \div 64, bytes[b + 4]) = cp
      BY <2>2, <2>6, <2>7 DEF WithMore
    <3> QED  BY <3>1, <3>2, <3>3
  <2>9. Collected(bytes, b, 3) = cp
    BY <2>8 DEF Collected
  <2> QED  BY <1>0, <2>1, <2>2, <2>4, <2>9, SMTT(60) DEF Decoded
<1> QED  BY <1>1, <1>2, <1>3, <1>4

\* An ASCII unit is a code point, and its own only octet.
LEMMA AsciiOctets ==
  ASSUME NEW s \in Seq(CodeUnit), NEW u \in Nat, u < Len(s), s[u + 1] <= 127
  PROVE  /\ CodePointAt(s, u) = s[u + 1]
         /\ Units(CodePointAt(s, u)) = 1
         /\ Octets(CodePointAt(s, u)) = << s[u + 1] >>
         /\ s[u + 1] \in Octet
<1>1. s[u + 1] \in Nat
  BY DEF CodeUnit
<1>2. CodePointAt(s, u) = s[u + 1]
  BY <1>1 DEF CodePointAt, IsHigh
<1>3. Units(s[u + 1]) = 1
  BY <1>1 DEF Units
<1>4. Octets(s[u + 1]) = << s[u + 1] >>
  BY <1>1 DEF Octets
<1>5. s[u + 1] \in Octet
  BY <1>1 DEF Octet
<1> QED  BY <1>2, <1>3, <1>4, <1>5

\* The rest of a string has the code points that it has in the string.
LEMMA CodePointOfRest ==
  ASSUME NEW s \in Seq(CodeUnit), NEW p \in Nat, p <= Len(s),
         NEW u \in Nat, p + u < Len(s)
  PROVE  LET rest == SubSeq(s, p + 1, Len(s))
         IN /\ rest \in Seq(CodeUnit)
            /\ Len(rest) = Len(s) - p
            /\ CodePointAt(rest, u) = CodePointAt(s, p + u)
<1> DEFINE rest == SubSeq(s, p + 1, Len(s))
<1>1. /\ rest \in Seq(CodeUnit)
      /\ Len(rest) = Len(s) - p
      /\ \A k \in 1 .. Len(s) - p : rest[k] = s[p + k]
  BY SubSeqProperties
<1> HIDE DEF rest
<1>2. rest[u + 1] = s[(p + u) + 1]
  BY <1>1
<1>3. u + 1 < Len(rest) <=> (p + u) + 1 < Len(s)
  BY <1>1
<1>4. u + 1 < Len(rest) => rest[u + 2] = s[(p + u) + 2]
  BY <1>1
<1>5. CodePointAt(rest, u) = CodePointAt(s, p + u)
  BY <1>2, <1>3, <1>4 DEF CodePointAt
<1> QED  BY <1>1, <1>5 DEF rest

-----------------------------------------------------------------------------
(* The bytes of a string that has been encoded up to unit n: the set U of  *)
(* the units where a code point starts, and the place at[u] of its first   *)
(* byte.  The definition is local: it tells where the next code point is,  *)
(* so that decode() can be followed from one to the next.                  *)

Aligned(s, n, bytes, U, at) ==
  /\ 0 \in U /\ at[0] = 0
  /\ n \in U /\ at[n] = Len(bytes)
  /\ \A u \in U \ {n} :
       LET codePoint == CodePointAt(s, u)
       IN /\ u < n
          /\ u + Units(codePoint) \in U
          /\ at[u + Units(codePoint)] = at[u] + Len(Octets(codePoint))
          /\ at[u] + Len(Octets(codePoint)) <= Len(bytes)
          /\ \A k \in 1 .. Len(Octets(codePoint)) :
               bytes[at[u] + k] = Octets(codePoint)[k]

Encoded(s, n, bytes) ==
  \E U \in SUBSET Nat, at \in [Nat -> Nat] : Aligned(s, n, bytes, U, at)

\* What the ASCII loop has copied is encoded.
LEMMA AsciiEncoded ==
  ASSUME NEW s \in Seq(CodeUnit), NEW n \in Nat, n <= Len(s),
         \A k \in 1 .. n : s[k] <= 127
  PROVE  /\ SubSeq(s, 1, n) \in Seq(Octet)
         /\ Len(SubSeq(s, 1, n)) = n
         /\ \A k \in 1 .. n : SubSeq(s, 1, n)[k] = s[k]
         /\ Encoded(s, n, SubSeq(s, 1, n))
<1> DEFINE bytes == SubSeq(s, 1, n)
           U == 0 .. n
           at == [u \in Nat |-> u]
<1>1. ASSUME NEW k \in 1 .. n
      PROVE  s[k] \in Octet
  <2>1. s[k] \in CodeUnit
    BY ElementOfSeq
  <2> QED  BY <2>1 DEF CodeUnit, Octet
<1>2. /\ bytes \in Seq(Octet) /\ Len(bytes) = n
      /\ \A k \in 1 .. n : bytes[k] = s[k]
  BY <1>1, SubSeqProperties
<1>3. U \in SUBSET Nat /\ at \in [Nat -> Nat]
  OBVIOUS
<1> HIDE DEF bytes
<1>4. ASSUME NEW u \in U \ {n}
      PROVE  LET codePoint == CodePointAt(s, u)
             IN /\ u < n
                /\ u + Units(codePoint) \in U
                /\ at[u + Units(codePoint)] = at[u] + Len(Octets(codePoint))
                /\ at[u] + Len(Octets(codePoint)) <= Len(bytes)
                /\ \A k \in 1 .. Len(Octets(codePoint)) :
                     bytes[at[u] + k] = Octets(codePoint)[k]
  <2>1. u \in Nat /\ u < n /\ u < Len(s) /\ s[u + 1] <= 127
    OBVIOUS
  <2>2. /\ Units(CodePointAt(s, u)) = 1
        /\ Octets(CodePointAt(s, u)) = << s[u + 1] >>
    BY <2>1, AsciiOctets
  <2>3. bytes[u + 1] = s[u + 1]
    BY <1>2, <2>1
  <2> QED  BY <1>2, <2>1, <2>2, <2>3
<1>5. Aligned(s, n, bytes, U, at)
  <2>1. 0 \in U /\ at[0] = 0 /\ n \in U /\ at[n] = Len(bytes)
    BY <1>2
  <2> HIDE DEF U, at
  <2> QED  BY <1>4, <2>1 DEF Aligned
<1>6. Encoded(s, n, bytes)
  <2> HIDE DEF U, at
  <2> QED  BY <1>3, <1>5 DEF Encoded
<1> QED  BY <1>2, <1>6 DEF bytes

\* One more iteration of encode() leaves the string encoded one code point
\* further.
LEMMA EncodedFurther ==
  ASSUME NEW s \in Seq(CodeUnit), NEW n \in Nat, n < Len(s),
         NEW bytes \in Seq(Octet)
  PROVE  LET codePoint == CodePointAt(s, n)
         IN Encoded(s, n, bytes) =>
              Encoded(s, n + Units(codePoint), bytes \o Octets(codePoint))
<1> DEFINE cp == CodePointAt(s, n)
           o == Octets(cp)
           m == n + Units(cp)
           more == bytes \o o
<1>2. cp \in CodePoint /\ Units(cp) \in 1 .. 2 /\ m \in Nat /\ n < m
  <2>1. cp \in CodePoint /\ Units(cp) \in 1 .. 2
    BY CodePointAtReads
  <2>2. \A k \in 1 .. 2 : n + k \in Nat /\ n < n + k
    OBVIOUS
  <2> QED  BY <2>1, <2>2
<1>3. o \in Seq(Octet) /\ Len(o) \in 1 .. 4
  BY <1>2, OctetsShort
<1>4. /\ more \in Seq(Octet) /\ Len(more) = Len(bytes) + Len(o)
      /\ \A k \in 1 .. Len(bytes) : more[k] = bytes[k]
      /\ \A k \in 1 .. Len(o) : more[Len(bytes) + k] = o[k]
  <2> HIDE DEF o
  <2> QED  BY <1>3, ConcatProperties
<1> SUFFICES ASSUME Encoded(s, n, bytes)
             PROVE  Encoded(s, m, more)
  OBVIOUS
<1>1. PICK U \in SUBSET Nat, at \in [Nat -> Nat] : Aligned(s, n, bytes, U, at)
  BY DEF Encoded
<1> DEFINE V == U \cup {m}
           to == [at EXCEPT ![m] = Len(bytes) + Len(o)]
<1>5. \A u \in U : u \in Nat /\ u <= n
  BY <1>1 DEF Aligned
<1>6. V \in SUBSET Nat /\ to \in [Nat -> Nat]
  <2>1. Len(bytes) + Len(o) \in Nat
    BY <1>3
  <2> HIDE DEF m, o
  <2> QED  BY <1>2, <2>1
<1>7. to[m] = Len(more) /\ \A u \in U : to[u] = at[u]
  BY <1>2, <1>4, <1>5
<1>8. \A u \in U : at[u] \in Nat
  OBVIOUS
<1>9. m \in V /\ \A u \in U : u \in V
  OBVIOUS
<1>10. \A u \in V \ {m} : u \in U
  OBVIOUS
<1> HIDE DEF V, to, more, m
<1>11. ASSUME NEW u \in V \ {m}
       PROVE  LET codePoint == CodePointAt(s, u)
              IN /\ u < m
                 /\ u + Units(codePoint) \in V
                 /\ to[u + Units(codePoint)] = to[u] + Len(Octets(codePoint))
                 /\ to[u] + Len(Octets(codePoint)) <= Len(more)
                 /\ \A k \in 1 .. Len(Octets(codePoint)) :
                      more[to[u] + k] = Octets(codePoint)[k]
  <2>1. u \in U /\ u \in Nat /\ u <= n /\ u < m /\ to[u] = at[u]
    <3>1. u \in U
      BY <1>10
    <3>2. u \in Nat /\ u <= n /\ to[u] = at[u]
      BY <1>5, <1>7, <3>1
    <3> QED  BY <1>2, <3>1, <3>2
  <2>2. CASE u = n
    <3>1. at[u] = Len(bytes) /\ u + Units(cp) = m
      BY <1>1, <2>2 DEF Aligned, m
    <3> HIDE DEF cp, o
    <3>2. CodePointAt(s, u) = cp
      BY <2>2 DEF cp
    <3> QED  BY <1>3, <1>4, <1>7, <1>9, <2>1, <3>1, <3>2 DEF o
  <2>3. CASE u # n
    <3> DEFINE c == CodePointAt(s, u)
    <3>1. /\ u + Units(c) \in U
          /\ at[u + Units(c)] = at[u] + Len(Octets(c))
          /\ at[u] + Len(Octets(c)) <= Len(bytes)
          /\ \A k \in 1 .. Len(Octets(c)) : bytes[at[u] + k] = Octets(c)[k]
      BY <1>1, <2>1, <2>3 DEF Aligned
    <3>2. c \in CodePoint
      BY <2>1, CodePointAtReads
    <3>3. Len(Octets(c)) \in Nat
      BY <3>2, OctetsShort
    <3>4. at[u] \in Nat /\ Len(bytes) \in Nat
      BY <1>8, <2>1
    <3> HIDE DEF c
    <3>5. to[u] + Len(Octets(c)) <= Len(more)
      BY <1>3, <1>4, <2>1, <3>1, <3>3, <3>4, SMTT(60)
    <3>6. ASSUME NEW k \in 1 .. Len(Octets(c))
          PROVE  more[to[u] + k] = Octets(c)[k]
      <4> DEFINE a == at[u]
                 length == Len(Octets(c))
      <4>0. a \in Nat /\ length \in Nat /\ k \in 1 .. length /\ a + length <= Len(bytes)
        BY <3>1, <3>3, <3>4
      <4> HIDE DEF a, length
      <4>1. a + k \in 1 .. Len(bytes)
        BY <3>4, <4>0
      <4> USE DEF a, length
      <4>2. more[at[u] + k] = bytes[at[u] + k]
        BY <1>4, <4>1
      <4> QED  BY <2>1, <3>1, <4>2
    <3>7. to[u + Units(c)] = to[u] + Len(Octets(c)) /\ u + Units(c) \in V
      BY <1>7, <1>9, <2>1, <3>1
    <3> QED  BY <2>1, <3>5, <3>6, <3>7 DEF c
  <2> QED  BY <2>2, <2>3
<1>12. 0 \in V /\ to[0] = 0
  BY <1>1, <1>7, <1>9 DEF Aligned
<1>13. Aligned(s, m, more, V, to)
  BY <1>7, <1>9, <1>11, <1>12 DEF Aligned
<1> QED  BY <1>6, <1>13 DEF Encoded

-----------------------------------------------------------------------------
(* Blocks of memory.                                                       *)

Byte == Octet \cup {Junk}

\* A function on 1 .. n is a sequence of length n.
LEMMA FunctionIsSeq ==
  ASSUME NEW S, NEW n \in Nat, NEW f \in [1 .. n -> S]
  PROVE  f \in Seq(S) /\ Len(f) = n
<1>1. f \in Seq(S)
  BY SeqDef
<1>2. DOMAIN f = 1 .. Len(f) /\ Len(f) \in Nat
  BY <1>1, LenProperties
<1>3. 1 .. Len(f) = 1 .. n
  BY <1>2
<1> QED  BY <1>1, <1>2, <1>3

\* realloc() returns a block of the size it is asked for, with the old bytes.
LEMMA ReallocProperties ==
  ASSUME NEW block \in Seq(Byte), NEW size \in Nat
  PROVE  /\ Realloc(block, size) \in Seq(Byte)
         /\ Len(Realloc(block, size)) = size
         /\ \A k \in 1 .. size :
              Realloc(block, size)[k] = IF k <= Len(block) THEN block[k] ELSE Junk
<1> DEFINE f == [k \in 1 .. size |-> IF k <= Len(block) THEN block[k] ELSE Junk]
<1>1. ASSUME NEW k \in 1 .. size
      PROVE  (IF k <= Len(block) THEN block[k] ELSE Junk) \in Byte
  <2>1. CASE k <= Len(block)
    <3>1. k \in 1 .. Len(block)
      BY <2>1
    <3> QED  BY <2>1, <3>1, ElementOfSeq
  <2>2. CASE ~(k <= Len(block))
    BY <2>2 DEF Byte
  <2> QED  BY <2>1, <2>2
<1>2. f \in [1 .. size -> Byte]
  BY <1>1
<1>3. \A k \in 1 .. size : f[k] = IF k <= Len(block) THEN block[k] ELSE Junk
  OBVIOUS
<1> HIDE DEF f
<1>4. f \in Seq(Byte) /\ Len(f) = size
  BY <1>2, FunctionIsSeq
<1> QED  BY <1>3, <1>4 DEF Realloc, f

\* Bytes that fit into the block are written there, and nothing else changes.
LEMMA WrittenProperties ==
  ASSUME NEW block \in Seq(Byte), NEW bytes \in Seq(Octet), NEW place \in Nat,
         place + Len(bytes) <= Len(block)
  PROVE  /\ Written(block, place, bytes) \in Seq(Byte)
         /\ Len(Written(block, place, bytes)) = Len(block)
         /\ \A k \in 1 .. place : Written(block, place, bytes)[k] = block[k]
         /\ \A k \in 1 .. Len(bytes) :
              Written(block, place, bytes)[place + k] = bytes[k]
<1> DEFINE inside(k) == k \in place + 1 .. place + Len(bytes)
           f == [k \in 1 .. Len(block) |->
                   IF inside(k) THEN bytes[k - place] ELSE block[k]]
<1>1. ASSUME NEW k \in 1 .. Len(block)
      PROVE  (IF inside(k) THEN bytes[k - place] ELSE block[k]) \in Byte
  <2>1. CASE inside(k)
    <3>1. k - place \in 1 .. Len(bytes)
      BY <2>1
    <3>2. bytes[k - place] \in Octet
      BY <3>1, ElementOfSeq
    <3> QED  BY <2>1, <3>2 DEF Byte
  <2>2. CASE ~inside(k)
    <3>1. block[k] \in Byte
      BY ElementOfSeq
    <3> QED  BY <2>2, <3>1
  <2> QED  BY <2>1, <2>2
<1>2. f \in [1 .. Len(block) -> Byte]
  BY <1>1
<1>3. \A k \in 1 .. place : f[k] = block[k]
  OBVIOUS
<1>4. ASSUME NEW k \in 1 .. Len(bytes)
      PROVE  f[place + k] = bytes[k]
  <2>1. place + k \in 1 .. Len(block) /\ inside(place + k) /\ (place + k) - place = k
    OBVIOUS
  <2> QED  BY <2>1
<1>5. Len(block) \in Nat
  OBVIOUS
<1> HIDE DEF f
<1>6. f \in Seq(Byte) /\ Len(f) = Len(block)
  BY <1>2, <1>5, FunctionIsSeq
<1> QED  BY <1>3, <1>4, <1>6 DEF Written, f, inside

-----------------------------------------------------------------------------
(* The inductive invariant, one part for each place in the code.           *)

\* The ASCII loop has copied the units before `offset`.
AsciiPart == \A k \in 1 .. offset : mem[k] = str[k] /\ str[k] <= 127

\* The bytes that the string has so far.
SoFar == SubSeq(str, 1, offset) \o octets

AtMalloc ==
  /\ arg = str /\ mem = <<>> /\ offset = 0
  /\ octets = <<>> /\ i = 0 /\ string = <<>>

AtAscii ==
  /\ arg = str /\ Len(mem) = Len(str) /\ AsciiPart
  /\ octets = <<>> /\ i = 0 /\ string = <<>>

AtEncode ==
  /\ offset < Len(str) /\ arg = SubSeq(str, offset + 1, Len(str))
  /\ Len(mem) = offset + 3 * Len(arg) /\ AsciiPart
  /\ i <= Len(arg) /\ Len(octets) <= 3 * i /\ string = <<>>
  /\ Encoded(str, offset + i, SoFar)

AtPassed ==
  /\ mem \in Seq(Octet) /\ offset = Len(mem) /\ string = <<>>
  /\ Encoded(str, Len(str), mem)

AtDecode ==
  \E U \in SUBSET Nat, at \in [Nat -> Nat] :
    /\ Aligned(str, Len(str), octets, U, at)
    /\ Len(string) \in U /\ at[Len(string)] = i
    /\ string = SubSeq(str, 1, Len(string))

IndInv ==
  /\ TypeOK
  /\ pc = "malloc" => AtMalloc
  /\ pc = "ascii" => AtAscii
  /\ pc = "encode" => AtEncode
  /\ pc = "passed" => AtPassed
  /\ pc = "decode" => AtDecode
  /\ pc = "done" => string = str
  /\ pc # "thrown"

\* What every part needs of the types.
LEMMA Typed ==
  ASSUME TypeOK
  PROVE  /\ str \in Seq(CodeUnit) /\ Len(str) \in Nat
         /\ mem \in Seq(Byte) /\ Len(mem) \in Nat
         /\ offset \in Nat /\ offset <= Len(mem)
         /\ i \in Nat /\ Len(octets) \in Nat /\ Len(arg) \in Nat
         /\ Len(string) \in Nat
BY StringsAssumption DEF TypeOK, Byte

\* The variables of passStringToWasm0() before its first step.
LEMMA InitIndInv ==
  ASSUME Init
  PROVE  IndInv
<1>1. TypeOK
  BY StringsAssumption DEF Init, TypeOK
<1> QED  BY <1>1 DEF Init, IndInv, AtMalloc

\* A block of one byte a unit, in which nothing is written yet.
LEMMA MallocStep ==
  ASSUME IndInv, Malloc
  PROVE  IndInv'
<1> USE DEF Malloc
<1>1. TypeOK /\ AtMalloc
  BY DEF IndInv
<1>2. /\ <<>> \in Seq(Byte) /\ Len(arg) \in Nat
      /\ Len(<<>>) = 0 /\ offset = 0
  BY <1>1, Typed DEF AtMalloc
<1>3. mem' \in Seq(Byte) /\ Len(mem') = Len(arg)
  BY <1>2, ReallocProperties
<1>4. TypeOK'
  BY <1>1, <1>2, <1>3 DEF TypeOK, Byte
<1>5. AtAscii'
  BY <1>1, <1>2, <1>3 DEF AtMalloc, AtAscii, AsciiPart
<1> QED  BY <1>4, <1>5 DEF IndInv

\* One more unit is copied as it is.
LEMMA CopyAsciiStep ==
  ASSUME IndInv, CopyAscii
  PROVE  IndInv'
<1> USE DEF CopyAscii
<1>1. TypeOK /\ AtAscii
  BY DEF IndInv
<1>2. /\ str \in Seq(CodeUnit) /\ Len(str) \in Nat /\ mem \in Seq(Byte)
      /\ offset \in Nat /\ offset < Len(str) /\ Len(mem) = Len(str)
      /\ str[offset + 1] <= 127 /\ arg = str
  BY <1>1, Typed DEF AtAscii
<1>3. offset + 1 \in 1 .. Len(mem)
  BY <1>2
<1>4. arg[offset + 1] \in Byte
  BY <1>2, AsciiOctets DEF Byte
<1>5. /\ mem' \in Seq(Byte) /\ Len(mem') = Len(mem)
      /\ \A k \in 1 .. Len(mem) :
           mem'[k] = IF k = offset + 1 THEN arg[offset + 1] ELSE mem[k]
  BY <1>2, <1>3, <1>4, ExceptSeq
<1>6. TypeOK'
  BY <1>1, <1>2, <1>5 DEF TypeOK, Byte
<1>7. AsciiPart'
  BY <1>1, <1>2, <1>5 DEF AtAscii, AsciiPart
<1>8. AtAscii'
  BY <1>1, <1>5, <1>7 DEF AtAscii
<1> QED  BY <1>6, <1>8 DEF IndInv

\* The units before the first one that is not ASCII are encoded already.
LEMMA GrowForRestStep ==
  ASSUME IndInv, GrowForRest
  PROVE  /\ IndInv'
         /\ SoFar' = SubSeq(str, 1, offset) /\ offset' + i' = offset
<1> USE DEF GrowForRest
<1>1. TypeOK /\ AtAscii
  BY DEF IndInv
<1>2. /\ str \in Seq(CodeUnit) /\ Len(str) \in Nat /\ mem \in Seq(Byte)
      /\ offset \in Nat /\ offset < Len(str) /\ Len(mem) = Len(str)
      /\ arg = str /\ octets = <<>> /\ i = 0 /\ string = <<>>
  BY <1>1, Typed DEF AtAscii
<1>3. /\ arg' \in Seq(CodeUnit) /\ Len(arg') = Len(str) - offset
      /\ arg' = SubSeq(str, offset + 1, Len(str))
  BY <1>2, SubSeqProperties
<1>4. offset + 3 * Len(arg') \in Nat /\ offset <= offset + 3 * Len(arg')
  BY <1>2, <1>3
<1>5. /\ mem' \in Seq(Byte) /\ Len(mem') = offset + 3 * Len(arg')
      /\ \A k \in 1 .. offset : mem'[k] = mem[k]
  <2> DEFINE size == offset + 3 * Len(arg')
  <2>1. size \in Nat /\ offset <= size /\ mem' = Realloc(mem, size)
    BY <1>4
  <2> HIDE DEF size
  <2>2. /\ mem' \in Seq(Byte) /\ Len(mem') = size
        /\ \A k \in 1 .. size :
             mem'[k] = IF k <= Len(mem) THEN mem[k] ELSE Junk
    <3>1. mem \in Seq(Byte) /\ size \in Nat
      BY <1>2, <2>1
    <3>2. /\ Realloc(mem, size) \in Seq(Byte)
          /\ Len(Realloc(mem, size)) = size
          /\ \A k \in 1 .. size :
               Realloc(mem, size)[k] = IF k <= Len(mem) THEN mem[k] ELSE Junk
      BY ONLY <3>1, ReallocProperties
    <3> QED  BY ONLY <2>1, <3>2
  <2>3. \A k \in 1 .. offset : mem'[k] = mem[k]
    BY <1>2, <2>1, <2>2
  <2> QED  BY <2>2, <2>3 DEF size
<1>6. TypeOK'
  BY <1>1, <1>2, <1>3, <1>4, <1>5 DEF TypeOK, Byte
<1>7. AsciiPart'
  BY <1>1, <1>2, <1>5 DEF AtAscii, AsciiPart
<1>8. /\ Encoded(str, offset, SubSeq(str, 1, offset))
      /\ SubSeq(str, 1, offset) \in Seq(Octet)
  BY <1>1, <1>2, AsciiEncoded DEF AtAscii, AsciiPart
<1>9. SoFar' = SubSeq(str, 1, offset)
  BY <1>2, <1>8, ConcatEmptySeq DEF SoFar
<1>10. Encoded(str, offset + i, SoFar)'
  <2>1. offset' + i' = offset /\ str' = str
    BY <1>2
  <2> QED  BY <1>8, <1>9, <2>1
<1>11. AtEncode'
  BY <1>2, <1>3, <1>5, <1>7, <1>10 DEF AtEncode
<1>12. offset' + i' = offset
  BY <1>2
<1> QED  BY <1>6, <1>9, <1>11, <1>12 DEF IndInv

\* A string of ASCII units only is its own UTF-8.
LEMMA AsciiOnlyStep ==
  ASSUME IndInv, AsciiOnly
  PROVE  /\ IndInv'
         /\ offset = Len(str) /\ mem = SubSeq(str, 1, Len(str))
<1> USE DEF AsciiOnly
<1>1. TypeOK /\ AtAscii
  BY DEF IndInv
<1>2. /\ str \in Seq(CodeUnit) /\ Len(str) \in Nat /\ mem \in Seq(Byte)
      /\ offset = Len(str) /\ Len(mem) = Len(str)
  BY <1>1, Typed DEF AtAscii
<1> DEFINE bytes == SubSeq(str, 1, Len(str))
<1>3. /\ bytes \in Seq(Octet) /\ Len(bytes) = Len(str)
      /\ \A k \in 1 .. Len(str) : bytes[k] = str[k]
      /\ Encoded(str, Len(str), bytes)
  BY <1>1, <1>2, AsciiEncoded DEF AtAscii, AsciiPart
<1>4. bytes \in Seq(Byte)
  BY <1>3, SeqMonotonic DEF Byte
<1>5. \A k \in 1 .. Len(mem) : mem[k] = bytes[k]
  BY <1>1, <1>2, <1>3 DEF AtAscii, AsciiPart
<1> HIDE DEF bytes
<1>6. mem = bytes
  BY <1>2, <1>3, <1>4, <1>5, SeqEqual
<1>7. TypeOK'
  BY <1>1 DEF TypeOK
<1>8. AtPassed'
  BY <1>1, <1>2, <1>3, <1>6 DEF AtPassed, AtAscii
<1>9. IndInv'
  BY <1>7, <1>8 DEF IndInv
<1> QED  BY <1>2, <1>6, <1>9 DEF bytes

\* One more code point, which arg has where str has it.
LEMMA EncodeStep ==
  ASSUME IndInv, Encode
  PROVE  LET codePoint == CodePointAt(str, offset + i)
         IN /\ IndInv' /\ i' \in i + 1 .. Len(arg)
            /\ offset + i \in Nat /\ offset + i < Len(str)
            /\ offset' + i' = (offset + i) + Units(codePoint)
            /\ SoFar \in Seq(Octet) /\ SoFar' = SoFar \o Octets(codePoint)
<1>1. TypeOK /\ AtEncode
  BY DEF IndInv, Encode
<1>2. /\ str \in Seq(CodeUnit) /\ Len(str) \in Nat /\ mem \in Seq(Byte)
      /\ offset \in Nat /\ offset < Len(str) /\ i \in Nat /\ Len(octets) \in Nat
      /\ arg = SubSeq(str, offset + 1, Len(str))
      /\ arg \in Seq(CodeUnit) /\ octets \in Seq(Octet) /\ i < Len(arg)
  BY <1>1, Typed DEF AtEncode, TypeOK, Encode
<1>3. Len(arg) = Len(str) - offset
  BY <1>2, SubSeqProperties
<1>4. offset + i \in Nat /\ offset + i < Len(str)
  BY <1>2, <1>3
<1> DEFINE cp == CodePointAt(arg, i)
<1>5. cp = CodePointAt(str, offset + i)
  BY <1>2, <1>4, CodePointOfRest, SMTT(60)
<1>6. /\ cp \in CodePoint /\ Units(cp) \in 1 .. 2
      /\ i + Units(cp) <= Len(arg)
  BY <1>2, CodePointAtReads
<1>7. /\ Octets(cp) \in Seq(Octet)
      /\ Len(Octets(cp)) \in 1 .. 4
      /\ Len(Octets(cp)) <= 3 * Units(cp)
  BY <1>6, OctetsShort
<1>8. octets' = octets \o Octets(cp) /\ i' = i + Units(cp)
  BY DEF Encode
<1> DEFINE w == Units(cp)
           o == Octets(cp)
<1> HIDE DEF cp
<1>9. /\ octets' \in Seq(Octet)
      /\ Len(octets') = Len(octets) + Len(Octets(cp))
  <2> HIDE DEF o
  <2> QED  BY <1>2, <1>7, <1>8, ConcatProperties DEF o
<1>10. /\ i' \in i + 1 .. Len(arg) /\ i' \in Nat /\ i' <= Len(arg)
       /\ offset + i' = (offset + i) + w
  <2>1. i' = i + w /\ w \in 1 .. 2 /\ i + w <= Len(arg)
    BY <1>6, <1>8
  <2> HIDE DEF w
  <2>2. \A x, y, z \in Nat, k \in 1 .. 2 :
          x + k <= y => /\ x + k \in x + 1 .. y /\ x + k \in Nat
                        /\ z + (x + k) = (z + x) + k
    OBVIOUS
  <2>3. i \in Nat /\ Len(arg) \in Nat /\ offset \in Nat
    BY <1>2
  <2> QED  BY ONLY <2>1, <2>2, <2>3
<1>11. Len(octets') <= 3 * i'
  <2>1. /\ i' = i + w /\ w \in 1 .. 2 /\ Len(octets') = Len(octets) + Len(o)
        /\ Len(o) \in 1 .. 4 /\ Len(o) <= 3 * w
    BY <1>6, <1>7, <1>8, <1>9
  <2>2. Len(octets) <= 3 * i
    BY <1>1 DEF AtEncode
  <2> HIDE DEF w, o
  <2> QED  BY <1>2, <2>1, <2>2
<1>12. SoFar \in Seq(Octet) /\ SoFar' = SoFar \o o
  <2>1. \A k \in 1 .. offset : str[k] <= 127
    BY <1>1 DEF AtEncode, AsciiPart
  <2>2. SubSeq(str, 1, offset) \in Seq(Octet)
    <3>1. str \in Seq(CodeUnit) /\ offset \in Nat /\ offset <= Len(str)
      BY <1>2
    <3> QED  BY ONLY <2>1, <3>1, AsciiEncoded
  <2> HIDE DEF o
  <2>3. o \in Seq(Octet) /\ octets' = octets \o o
    BY <1>7, <1>8 DEF o
  <2>4. SoFar \in Seq(Octet)
    BY <1>2, <2>2, ConcatProperties DEF SoFar
  <2>5. SubSeq(str, 1, offset) \o (octets \o o) = (SubSeq(str, 1, offset) \o octets) \o o
    <3> DEFINE ascii == SubSeq(str, 1, offset)
    <3>1. octets \in Seq(Octet) /\ o \in Seq(Octet) /\ ascii \in Seq(Octet)
      BY <1>2, <2>2, <2>3
    <3> HIDE DEF ascii
    <3>2. \A a, b, c \in Seq(Octet) : a \o (b \o c) = (a \o b) \o c
      BY ConcatAssociative, SMTT(60)
    <3>3. ascii \o (octets \o o) = (ascii \o octets) \o o
      BY ONLY <3>1, <3>2
    <3> QED  BY <3>3 DEF ascii
  <2>6. str' = str /\ offset' = offset
    BY DEF Encode
  <2> QED  BY <2>3, <2>4, <2>5, <2>6 DEF SoFar
<1>13. Encoded(str, offset + i, SoFar)'
  <2>1. Encoded(str, offset + i, SoFar)
    BY <1>1 DEF AtEncode
  <2> DEFINE n == offset + i
  <2>2. n \in Nat /\ n < Len(str) /\ cp = CodePointAt(str, n)
    BY <1>4, <1>5
  <2>3. Encoded(str, n, SoFar)
    BY <2>1
  <2> HIDE DEF n
  <2>4. Encoded(str, n + Units(cp), SoFar \o Octets(cp))
    BY <1>2, <1>12, <2>2, <2>3, EncodedFurther
  <2>5. str' = str /\ offset' = offset /\ offset + i' = n + Units(cp)
    BY <1>10 DEF n, Encode
  <2> QED  BY <1>12, <2>4, <2>5
<1>14. TypeOK'
  BY <1>1, <1>9, <1>10 DEF TypeOK, Encode
<1>15. AtEncode'
  BY <1>1, <1>10, <1>11, <1>13 DEF AtEncode, AsciiPart, Encode
<1>16. pc' = "encode" /\ offset' = offset
  BY DEF Encode
<1>17. IndInv'
  BY <1>14, <1>15, <1>16 DEF IndInv
<1> QED  BY <1>4, <1>5, <1>10, <1>12, <1>16, <1>17

\* The octets fit behind the ASCII bytes, and the block holds both.
LEMMA EncodeStringStep ==
  ASSUME IndInv, EncodeString
  PROVE  IndInv' /\ mem' = SoFar /\ offset + i = Len(str)
<1> USE DEF EncodeString
<1>1. TypeOK /\ AtEncode
  BY DEF IndInv
<1>2. /\ str \in Seq(CodeUnit) /\ Len(str) \in Nat /\ mem \in Seq(Byte)
      /\ offset \in Nat /\ offset < Len(str) /\ i \in Nat /\ Len(octets) \in Nat
      /\ Len(mem) \in Nat /\ Len(arg) \in Nat
      /\ arg = SubSeq(str, offset + 1, Len(str)) /\ i = Len(arg)
      /\ octets \in Seq(Octet) /\ string = <<>> /\ Len(octets) <= 3 * i
      /\ Len(mem) = offset + 3 * Len(arg)
  BY <1>1, Typed DEF AtEncode, TypeOK
<1>3. Len(arg) = Len(str) - offset
  BY <1>2, SubSeqProperties
<1>4. offset + i = Len(str)
  BY <1>2, <1>3
<1>5. offset + Len(octets) <= Len(mem) /\ offset + Len(octets) \in Nat
  BY <1>2
<1> DEFINE block == Written(mem, offset, octets)
           size == offset + Len(octets)
<1>6. /\ block \in Seq(Byte) /\ Len(block) = Len(mem)
      /\ \A k \in 1 .. offset : block[k] = mem[k]
      /\ \A k \in 1 .. Len(octets) : block[offset + k] = octets[k]
  BY <1>2, <1>5, WrittenProperties, SMTT(60)
<1>7. mem' = Realloc(block, size) /\ offset' = size /\ pc' = "passed"
  BY <1>5
<1>8. size \in Nat /\ size <= Len(block)
  BY <1>5, <1>6
<1> HIDE DEF block, size
<1>9. /\ mem' \in Seq(Byte) /\ Len(mem') = size
      /\ \A k \in 1 .. size : mem'[k] = block[k]
  <2>1. /\ Realloc(block, size) \in Seq(Byte)
        /\ Len(Realloc(block, size)) = size
        /\ \A k \in 1 .. size :
             Realloc(block, size)[k] = IF k <= Len(block) THEN block[k] ELSE Junk
    BY ONLY <1>6, <1>8, ReallocProperties
  <2>2. Len(block) \in Nat
    BY <1>2, <1>6
  <2>3. \A k \in 1 .. size : k <= Len(block)
    BY ONLY <1>8, <2>2
  <2> QED  BY ONLY <1>7, <2>1, <2>3
<1> DEFINE ascii == SubSeq(str, 1, offset)
<1>10. /\ ascii \in Seq(Octet) /\ Len(ascii) = offset
       /\ \A k \in 1 .. offset : ascii[k] = str[k] /\ mem[k] = str[k]
  <2>1. \A k \in 1 .. offset : str[k] <= 127 /\ mem[k] = str[k]
    BY <1>1 DEF AtEncode, AsciiPart
  <2>2. str \in Seq(CodeUnit) /\ offset \in Nat /\ offset <= Len(str)
    BY <1>2
  <2>3. /\ ascii \in Seq(Octet) /\ Len(ascii) = offset
        /\ \A k \in 1 .. offset : ascii[k] = str[k]
    BY ONLY <2>1, <2>2, AsciiEncoded
  <2> QED  BY ONLY <2>1, <2>3
<1> HIDE DEF ascii
<1>11. /\ SoFar \in Seq(Octet) /\ Len(SoFar) = size
       /\ \A k \in 1 .. size :
            SoFar[k] = IF k <= offset THEN ascii[k] ELSE octets[k - offset]
  <2>1. octets \in Seq(Octet) /\ SoFar = ascii \o octets
    BY <1>2 DEF SoFar, ascii
  <2>2. /\ ascii \o octets \in Seq(Octet)
        /\ Len(ascii \o octets) = Len(ascii) + Len(octets)
        /\ \A k \in 1 .. Len(ascii) + Len(octets) :
             (ascii \o octets)[k] = IF k <= Len(ascii) THEN ascii[k]
                                    ELSE octets[k - Len(ascii)]
    BY ONLY <1>10, <2>1, ConcatProperties
  <2> QED  BY ONLY <1>10, <2>1, <2>2 DEF size
<1>12. ASSUME NEW k \in 1 .. size
       PROVE  mem'[k] = SoFar[k]
  <2>1. CASE k <= offset
    BY <1>2, <1>6, <1>8, <1>9, <1>10, <1>11, <2>1
  <2>2. CASE ~(k <= offset)
    <3>1. k - offset \in 1 .. Len(octets) /\ offset + (k - offset) = k
      BY <1>2, <2>2 DEF size
    <3>2. block[k] = octets[k - offset]
      BY <1>6, <3>1
    <3> QED  BY <1>9, <1>11, <2>2, <3>2
  <2> QED  BY <2>1, <2>2
<1>13. SoFar \in Seq(Byte)
  BY <1>11, SeqMonotonic DEF Byte
<1>14. mem' = SoFar
  BY <1>9, <1>11, <1>12, <1>13, SeqEqual
<1>15. Encoded(str, Len(str), SoFar)
  <2>1. Encoded(str, offset + i, SoFar)
    BY <1>1 DEF AtEncode
  <2> QED  BY <1>4, <2>1
<1>16. TypeOK'
  BY <1>1, <1>7, <1>8, <1>9 DEF TypeOK, Byte
<1>17. AtPassed'
  BY <1>2, <1>7, <1>11, <1>14, <1>15 DEF AtPassed
<1>18. IndInv'
  BY <1>7, <1>16, <1>17 DEF IndInv
<1> QED  BY <1>4, <1>14, <1>18

\* decode() starts with the bytes that were passed.
LEMMA GetStringStep ==
  ASSUME IndInv, GetString
  PROVE  IndInv'
<1> USE DEF GetString
<1>1. TypeOK /\ AtPassed
  BY DEF IndInv
<1>2. str \in Seq(CodeUnit) /\ mem \in Seq(Octet) /\ offset = Len(mem) /\ string = <<>>
  BY <1>1, Typed DEF AtPassed
<1>3. octets' = mem
  BY <1>2, SubSeqFull
<1>4. TypeOK'
  BY <1>1, <1>2, <1>3 DEF TypeOK
<1>5. PICK U \in SUBSET Nat, at \in [Nat -> Nat] :
        Aligned(str, Len(str), mem, U, at)
  BY <1>1 DEF AtPassed, Encoded
<1>6. Len(string) = 0 /\ string = SubSeq(str, 1, Len(string))
  BY <1>2, SubSeqEmpty
<1>7. 0 \in U /\ at[0] = 0
  BY <1>5 DEF Aligned
<1>8. AtDecode'
  BY <1>3, <1>5, <1>6, <1>7 DEF AtDecode
<1> QED  BY <1>4, <1>8 DEF IndInv

\* decode() finds the next code point where encode() left it.
LEMMA DecodeStep ==
  ASSUME IndInv, Decode
  PROVE  IndInv' /\ i' \in i + 1 .. Len(octets)
<1>1. /\ TypeOK /\ AtDecode /\ i < Len(octets)
      /\ string' = string \o FromCodePoint(Decoded(octets, i).codePoint)
      /\ i' = Decoded(octets, i).next
      /\ pc' = "decode" /\ UNCHANGED <<str, arg, mem, offset, octets>>
  BY DEF IndInv, Decode
<1>2. PICK U \in SUBSET Nat, at \in [Nat -> Nat] :
        /\ Aligned(str, Len(str), octets, U, at)
        /\ Len(string) \in U /\ at[Len(string)] = i
        /\ string = SubSeq(str, 1, Len(string))
  BY <1>1 DEF AtDecode
<1> DEFINE u == Len(string)
           cp == CodePointAt(str, u)
           o == Octets(cp)
           w == Units(cp)
<1>3. str \in Seq(CodeUnit) /\ octets \in Seq(Octet) /\ u \in Nat /\ Len(str) \in Nat
  BY <1>1, Typed DEF TypeOK
<1>4. u # Len(str)
  BY <1>1, <1>2 DEF Aligned
<1>5. /\ u < Len(str) /\ u + w \in U
      /\ at[u + w] = at[u] + Len(o)
      /\ at[u] + Len(o) <= Len(octets)
      /\ \A k \in 1 .. Len(o) : octets[at[u] + k] = o[k]
  BY <1>2, <1>4 DEF Aligned
<1>6. at[u] = i /\ i \in Nat
  BY <1>1, <1>2 DEF TypeOK
<1>7. /\ cp \in CodePoint /\ w \in 1 .. 2 /\ u + w <= Len(str)
      /\ FromCodePoint(cp) = SubSeq(str, u + 1, u + w)
  <2>1. u < Len(str)
    BY <1>5
  <2> HIDE DEF u
  <2> QED  BY <1>3, <2>1, CodePointAtReads
<1>8. Len(o) \in 1 .. 4
  BY <1>7, OctetsShort
<1>9. Decoded(octets, i) = [codePoint |-> cp, next |-> i + Len(o)]
  <2>1. /\ i + Len(o) <= Len(octets)
        /\ \A k \in 1 .. Len(o) : octets[i + k] = o[k]
    BY <1>5, <1>6
  <2> HIDE DEF cp
  <2> QED  BY <1>3, <1>6, <1>7, <2>1, DecodesOctets
<1>10. i' = i + Len(o) /\ string' = string \o FromCodePoint(cp)
  <2> HIDE DEF cp, o
  <2>1. Decoded(octets, i).codePoint = cp /\ Decoded(octets, i).next = i + Len(o)
    BY ONLY <1>9
  <2> QED  BY ONLY <1>1, <2>1
<1>11. i' \in i + 1 .. Len(octets) /\ i' \in Nat
  <2>1. i' = i + Len(o) /\ i + Len(o) <= Len(octets) /\ Len(octets) \in Nat
    BY <1>3, <1>5, <1>6, <1>10
  <2>2. \A x, y \in Nat, k \in 1 .. 4 :
          x + k <= y => x + k \in x + 1 .. y /\ x + k \in Nat
    OBVIOUS
  <2> HIDE DEF o
  <2> QED  BY ONLY <1>6, <1>8, <2>1, <2>2
<1>12. /\ string' = SubSeq(str, 1, u + w)
       /\ string' \in Seq(CodeUnit) /\ Len(string') = u + w
  <2>1. string' = SubSeq(str, 1, u) \o SubSeq(str, u + 1, u + w)
    BY <1>2, <1>7, <1>10
  <2> DEFINE v == u + w
  <2>2. v \in Nat /\ v \in u .. Len(str) /\ u \in 0 .. Len(str)
    <3>1. \A x, y \in Nat, k \in 1 .. 2 :
            x + k <= y => x + k \in Nat /\ x + k \in x .. y /\ x \in 0 .. y
      OBVIOUS
    <3> HIDE DEF u, w
    <3> QED  BY ONLY <1>3, <1>7, <3>1 DEF v
  <2> HIDE DEF u, v
  <2>3. SubSeq(str, 1, u) \o SubSeq(str, u + 1, v) = SubSeq(str, 1, v)
    <3>1. /\ 1 \in 1 .. Len(str) + 1 /\ u \in 1 - 1 .. Len(str)
          /\ v \in u .. Len(str)
      BY ONLY <1>3, <2>2
    <3>2. str \in Seq(CodeUnit)
      BY <1>3
    <3> QED  BY ONLY <3>1, <3>2, ConcatAdjacentSubSeq
  <2>4. SubSeq(str, 1, v) \in Seq(CodeUnit) /\ Len(SubSeq(str, 1, v)) = v
    <3>1. v \in Nat /\ v <= Len(str) /\ str \in Seq(CodeUnit) /\ Len(str) \in Nat
      BY ONLY <1>3, <2>2
    <3>2. \A k \in 1 .. v : str[k] \in CodeUnit
      BY ONLY <3>1, ElementOfSeq
    <3> QED  BY ONLY <3>1, <3>2, SubSeqProperties, SMTT(60)
  <2> QED  BY <2>1, <2>3, <2>4 DEF v
<1>13. TypeOK'
  BY <1>1, <1>11, <1>12 DEF TypeOK
<1>14. AtDecode'
  <2>1. /\ Len(string') \in U /\ at[Len(string')] = i'
        /\ string' = SubSeq(str, 1, Len(string'))
    BY <1>5, <1>6, <1>10, <1>12
  <2> QED  BY <1>1, <1>2, <2>1 DEF AtDecode
<1> QED  BY <1>1, <1>11, <1>13, <1>14 DEF IndInv

\* At the last octet, all units are back.
LEMMA DecodeEndStep ==
  ASSUME IndInv, DecodeEnd
  PROVE  IndInv'
<1>1. /\ TypeOK /\ AtDecode /\ i >= Len(octets) /\ pc' = "done"
      /\ UNCHANGED <<str, arg, mem, offset, octets, i, string>>
  BY DEF IndInv, DecodeEnd
<1>2. PICK U \in SUBSET Nat, at \in [Nat -> Nat] :
        /\ Aligned(str, Len(str), octets, U, at)
        /\ Len(string) \in U /\ at[Len(string)] = i
        /\ string = SubSeq(str, 1, Len(string))
  BY <1>1 DEF AtDecode
<1> DEFINE u == Len(string)
           cp == CodePointAt(str, u)
<1>3. /\ str \in Seq(CodeUnit) /\ Len(str) \in Nat /\ u \in Nat
      /\ Len(octets) \in Nat /\ i \in Nat
  BY <1>1, Typed
<1>4. u = Len(str)
  <2> SUFFICES ASSUME u # Len(str)
               PROVE  FALSE
    OBVIOUS
  <2>1. u < Len(str) /\ i + Len(Octets(cp)) <= Len(octets)
    BY <1>2 DEF Aligned
  <2>2. cp \in CodePoint
    <3> HIDE DEF u
    <3> QED  BY <1>3, <2>1, CodePointAtReads
  <2>3. Len(Octets(cp)) \in 1 .. 4
    BY <2>2, OctetsShort
  <2>4. \A x, y \in Nat, k \in 1 .. 4 : ~(x >= y /\ x + k <= y)
    OBVIOUS
  <2> HIDE DEF cp
  <2> QED  BY ONLY <1>1, <1>3, <2>1, <2>3, <2>4
<1>5. string = str
  BY <1>2, <1>3, <1>4, SubSeqFull
<1>6. TypeOK'
  BY <1>1 DEF TypeOK
<1> QED  BY <1>1, <1>5, <1>6 DEF IndInv

-----------------------------------------------------------------------------
(* The table of UTF-8.  The encoder's octets of one code point are those   *)
(* of the table, also where UTF-8 does not allow them; the places of the   *)
(* characters are counted one character at a time, as the loops go on.     *)

\* The branches of encode() are the rows of the table of RFC 3629.
LEMMA OctetsStandard ==
  ASSUME NEW cp \in CodePoint
  PROVE  /\ OctetCount(cp) = Len(Octets(cp))
         /\ OctetCount(cp) \in 1 .. 4
         /\ \A m \in 1 .. OctetCount(cp) : Wtf8Of(cp)[m] = Octets(cp)[m]
<1> USE DEF CodePoint
<1>1. CASE cp <= 127
  <2>1. OctetCount(cp) = 1
    BY <1>1 DEF OctetCount, LastOf
  <2>2. Octets(cp) = << cp >>
    BY <1>1 DEF Octets
  <2>3. Wtf8Of(cp)[1] = cp
    BY <2>1 DEF Wtf8Of, Marker, PowerOf64
  <2> QED  BY <2>1, <2>2, <2>3
<1>2. CASE 128 <= cp /\ cp <= 2047
  <2>1. OctetCount(cp) = 2
    BY <1>2 DEF OctetCount, LastOf
  <2>2. Octets(cp) = << 192 + cp \div 64, 128 + (cp % 64) >>
    BY <1>2 DEF Octets, Continuation
  <2>3. Wtf8Of(cp)[1] = 192 + cp \div 64 /\ Wtf8Of(cp)[2] = 128 + (cp % 64)
    BY <2>1 DEF Wtf8Of, Marker, PowerOf64
  <2> QED  BY <2>1, <2>2, <2>3
<1>3. CASE 2048 <= cp /\ cp <= 65535
  <2>1. OctetCount(cp) = 3
    BY <1>3 DEF OctetCount, LastOf
  <2>2. Octets(cp) = << 224 + cp \div 4096, 128 + ((cp \div 64) % 64),
                        128 + (cp % 64) >>
    BY <1>3 DEF Octets, Continuation
  <2>3. /\ Wtf8Of(cp)[1] = 224 + cp \div 4096
        /\ Wtf8Of(cp)[2] = 128 + ((cp \div 64) % 64)
        /\ Wtf8Of(cp)[3] = 128 + (cp % 64)
    BY <2>1 DEF Wtf8Of, Marker, PowerOf64
  <2> QED  BY <2>1, <2>2, <2>3
<1>4. CASE 65536 <= cp
  <2>1. OctetCount(cp) = 4
    BY <1>4 DEF OctetCount, LastOf
  <2>2. Octets(cp) = << 240 + cp \div 262144, 128 + ((cp \div 4096) % 64),
                        128 + ((cp \div 64) % 64), 128 + (cp % 64) >>
    BY <1>4 DEF Octets, Continuation
  <2>3. /\ Wtf8Of(cp)[1] = 240 + cp \div 262144
        /\ Wtf8Of(cp)[2] = 128 + ((cp \div 4096) % 64)
        /\ Wtf8Of(cp)[3] = 128 + ((cp \div 64) % 64)
        /\ Wtf8Of(cp)[4] = 128 + (cp % 64)
    BY <2>1 DEF Wtf8Of, Marker, PowerOf64
  <2> QED  BY <2>1, <2>2, <2>3
<1> QED  BY <1>1, <1>2, <1>3, <1>4

\* After the character that starts at unit n + 1, codePointAt() is called at
\* the next start, and there is none in between.
LEMMA NextStart ==
  ASSUME NEW s \in Seq(CodeUnit), NEW n \in Nat, n + 1 \in Starts(s)
  PROVE  LET m == n + Units(CodePointAt(s, n))
         IN /\ m \in Nat /\ n < m /\ m <= Len(s)
            /\ m = Len(s) \/ m + 1 \in Starts(s)
            /\ \A k \in Starts(s) : k < m + 1 <=> k < n + 1 \/ k = n + 1
<1> DEFINE cp == CodePointAt(s, n)
           Pair == IsHigh(s[n + 1]) /\ n + 1 < Len(s) /\ IsLow(s[n + 2])
<1>1. Len(s) \in Nat /\ n < Len(s) /\ \A k \in 1 .. Len(s) : s[k] \in Nat /\ s[k] <= 65535
  BY ElementOfSeq DEF Starts, CodeUnit
<1>2. CASE Pair
  <2>1. /\ s[n + 1] \in Nat /\ 55296 <= s[n + 1] /\ s[n + 1] <= 56319
        /\ s[n + 2] \in Nat /\ 56320 <= s[n + 2] /\ s[n + 2] <= 57343
        /\ n + 2 <= Len(s)
    BY <1>1, <1>2 DEF IsHigh, IsLow
  <2>2. cp = 65536 + (s[n + 1] - 55296) * 1024 + (s[n + 2] - 56320)
    BY <1>2 DEF CodePointAt
  <2> HIDE DEF cp
  <2>3. Units(cp) = 2
    BY <2>1, <2>2, SMTT(60) DEF Units
  <2>4. n + 2 = Len(s) \/ n + 3 \in Starts(s)
    BY <1>1, <2>1, SMTT(60) DEF Starts, IsHigh, IsLow
  <2>5. n + 2 \notin Starts(s)
    BY <1>1, <2>1 DEF Starts, IsHigh, IsLow
  <2>6. \A k \in Starts(s) : k \in Nat
    BY DEF Starts
  <2> QED  BY <1>1, <2>1, <2>3, <2>4, <2>5, <2>6, SMTT(60) DEF cp
<1>3. CASE ~Pair
  <2>1. cp = s[n + 1]
    BY <1>3 DEF CodePointAt
  <2>2. s[n + 1] \in Nat /\ s[n + 1] <= 65535
    BY <1>1
  <2> HIDE DEF cp
  <2>3. Units(cp) = 1
    BY <2>1, <2>2 DEF Units
  <2>4. n + 1 = Len(s) \/ n + 2 \in Starts(s)
    BY <1>1, <1>3 DEF Starts
  <2>5. \A k \in Starts(s) : k \in Nat
    BY DEF Starts
  <2> QED  BY <1>1, <2>3, <2>4, <2>5 DEF cp
<1> QED  BY <1>2, <1>3

\* 1 .. n has n elements.
LEMMA IntervalSize ==
  \A n \in Nat : IsFiniteSet(1 .. n) /\ Cardinality(1 .. n) = n
<1> TAKE n \in Nat
<1>1. /\ IsFiniteSet(1 .. n)
      /\ Cardinality(1 .. n) = IF 1 > n THEN 0 ELSE n - 1 + 1
  BY FS_Interval
<1> QED  BY <1>1

\* The octets before the next character are one character's more.
LEMMA OctetsBeforeNext ==
  ASSUME NEW s \in Seq(CodeUnit), NEW n \in Nat, n + 1 \in Starts(s)
  PROVE  LET cp == CodePointAt(s, n)
             here == Cardinality(OctetsBefore(s, n + 1))
         IN /\ here \in Nat
            /\ Cardinality(OctetsBefore(s, n + Units(cp) + 1))
                 = here + Len(Octets(cp))
<1> DEFINE cp == CodePointAt(s, n)
           m == n + Units(cp)
           length == OctetCount(cp)
           A == OctetsBefore(s, n + 1)
           B == OctetsBefore(s, m + 1)
           C == {n + 1} \X (1 .. length)
<1>1. cp \in CodePoint
  <2>1. n < Len(s)
    BY DEF Starts
  <2> QED  BY <2>1, CodePointAtReads
<1>2. length = Len(Octets(cp)) /\ length \in 1 .. 4
  BY <1>1, OctetsStandard
<1>3. /\ m \in Nat /\ n < m
      /\ \A k \in Starts(s) : k < m + 1 <=> k < n + 1 \/ k = n + 1
  BY NextStart
<1>4. B = A \cup C
  <2>1. n + 1 - 1 = n
    OBVIOUS
  <2> DEFINE L(k) == OctetCount(CodePointAt(s, k - 1))
  <2>2. L(n + 1) = length
    BY <2>1
  <2>3. ASSUME NEW x \in Starts(s) \X (1 .. 4)
        PROVE  x \in B <=> x \in A \/ x \in C
    <3>1. x[1] \in Starts(s) /\ x[2] \in 1 .. 4 /\ x = <<x[1], x[2]>>
      OBVIOUS
    <3>2. x \in A <=> x[1] < n + 1 /\ x[2] <= L(x[1])
      BY DEF OctetsBefore
    <3>3. x \in B <=> x[1] < m + 1 /\ x[2] <= L(x[1])
      BY DEF OctetsBefore
    <3>4. x \in C <=> x[1] = n + 1 /\ x[2] \in 1 .. length
      BY <3>1
    <3> HIDE DEF A, B, C, L, m
    <3>5. x \in C <=> x[1] = n + 1 /\ x[2] <= L(x[1])
      BY <1>2, <2>2, <3>1, <3>4
    <3> QED  BY <1>3, <3>1, <3>2, <3>3, <3>5
  <2>4. /\ A \subseteq Starts(s) \X (1 .. 4) /\ B \subseteq Starts(s) \X (1 .. 4)
    BY DEF OctetsBefore
  <2>5. C \subseteq Starts(s) \X (1 .. 4)
    BY <1>2
  <2> HIDE DEF A, B, C
  <2> QED  BY <2>3, <2>4, <2>5
<1>5. A \cap C = {}
  <2>1. \A x \in A : x[1] < n + 1 /\ x[1] \in Nat
    BY DEF OctetsBefore, Starts
  <2>2. \A x \in C : x[1] = n + 1
    OBVIOUS
  <2> HIDE DEF A, C
  <2> QED  BY <2>1, <2>2
<1>6. IsFiniteSet(A) /\ Cardinality(A) \in Nat
  <2>1. Len(s) \in Nat /\ Starts(s) \subseteq 1 .. Len(s)
    BY DEF Starts
  <2>2. IsFiniteSet(1 .. Len(s)) /\ IsFiniteSet(1 .. 4)
    BY ONLY <2>1, IntervalSize
  <2>3. IsFiniteSet(Starts(s))
    BY <2>1, <2>2, FS_Subset
  <2>4. IsFiniteSet(Starts(s) \X (1 .. 4))
    BY <2>2, <2>3, FS_Product
  <2>5. A \in SUBSET (Starts(s) \X (1 .. 4))
    BY DEF OctetsBefore
  <2> QED  BY <2>4, <2>5, FS_Subset, FS_CardinalityType
<1>7. IsFiniteSet(C) /\ Cardinality(C) = length
  <2>1. IsFiniteSet({n + 1}) /\ Cardinality({n + 1}) = 1
    BY FS_Singleton
  <2>2. IsFiniteSet(1 .. length) /\ Cardinality(1 .. length) = length
    <3> HIDE DEF length
    <3>1. length \in Nat
      BY <1>2
    <3> QED  BY ONLY <3>1, IntervalSize
  <2>3. IsFiniteSet(C) /\ Cardinality(C) = Cardinality({n + 1}) * Cardinality(1 .. length)
    BY <2>1, <2>2, FS_Product
  <2>4. \A x : x \in Nat => 1 * x = x
    OBVIOUS
  <2> QED  BY <1>2, <2>1, <2>2, <2>3, <2>4
<1>8. Cardinality(B) = Cardinality(A) + length
  <2> HIDE DEF A, B, C, length
  <2>1. Cardinality(A \cup C) = Cardinality(A) + Cardinality(C) - Cardinality({})
    BY <1>5, <1>6, <1>7, FS_Union
  <2> QED  BY <1>2, <1>4, <1>6, <1>7, <2>1, FS_EmptySet
<1> QED  BY <1>2, <1>6, <1>8

\* The characters before unit n + 1, where a character starts or the string
\* ends, are in `bytes`, each at its place, and nothing else is.
Placed(s, n, bytes) ==
  /\ n = Len(s) \/ n + 1 \in Starts(s)
  /\ Len(bytes) = Cardinality(OctetsBefore(s, n + 1))
  /\ \A k \in Starts(s) :
       k < n + 1 =>
         LET codePoint == CodePointAt(s, k - 1)
             place == Cardinality(OctetsBefore(s, k))
         IN /\ place \in Nat /\ place + OctetCount(codePoint) <= Len(bytes)
            /\ \A m \in 1 .. OctetCount(codePoint) :
                 bytes[place + m] = Wtf8Of(codePoint)[m]

\* All characters in place: the UTF-8 of the string.
LEMMA PlacedIsWtf8 ==
  ASSUME NEW s \in Seq(CodeUnit), NEW bytes, Placed(s, Len(s), bytes)
  PROVE  IsWtf8Of(bytes, s)
<1>1. \A k \in Starts(s) : k < Len(s) + 1
  BY DEF Starts
<1> QED  BY <1>1 DEF Placed, IsWtf8Of

\* Nothing is in place before the first character.
LEMMA NothingPlaced ==
  ASSUME NEW s \in Seq(CodeUnit)
  PROVE  Placed(s, 0, <<>>)
<1>1. 0 = Len(s) \/ 0 + 1 \in Starts(s)
  BY DEF Starts
<1>2. \A k \in Starts(s) : ~(k < 0 + 1)
  BY DEF Starts
<1>3. OctetsBefore(s, 0 + 1) = {}
  BY <1>2 DEF OctetsBefore
<1>4. Len(<<>>) = Cardinality(OctetsBefore(s, 0 + 1))
  BY <1>3, FS_EmptySet
<1> QED  BY <1>1, <1>2, <1>4 DEF Placed

\* One iteration of encode() or of the ASCII loop puts one more character in
\* its place, behind all others.
LEMMA PlacedFurther ==
  ASSUME NEW s \in Seq(CodeUnit), NEW n \in Nat, n < Len(s),
         NEW bytes \in Seq(Octet), Placed(s, n, bytes)
  PROVE  LET codePoint == CodePointAt(s, n)
         IN Placed(s, n + Units(codePoint), bytes \o Octets(codePoint))
<1> DEFINE cp == CodePointAt(s, n)
           o == Octets(cp)
           m == n + Units(cp)
           more == bytes \o o
           place(k) == Cardinality(OctetsBefore(s, k))
<1>1. n + 1 \in Starts(s) /\ Len(bytes) = place(n + 1)
  BY DEF Placed
<1>2. cp \in CodePoint
  BY CodePointAtReads
<1>3. o \in Seq(Octet) /\ Len(o) \in 1 .. 4
  BY <1>2, OctetsShort
<1>4. /\ OctetCount(cp) = Len(o)
      /\ \A j \in 1 .. OctetCount(cp) : Wtf8Of(cp)[j] = o[j]
  BY <1>2, OctetsStandard
<1>5. /\ Len(more) = Len(bytes) + Len(o)
      /\ \A k \in 1 .. Len(bytes) : more[k] = bytes[k]
      /\ \A k \in 1 .. Len(o) : more[Len(bytes) + k] = o[k]
  <2> HIDE DEF o
  <2> QED  BY <1>3, ConcatProperties
<1>6. /\ m = Len(s) \/ m + 1 \in Starts(s)
      /\ \A k \in Starts(s) : k < m + 1 <=> k < n + 1 \/ k = n + 1
  BY <1>1, NextStart
<1>7. place(n + 1) \in Nat /\ place(m + 1) = place(n + 1) + Len(o)
  BY <1>1, OctetsBeforeNext
<1> HIDE DEF more, m, place, o
<1>8. Len(more) = place(m + 1)
  BY <1>1, <1>5, <1>7
<1>9. ASSUME NEW k \in Starts(s), k < m + 1
      PROVE  LET codePoint == CodePointAt(s, k - 1)
             IN /\ place(k) \in Nat /\ place(k) + OctetCount(codePoint) <= Len(more)
                /\ \A j \in 1 .. OctetCount(codePoint) :
                     more[place(k) + j] = Wtf8Of(codePoint)[j]
  <2>1. CASE k < n + 1
    <3> DEFINE c == CodePointAt(s, k - 1)
    <3>1. /\ place(k) \in Nat /\ place(k) + OctetCount(c) <= Len(bytes)
          /\ \A j \in 1 .. OctetCount(c) : bytes[place(k) + j] = Wtf8Of(c)[j]
      BY <2>1 DEF Placed, place
    <3>2. OctetCount(c) \in 1 .. 4
      <4>1. k - 1 \in Nat /\ k - 1 < Len(s)
        BY DEF Starts
      <4>2. c \in CodePoint
        BY <4>1, CodePointAtReads
      <4> QED  BY <4>2, OctetsStandard
    <3> HIDE DEF c
    <3>3. ASSUME NEW j \in 1 .. OctetCount(c)
          PROVE  more[place(k) + j] = Wtf8Of(c)[j]
      <4>1. place(k) + j \in 1 .. Len(bytes)
        BY <3>1, <3>2
      <4> QED  BY <1>5, <3>1, <4>1
    <3>4. place(k) + OctetCount(c) <= Len(more)
      BY <1>3, <1>5, <3>1, <3>2
    <3> QED  BY <3>1, <3>3, <3>4 DEF c
  <2>2. CASE k = n + 1
    <3>1. k - 1 = n
      BY <2>2
    <3>2. place(k) = Len(bytes)
      BY <1>1, <2>2
    <3>3. Len(bytes) + OctetCount(cp) <= Len(more) /\ Len(bytes) \in Nat
      BY <1>3, <1>4, <1>5
    <3>4. \A j \in 1 .. OctetCount(cp) : more[Len(bytes) + j] = Wtf8Of(cp)[j]
      BY <1>4, <1>5
    <3> QED  BY <3>1, <3>2, <3>3, <3>4
  <2> QED  BY <1>6, <1>9, <2>1, <2>2
<1>10. Placed(s, m, more)
  BY <1>6, <1>8, <1>9 DEF Placed, place
<1> QED  BY <1>10 DEF m, more, o

\* What has been written so far, by either loop, is in its place.
PlacedInv ==
  /\ pc = "ascii" => Placed(str, offset, SubSeq(str, 1, offset))
  /\ pc = "encode" => Placed(str, offset + i, SoFar)
  /\ pc = "passed" => Placed(str, Len(str), mem)

\* An ASCII unit takes the next place.
LEMMA CopyAsciiPlaced ==
  ASSUME IndInv, PlacedInv, CopyAscii
  PROVE  PlacedInv'
<1>1. TypeOK /\ AtAscii /\ Placed(str, offset, SubSeq(str, 1, offset))
  BY DEF IndInv, PlacedInv, CopyAscii
<1>2. /\ str \in Seq(CodeUnit) /\ Len(str) \in Nat /\ offset \in Nat
      /\ offset < Len(str) /\ str[offset + 1] <= 127
      /\ \A k \in 1 .. offset : str[k] <= 127
  BY <1>1, Typed DEF AtAscii, AsciiPart, CopyAscii
<1> DEFINE ascii == SubSeq(str, 1, offset)
<1>3. ascii \in Seq(Octet)
  BY <1>2, AsciiEncoded
<1>4. /\ Units(CodePointAt(str, offset)) = 1
      /\ Octets(CodePointAt(str, offset)) = << str[offset + 1] >>
  BY <1>2, AsciiOctets
<1>5. Placed(str, offset + 1, ascii \o << str[offset + 1] >>)
  <2>1. Placed(str, offset, ascii)
    BY <1>1
  <2> HIDE DEF ascii
  <2> QED  BY <1>2, <1>3, <1>4, <2>1, PlacedFurther
<1>6. SubSeq(str, 1, offset + 1) = ascii \o << str[offset + 1] >>
  <2>1. SubSeq(str, offset + 1, offset + 1) = << str[offset + 1] >>
    BY <1>2, SubSeqOne
  <2>2. /\ 1 \in 1 .. Len(str) + 1 /\ offset \in 1 - 1 .. Len(str)
        /\ offset + 1 \in offset .. Len(str)
    BY <1>2
  <2>3. SubSeq(str, 1, offset) \o SubSeq(str, offset + 1, offset + 1)
          = SubSeq(str, 1, offset + 1)
    BY ONLY <1>2, <2>2, ConcatAdjacentSubSeq
  <2> QED  BY <2>1, <2>3
<1>7. Placed(str, offset + 1, SubSeq(str, 1, offset + 1))
  BY <1>5, <1>6
<1>8. str' = str /\ offset' = offset + 1 /\ pc' = "ascii"
  BY DEF CopyAscii
<1> QED  BY <1>7, <1>8 DEF PlacedInv

\* The octets of one code point take the next places.
LEMMA EncodePlaced ==
  ASSUME IndInv, PlacedInv, Encode
  PROVE  PlacedInv'
<1>1. /\ TypeOK /\ Placed(str, offset + i, SoFar)
      /\ str' = str /\ pc' = "encode"
  BY DEF IndInv, PlacedInv, Encode
<1> DEFINE n == offset + i
           cp == CodePointAt(str, n)
<1>2. str \in Seq(CodeUnit)
  BY <1>1, Typed
<1>3. /\ n \in Nat /\ n < Len(str)
      /\ offset' + i' = n + Units(cp)
      /\ SoFar \in Seq(Octet) /\ SoFar' = SoFar \o Octets(cp)
  BY EncodeStep
<1>4. Placed(str, n, SoFar)
  BY <1>1
<1> HIDE DEF n
<1>5. Placed(str, n + Units(cp), SoFar \o Octets(cp))
  BY <1>2, <1>3, <1>4, PlacedFurther
<1>6. Placed(str, offset + i, SoFar)'
  BY <1>1, <1>3, <1>5
<1> QED  BY <1>1, <1>6 DEF PlacedInv

-----------------------------------------------------------------------------
(* The theorems.                                                           *)

\* Every step preserves the invariant.
LEMMA NextIndInv ==
  ASSUME IndInv, [Next]_vars
  PROVE  IndInv'
<1>1. CASE UNCHANGED vars
  BY <1>1 DEF vars, IndInv, TypeOK, AtMalloc, AtAscii, AtEncode, AtPassed,
              AtDecode, AsciiPart, SoFar
<1>2. CASE Returned
  BY <1>1, <1>2 DEF Returned
<1> QED  BY <1>1, <1>2, MallocStep, CopyAsciiStep, GrowForRestStep,
            AsciiOnlyStep, EncodeStep, EncodeStringStep, GetStringStep,
            DecodeStep, DecodeEndStep DEF Next

\* IndInv is an invariant: passStringToWasm0() and getStringFromWasm0() keep
\* the code points of the string and their octets aligned at every step.
THEOREM Inductive == Spec => []IndInv
BY InitIndInv, NextIndInv, PTL DEF Spec

\* The variables of passStringToWasm0(), encode() and decode() keep their
\* types; above all, what encode() pushes are octets.
THEOREM TypeOKHolds == Spec => []TypeOK
<1>1. IndInv => TypeOK
  BY DEF IndInv
<1> QED  BY <1>1, Inductive, PTL

\* Three bytes a unit are enough for every string (wasm-decoder.js:65): the
\* octets of encode() fit into the view, and encodeString() does not throw.
THEOREM ViewLargeEnoughHolds == Spec => []ViewLargeEnough
<1>1. IndInv => ViewLargeEnough
  <2> SUFFICES ASSUME IndInv
               PROVE  ViewLargeEnough
    OBVIOUS
  <2>1. CASE pc = "encode"
    <3>1. TypeOK /\ AtEncode
      BY <2>1 DEF IndInv
    <3>2. /\ offset \in Nat /\ Len(arg) \in Nat /\ i \in Nat
          /\ Len(octets) \in Nat
          /\ Len(octets) <= 3 * i /\ i <= Len(arg)
          /\ Len(mem) = offset + 3 * Len(arg)
      BY <3>1, Typed DEF AtEncode
    <3>3. offset + Len(octets) <= Len(mem)
      BY <3>2
    <3> QED  BY <2>1, <3>3 DEF ViewLargeEnough
  <2>2. CASE pc # "encode"
    BY <2>2 DEF IndInv, ViewLargeEnough
  <2> QED  BY <2>1, <2>2
<1> QED  BY <1>1, Inductive, PTL

\* Every string comes back from the module's memory unit by unit
\* (text-encoder.js:53-89 undoes 18-48 and the ASCII loop of
\* wasm-decoder.js:55-59), of whatever length and with whatever surrogates.
THEOREM RoundTripHolds == Spec => []RoundTrip
<1>1. IndInv => RoundTrip
  BY DEF IndInv, RoundTrip
<1> QED  BY <1>1, Inductive, PTL

\* Every iteration of encode() and of decode() moves on and stays inside of
\* its argument (text-encoder.js:45 and 86): both loops end, at its end.
THEOREM LoopsAdvanceHolds == Spec => LoopsAdvance
<1>1. ASSUME IndInv, [Next]_vars
      PROVE  [/\ pc = "encode" /\ pc' = "encode" => i' \in i + 1 .. Len(arg)
              /\ pc = "decode" /\ pc' = "decode" => i' \in i + 1 .. Len(octets)]_vars
  <2>1. CASE Encode
    <3>1. pc = "encode" /\ i' \in i + 1 .. Len(arg)
      BY <1>1, <2>1, EncodeStep DEF Encode
    <3> QED  BY ONLY <3>1
  <2>2. CASE Decode
    <3>1. pc = "decode" /\ i' \in i + 1 .. Len(octets)
      BY <1>1, <2>2, DecodeStep DEF Decode
    <3> QED  BY ONLY <3>1
  <2>3. CASE ~Encode /\ ~Decode
    BY <1>1, <2>3 DEF Next, Malloc, CopyAscii, GrowForRest, AsciiOnly,
         EncodeString, GetString, DecodeEnd, Returned
  <2> QED  BY <2>1, <2>2, <2>3
<1> QED  BY <1>1, Inductive, PTL DEF Spec, LoopsAdvance

\* Every step leaves what has been written in its place.
LEMMA NextPlaced ==
  ASSUME IndInv, PlacedInv, [Next]_vars
  PROVE  PlacedInv'
<1>1. CASE UNCHANGED vars
  BY <1>1 DEF vars, PlacedInv, SoFar
<1>2. CASE Returned
  BY <1>1, <1>2 DEF Returned
<1>3. CASE Malloc
  <2>1. /\ str' = str /\ offset' = 0 /\ pc' = "ascii" /\ str \in Seq(CodeUnit)
    BY <1>3, Typed DEF IndInv, AtMalloc, Malloc
  <2>2. SubSeq(str, 1, 0) = <<>>
    BY <2>1, SubSeqEmpty
  <2>3. Placed(str, 0, SubSeq(str, 1, 0))
    BY <2>1, <2>2, NothingPlaced
  <2> QED  BY <2>1, <2>3 DEF PlacedInv
<1>4. CASE GrowForRest
  <2>1. /\ str' = str /\ pc' = "encode"
        /\ Placed(str, offset, SubSeq(str, 1, offset))
    BY <1>4 DEF PlacedInv, GrowForRest
  <2>2. SoFar' = SubSeq(str, 1, offset) /\ offset' + i' = offset
    BY <1>4, GrowForRestStep
  <2> QED  BY <2>1, <2>2 DEF PlacedInv
<1>5. CASE AsciiOnly
  <2>1. /\ str' = str /\ mem' = mem /\ pc' = "passed"
        /\ Placed(str, offset, SubSeq(str, 1, offset))
    BY <1>5 DEF PlacedInv, AsciiOnly
  <2>2. offset = Len(str) /\ mem = SubSeq(str, 1, Len(str))
    BY <1>5, AsciiOnlyStep
  <2> QED  BY <2>1, <2>2 DEF PlacedInv
<1>6. CASE EncodeString
  <2>1. str' = str /\ Placed(str, offset + i, SoFar)
    BY <1>6 DEF PlacedInv, EncodeString
  <2>2. mem' = SoFar /\ offset + i = Len(str)
    BY <1>6, EncodeStringStep
  <2>3. pc' \in {"passed", "thrown"}
    BY <1>6 DEF EncodeString
  <2> QED  BY <2>1, <2>2, <2>3 DEF PlacedInv
<1>7. CASE GetString \/ Decode \/ DecodeEnd
  <2>1. pc' \in {"decode", "done"}
    BY <1>7 DEF GetString, Decode, DecodeEnd
  <2> QED  BY <2>1 DEF PlacedInv
<1> QED  BY <1>1, <1>2, <1>3, <1>4, <1>5, <1>6, <1>7, CopyAsciiPlaced,
            EncodePlaced DEF Next

\* Without an unpaired surrogate there is nothing to replace: UTF-8 and WTF-8
\* are the same.
LEMMA PairedIsScalar ==
  ASSUME NEW s \in Seq(CodeUnit), Unpaired(s) = {}
  PROVE  ScalarValues(s) = s
<1>1. ScalarValues(s) = [k \in 1 .. Len(s) |-> s[k]]
  BY DEF ScalarValues
<1>2. s = [k \in 1 .. Len(s) |-> s[k]]
  OBVIOUS
<1> QED  BY <1>1, <1>2

\* For every string the module receives the octets that the table of RFC 3629
\* gives for its characters, each at its place: the bytes of the ASCII loop
\* (wasm-decoder.js:55-59) and the octets of encode() (text-encoder.js:18-48).
\* For a string in which every surrogate has its partner this is UTF-8; for
\* the others it is WTF-8, since encode() does not replace a surrogate.
THEOREM PassedIsWtf8Holds == Spec => []PassedIsWtf8
<1>1. Init => PlacedInv
  BY DEF Init, PlacedInv
<1>2. IndInv /\ PlacedInv => PassedIsWtf8
  <2> SUFFICES ASSUME IndInv, PlacedInv, pc = "passed"
               PROVE  /\ IsWtf8Of(mem, str)
                      /\ Unpaired(str) = {} => IsUtf8Of(mem, str)
    BY DEF PassedIsWtf8
  <2>1. str \in Seq(CodeUnit) /\ Placed(str, Len(str), mem)
    BY Typed DEF IndInv, PlacedInv
  <2>2. IsWtf8Of(mem, str)
    BY <2>1, PlacedIsWtf8
  <2>3. ASSUME Unpaired(str) = {} PROVE IsUtf8Of(mem, str)
    BY <2>1, <2>2, <2>3, PairedIsScalar DEF IsUtf8Of
  <2> QED  BY <2>2, <2>3
<1> QED  BY <1>1, <1>2, NextPlaced, Inductive, PTL DEF Spec
=============================================================================
