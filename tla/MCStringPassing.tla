--------------------------- MODULE MCStringPassing ---------------------------
(***************************************************************************)
(* Strings for TLC: every string of at most MaxLength units taken from the *)
(* two sides of every limit of UTF-8 and of the surrogates; and a          *)
(* second form of the reference for the bytes.                             *)
(***************************************************************************)
EXTENDS StringPassing, SequencesExt

CONSTANT MaxLength

BoundaryUnits ==
  {65, 127, 128, 2047, 2048, 55296, 56319, 56320, 57343, 65535}

BoundaryStrings == UNION {[1 .. n -> BoundaryUnits] : n \in 0 .. MaxLength}

-----------------------------------------------------------------------------
(* The WTF-8 of a string put together: the octets of its characters in the *)
(* order of the characters.                                                *)

Wtf8String(s) ==
  LET starts == SetToSortSeq(Starts(s), <)
  IN FlattenSeq([n \in 1 .. Len(starts) |->
                   Wtf8Of(CodePointAt(s, starts[n] - 1))])

\* 0xED may not be followed by an octet above 0x9F (RFC 3629, UTF8-3): there
\* are no surrogates in UTF-8.
NoSurrogates(bytes) ==
  \A k \in 1 .. Len(bytes) - 1 : bytes[k] = 237 => bytes[k + 1] <= 159

\* IsWtf8Of accepts this sequence for a string and no other one.  It is without
\* surrogates exactly if it is the UTF-8 of the string.
ASSUME ReferenceChecked ==
    LET Short == UNION {[1 .. n -> BoundaryUnits] : n \in 0 .. 2}
    IN \A s, t \in Short :
         /\ IsWtf8Of(Wtf8String(s), t) <=> Wtf8String(s) = Wtf8String(t)
         /\ IsUtf8Of(Wtf8String(s), s) <=> NoSurrogates(Wtf8String(s))
         /\ NoSurrogates(Wtf8String(ScalarValues(s)))
=============================================================================
