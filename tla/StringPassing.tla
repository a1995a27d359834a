---------------------------- MODULE StringPassing ----------------------------
(***************************************************************************)
(* A string on its way from JavaScript into the memory of the WebAssembly  *)
(* module and back, as the worklet's glue code does it                     *)
(* (examples/rattlegram/worklet/wasm-decoder.js): passStringToWasm0() with *)
(* the encoder of module Utf8, then getStringFromWasm0() with its decoder. *)
(* The panic hook of the Rust code makes this trip with a stack trace, and *)
(* every decoded message makes its second half.                            *)
(*                                                                         *)
(* The memory is the block that malloc returned; bytes that nobody wrote   *)
(* are Junk.  One iteration of a loop is one step.                         *)
(***************************************************************************)
EXTENDS Utf8, FiniteSets

CONSTANT Strings    \* the strings that are passed

ASSUME StringsAssumption == Strings \subseteq Seq(CodeUnit)

Junk == -1

VARIABLES
  str,      \* the string the caller passes
  arg,      \* what is left of it to be encoded
  mem,      \* the block in the module's memory; its length is `len`
  offset,   \* bytes written so far
  octets,   \* encode(): the result so far; decode(): the argument
  i,        \* the index of encode() or decode()
  string,   \* decode(): the result so far
  pc

vars == <<str, arg, mem, offset, octets, i, string, pc>>

TypeOK ==
  /\ str \in Strings
  /\ arg \in Seq(CodeUnit)
  /\ mem \in Seq(Octet \cup {Junk})
  /\ offset \in 0 .. Len(mem)
  /\ octets \in Seq(Octet)
  /\ i \in Nat
  /\ string \in Seq(CodeUnit)
  /\ pc \in {"malloc", "ascii", "encode", "thrown", "passed", "decode", "done"}

Init ==
  /\ str \in Strings
  /\ arg = str
  /\ mem = <<>>
  /\ offset = 0
  /\ octets = <<>>
  /\ i = 0
  /\ string = <<>>
  /\ pc = "malloc"

\* __wbindgen_realloc: keeps what fits.
Realloc(block, size) ==
  [k \in 1 .. size |-> IF k <= Len(block) THEN block[k] ELSE Junk]

\* TypedArray.set(bytes) on the part of the block that starts at `at`.
Written(block, at, bytes) ==
  [k \in 1 .. Len(block) |->
     IF k \in at + 1 .. at + Len(bytes) THEN bytes[k - at] ELSE block[k]]

-----------------------------------------------------------------------------
(* passStringToWasm0()                                                     *)

\* A byte for every code unit, which is enough for ASCII.
Malloc ==
  /\ pc = "malloc"
  /\ mem' = Realloc(<<>>, Len(arg))
  /\ pc' = "ascii"
  /\ UNCHANGED <<str, arg, offset, octets, i, string>>

\* The loop that copies ASCII characters.
CopyAscii ==
  /\ pc = "ascii"
  /\ offset < Len(arg)
  /\ arg[offset + 1] <= 127
  /\ mem' = [mem EXCEPT ![offset + 1] = arg[offset + 1]]
  /\ offset' = offset + 1
  /\ UNCHANGED <<str, arg, octets, i, string, pc>>

\* Mutant: room for two bytes a code unit.
GrowForRestByTwo ==
  /\ pc = "ascii"
  /\ offset < Len(arg)
  /\ arg[offset + 1] > 127
  /\ arg' = SubSeq(arg, offset + 1, Len(arg))
  /\ mem' = Realloc(mem, offset + 2 * Len(arg'))
  /\ pc' = "encode"
  /\ UNCHANGED <<str, offset, octets, i, string>>

\* The loop stopped early: the rest gets room for three bytes a code unit.
GrowForRest ==
  /\ pc = "ascii"
  /\ offset < Len(arg)
  /\ arg[offset + 1] > 127
  /\ arg' = SubSeq(arg, offset + 1, Len(arg))
  /\ mem' = Realloc(mem, offset + 3 * Len(arg'))
  /\ pc' = "encode"
  /\ UNCHANGED <<str, offset, octets, i, string>>

\* All ASCII: WASM_VECTOR_LEN = offset is the length of the block.
AsciiOnly ==
  /\ pc = "ascii"
  /\ offset = Len(arg)
  /\ pc' = "passed"
  /\ UNCHANGED <<str, arg, mem, offset, octets, i, string>>

\* One iteration of TextEncoder.encode().
Encode ==
  /\ pc = "encode"
  /\ i < Len(arg)
  /\ LET codePoint == CodePointAt(arg, i)
     IN /\ octets' = octets \o Octets(codePoint)
        /\ i' = i + Units(codePoint)
  /\ UNCHANGED <<str, arg, mem, offset, string, pc>>

\* encodeString() copies the octets into the view of the block's end, which
\* throws a RangeError if they do not fit.
\* The block then shrinks to what was written.
EncodeString ==
  /\ pc = "encode"
  /\ i >= Len(arg)
  /\ IF offset + Len(octets) <= Len(mem)
     THEN /\ mem' = Realloc(Written(mem, offset, octets), offset + Len(octets))
          /\ offset' = offset + Len(octets)
          /\ pc' = "passed"
     ELSE /\ pc' = "thrown"
          /\ UNCHANGED <<mem, offset>>
  /\ UNCHANGED <<str, arg, octets, i, string>>

-----------------------------------------------------------------------------
(* getStringFromWasm0()                                                    *)

\* The module hands the block and its length back to JavaScript.
GetString ==
  /\ pc = "passed"
  /\ octets' = SubSeq(mem, 1, offset)
  /\ i' = 0
  /\ pc' = "decode"
  /\ UNCHANGED <<str, arg, mem, offset, string>>

\* One iteration of TextDecoder.decode().
Decode ==
  /\ pc = "decode"
  /\ i < Len(octets)
  /\ string' = string \o FromCodePoint(Decoded(octets, i).codePoint)
  /\ i' = Decoded(octets, i).next
  /\ UNCHANGED <<str, arg, mem, offset, octets, pc>>

DecodeEnd ==
  /\ pc = "decode"
  /\ i >= Len(octets)
  /\ pc' = "done"
  /\ UNCHANGED <<str, arg, mem, offset, octets, i, string>>

\* The function has returned; not an action of the code.
Returned == pc = "done" /\ UNCHANGED vars

Next ==
  \/ Malloc \/ CopyAscii \/ GrowForRest \/ AsciiOnly \/ Encode \/ EncodeString
  \/ GetString \/ Decode \/ DecodeEnd
  \/ Returned

Spec == Init /\ [][Next]_vars

-----------------------------------------------------------------------------

\* Three bytes for every code unit that is left are always enough: the view
\* that encodeString() fills (wasm-decoder.js:65-67) never has to hold more
\* than its length, however many units take three bytes or form pairs.
ViewLargeEnough ==
  /\ pc = "encode" => offset + Len(octets) <= Len(mem)
  /\ pc # "thrown"

\* The string comes back as it was, unit by unit, also if it has surrogates
\* without a partner: decode() (text-encoder.js:53-89) undoes encode() and
\* the ASCII loop, wherever the loop stopped.
RoundTrip == pc = "done" => string = str

\* Both loops end and stop exactly at the end of their argument: encode()
\* moves on by the units it has read (text-encoder.js:45), decode() by the
\* octets it has read (text-encoder.js:86), never beyond the last one.
LoopsAdvance ==
  [][/\ pc = "encode" /\ pc' = "encode" => i' \in i + 1 .. Len(arg)
     /\ pc = "decode" /\ pc' = "decode" => i' \in i + 1 .. Len(octets)]_vars

-----------------------------------------------------------------------------
(* The references.  The table of RFC 3629: the digits of the code point in *)
(* base 64 are distributed over the shortest sequence that holds them, and *)
(* each octet has its marker; the octets of a string are those of its      *)
(* characters, one after the other.  The RFC allows this for every code    *)
(* point but those of the surrogates, 0xD800 to 0xDFFF.  Applied to a      *)
(* surrogate without a partner as well, the table gives what is known as   *)
(* WTF-8.  UTF-8 itself, as the Encoding Standard defines it for           *)
(* TextEncoder (the address in text-encoder.js:14), first puts U+FFFD in   *)
(* the place of every such surrogate.                                      *)

\* The last code point that n octets can hold.
LastOf == <<127, 2047, 65535, 1114111>>

Marker == <<0, 192, 224, 240>>

\* The weights of the digits.
PowerOf64 == <<1, 64, 4096, 262144>>

OctetCount(codePoint) ==
  CHOOSE n \in 1 .. 4 : /\ codePoint <= LastOf[n]
                        /\ n > 1 => codePoint > LastOf[n - 1]

Wtf8Of(codePoint) ==
  LET n == OctetCount(codePoint)
  IN [k \in 1 .. n |->
        IF k = 1 THEN Marker[n] + codePoint \div PowerOf64[n]
        ELSE 128 + ((codePoint \div PowerOf64[n - k + 1]) % 64)]

\* Where a character starts: everywhere but in the middle of a pair.
Starts(s) ==
  {k \in 1 .. Len(s) : ~(k > 1 /\ IsHigh(s[k - 1]) /\ IsLow(s[k]))}

\* The octets of the characters that start before unit n: which character,
\* and which of its octets.
OctetsBefore(s, n) ==
  {octet \in Starts(s) \X (1 .. 4) :
     /\ octet[1] < n
     /\ octet[2] <= OctetCount(CodePointAt(s, octet[1] - 1))}

\* Each character's octets are behind those of all characters before it, and
\* nothing else is there.
IsWtf8Of(bytes, s) ==
  /\ Len(bytes) = Cardinality(OctetsBefore(s, Len(s) + 1))
  /\ \A k \in Starts(s) :
       LET codePoint == CodePointAt(s, k - 1)
       IN \A m \in 1 .. OctetCount(codePoint) :
            bytes[Cardinality(OctetsBefore(s, k)) + m] = Wtf8Of(codePoint)[m]

\* The surrogates that have no partner.
Unpaired(s) ==
  {k \in Starts(s) : 55296 <= CodePointAt(s, k - 1) /\ CodePointAt(s, k - 1) <= 57343}

\* The standard's conversion of a string to Unicode scalar values.
ScalarValues(s) == [k \in 1 .. Len(s) |-> IF k \in Unpaired(s) THEN 65533 ELSE s[k]]

IsUtf8Of(bytes, s) == IsWtf8Of(bytes, ScalarValues(s))

\* What the module receives are the octets of every character of the string,
\* in order and in the shortest form: the ASCII prefix that
\* passStringToWasm0() copies (wasm-decoder.js:55-59) and the encoder's octets
\* fit together.  It is UTF-8 if every surrogate has its partner; otherwise
\* the encoder (text-encoder.js:26-44) gives only WTF-8, three octets for the
\* surrogate, which are not UTF-8 (see PassedIsUtf8).
PassedIsWtf8 ==
  pc = "passed" => /\ IsWtf8Of(mem, str)
                   /\ Unpaired(str) = {} => IsUtf8Of(mem, str)

\* What the module receives is always UTF-8, as the standard has it that
\* text-encoder.js names (line 14).  It does not hold: the encoder has no case
\* for a surrogate without a partner.
PassedIsUtf8 == pc = "passed" => IsUtf8Of(mem, str)
=============================================================================
