-------------------------- MODULE RattlegramDecoder --------------------------
(***************************************************************************)
(* The control of the receiver of examples/rattlegram, without its signal  *)
(* processing: WasmDecoder (wasm_decoder.rs) collects samples until it has *)
(* a batch and feeds it to Decoder (decoder.rs), which works once for      *)
(* every symbol.  What the signal decides (has the correlator found a      *)
(* preamble, what does the preamble say) is a parameter.                   *)
(***************************************************************************)
EXTENDS Integers

CONSTANTS
  Quantum,      \* samples the browser delivers at once (128)
  Batch,        \* samples WasmDecoder collects (1024)
  Extended,     \* samples of a symbol and its guard (EXTENDED_LENGTH)
  SymbolCount   \* symbols of a payload (SYMBOL_COUNT)

ASSUME DecoderAssumption ==
  /\ Quantum \in Nat \ {0}
  /\ Batch \in Nat \ {0}
  /\ Extended \in Nat \ {0}
  /\ SymbolCount \in Nat \ {0}
  /\ Batch + Quantum <= Extended + 1    \* asserted by feed(), decoder.rs:1072

\* What Decoder.preamble() returns.
Preambles == {"Okay", "Fail", "Nope"}

\* What Decoder.process() returns.
Statuses == {"Okay", "Fail", "Nope", "Sync", "Done"}

Decoders ==
  [accumulated : Nat, stored : BOOLEAN, staged : BOOLEAN,
   symbol : -1 .. SymbolCount]

\* Mutant: a new decoder expects a payload at once.
NewDecoderInPayload ==
  [accumulated |-> 0, stored |-> FALSE, staged |-> FALSE, symbol |-> 0]

\* Decoder::new(): no payload is being received.
NewDecoder ==
  [accumulated |-> 0, stored |-> FALSE, staged |-> FALSE,
   symbol |-> SymbolCount]

\* Mutant: the symbol is complete one sample too late.
FeedLate(d, n, found) ==
  LET accumulated == d.accumulated + n
      stored == d.stored \/ found
  IN IF accumulated > Extended
     THEN [ready |-> TRUE,
           d |-> [d EXCEPT !.accumulated = accumulated - Extended,
                           !.staged = @ \/ stored,
                           !.stored = FALSE]]
     ELSE [ready |-> FALSE,
           d |-> [d EXCEPT !.accumulated = accumulated, !.stored = stored]]

\* Decoder.feed(): n samples; `found` if the correlator has found the start
\* of a preamble in them.
Feed(d, n, found) ==
  LET accumulated == d.accumulated + n
      stored == d.stored \/ found
  IN IF accumulated >= Extended
     THEN [ready |-> TRUE,
           d |-> [d EXCEPT !.accumulated = accumulated - Extended,
                           !.staged = @ \/ stored,
                           !.stored = FALSE]]
     ELSE [ready |-> FALSE,
           d |-> [d EXCEPT !.accumulated = accumulated, !.stored = stored]]

\* Mutant: the symbols of a payload are counted on behind its end.
ProcessCountsOn(d, preamble) ==
  LET sync == d.staged /\ preamble = "Okay"
      status == CASE ~d.staged -> "Okay"
                  [] sync -> "Sync"
                  [] OTHER -> preamble
      symbol == IF sync THEN -1 ELSE d.symbol
  IN [status |-> IF symbol + 1 = SymbolCount THEN "Done" ELSE status,
      d |-> [d EXCEPT !.staged = FALSE, !.symbol = symbol + 1]]

\* Decoder.process(): a staged preamble is decoded; a good one starts a
\* payload, also in the middle of another.  Then one symbol of the payload is
\* received, if there is one; the last one overrides the preamble's status.
Process(d, preamble) ==
  LET sync == d.staged /\ preamble = "Okay"
      status == CASE ~d.staged -> "Okay"
                  [] sync -> "Sync"
                  [] OTHER -> preamble
      symbol == IF sync THEN -1 ELSE d.symbol
      next == IF symbol < SymbolCount THEN symbol + 1 ELSE symbol
  IN [status |-> IF symbol < SymbolCount /\ next = SymbolCount
                 THEN "Done" ELSE status,
      d |-> [d EXCEPT !.staged = FALSE, !.symbol = next]]

\* WasmDecoder::new()
NewWasmDecoder == [samples |-> 0, decoder |-> NewDecoder]

\* WasmDecoder.process(): a quantum is added to the batch.  The result is a
\* message for every status but Okay; `fed` and `processed` say which calls
\* were made.
WasmDecoderProcess(w, found, preamble) ==
  LET samples == w.samples + Quantum
      feed == Feed(w.decoder, samples, found)
      process == Process(feed.d, preamble)
  IN IF samples < Batch
     THEN [w |-> [w EXCEPT !.samples = samples],
           result |-> "Okay", fed |-> 0, processed |-> FALSE]
     ELSE IF ~feed.ready
     THEN [w |-> [samples |-> 0, decoder |-> feed.d],
           result |-> "Okay", fed |-> samples, processed |-> FALSE]
     ELSE [w |-> [samples |-> 0, decoder |-> process.d],
           result |-> process.status, fed |-> samples, processed |-> TRUE]
=============================================================================
