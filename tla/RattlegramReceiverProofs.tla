---------------------- MODULE RattlegramReceiverProofs ----------------------
(***************************************************************************)
(* Safety of the browser receiver, for every size of a quantum, a batch, a *)
(* symbol and a payload and every number of quanta.  The inductive         *)
(* invariant has one part for each thing that is kept: how far the         *)
(* handshake of the two event loops is, the frame and the blocks of the    *)
(* call that runs, the samples counted, the results on their way, and the  *)
(* payload being received.                                                 *)
(***************************************************************************)
EXTENDS RattlegramReceiver, SequenceTheorems, TLAPS

\* The handshake passes one token round: the bytes, the compiler's promise,
\* "wasm-module-loaded", "init-decoder", and then there is a decoder.
HandshakeInv ==
  /\ ~rxStarted => setup = "idle"
  /\ setup # "ready" => processor = "none" /\ init = "idle" /\ ~connected
  /\ setup = "ready" => processor # "none" /\ connected
  /\ init = "idle" =>
       /\ wasm = "undefined" /\ toNode = <<>> /\ decoder = "null"
       /\ toProcessor = IF setup = "ready" THEN <<"send-wasm-module">> ELSE <<>>
  /\ init \in {"compile", "instantiate", "failed"} =>
       /\ wasm = "undefined" /\ toNode = <<>> /\ decoder = "null"
       /\ toProcessor = <<>>
  /\ init = "done" =>
       /\ wasm = "exports"
       /\ \/ /\ decoder = "null"
             /\ toNode = <<"wasm-module-loaded">> /\ toProcessor = <<>>
          \/ /\ decoder = "null"
             /\ toNode = <<>> /\ toProcessor = <<"init-decoder">>
          \/ /\ decoder = "WasmDecoder"
             /\ toNode \in Seq(Results) /\ toProcessor = <<>>

\* Nothing has happened without a decoder.
NullInv ==
  decoder = "null" =>
    /\ call = NoCall /\ sp = 0 /\ heap = {} /\ processor # "dead"
    /\ object = NewWasmDecoder
    /\ shown = <<>> /\ decoded = <<>>
    /\ quanta = 0 /\ fed = 0 /\ processed = 0

\* The frames and the blocks there are, at every point of a call.
CallInv ==
  /\ faults = {}
  /\ call.at # "none" => processor = "running"
  /\ call.at \notin {"read", "finally"} => call.result = "Okay"
  /\ call.at # "finally" => ~call.thrown
  /\ call.thrown => call.result = "Okay"
  /\ call.at = "none" => \/ sp = 0 /\ heap = {}
                         \/ sp = 1 /\ heap = {"samples"} /\ processor = "dead"
  /\ call.at = "pass" => sp = 1 /\ heap = {}
  /\ call.at = "call" => sp = 1 /\ heap = {"samples"} /\ call.samples
  /\ call.at = "panic" => sp = 2 /\ heap = {"samples", "message"} /\ call.samples
  /\ call.at = "hook" => sp = 2 /\ heap = {"samples", "message", "stack"} /\ call.samples
  /\ call.at = "read" => sp = 1 /\ heap = {b \in {"result"} : call.result # "Okay"}
  /\ call.at = "finally" => IF call.thrown /\ call.samples
                            THEN sp = 2 /\ heap = {"samples"}
                            ELSE sp = 1 /\ heap = {}

\* Every sample is in the batch, or in the symbol, or was processed.
CountInv ==
  /\ object.samples < Batch
  /\ fed = processed * Extended + object.decoder.accumulated
  /\ object.decoder.accumulated < Extended
  /\ quanta * Quantum = fed + object.samples
  /\ call.at \in {"pass", "call"} => quanta < MaxQuanta

\* The result of the last call, if it is not posted yet.
Unposted == IF call.result = "Okay" THEN <<>> ELSE <<call.result>>

OrderInv == decoded = (shown \o Posted) \o Unposted

\* Every "Done" in s comes behind a "Sync" with no "Done" in between.
Announced(s) ==
  \A n \in 1 .. Len(s) : s[n] = "Done" =>
    \E m \in 1 .. n - 1 : s[m] = "Sync" /\ \A k \in m .. n - 1 : s[k] # "Done"

\* The last "Sync" in s has no "Done" behind it.
Pending(s) ==
  \E m \in 1 .. Len(s) : s[m] = "Sync" /\ \A k \in m .. Len(s) : s[k] # "Done"

\* A payload that is being received was announced.
PayloadInv ==
  /\ Announced(decoded)
  /\ object.decoder.symbol < SymbolCount => Pending(decoded)

IndInv ==
  TypeOK /\ HandshakeInv /\ NullInv /\ CallInv /\ CountInv /\ OrderInv /\ PayloadInv

-----------------------------------------------------------------------------
(* The decoder                                                             *)

\* feed() takes every sample and ends at most one symbol.
LEMMA FeedCounts ==
  ASSUME NEW d \in Decoders, NEW n \in Nat, NEW found \in BOOLEAN,
         d.accumulated < Extended, n <= Extended
  PROVE  /\ Feed(d, n, found).ready \in BOOLEAN
         /\ Feed(d, n, found).d \in Decoders
         /\ Feed(d, n, found).d.symbol = d.symbol
         /\ Feed(d, n, found).d.accumulated < Extended
         /\ d.accumulated + n = Feed(d, n, found).d.accumulated
                                  + (IF Feed(d, n, found).ready THEN Extended ELSE 0)
<1>1. /\ d.accumulated \in Nat /\ Extended \in Nat \ {0}
      /\ d.stored \in BOOLEAN /\ d.staged \in BOOLEAN /\ d.symbol \in -1 .. SymbolCount
  BY DecoderAssumption DEF Decoders
<1> DEFINE a == d.accumulated + n
           st == d.stored \/ found
           d1 == [d EXCEPT !.accumulated = a - Extended, !.staged = @ \/ st, !.stored = FALSE]
           d2 == [d EXCEPT !.accumulated = a, !.stored = st]
<1>2. a \in Nat /\ st \in BOOLEAN /\ (d.staged \/ st) \in BOOLEAN
  BY <1>1
<1>3. CASE a >= Extended
  <2>1. a - Extended \in Nat /\ a - Extended < Extended /\ a = (a - Extended) + Extended
    BY <1>1, <1>3, SMT
  <2>2. Feed(d, n, found) = [ready |-> TRUE, d |-> d1]
    BY <1>3 DEF Feed
  <2>3. d1 \in Decoders /\ d1.symbol = d.symbol /\ d1.accumulated = a - Extended
    BY <1>1, <1>2, <2>1 DEF Decoders
  <2> HIDE DEF d1
  <2> QED
    BY <2>1, <2>2, <2>3
<1>4. CASE ~(a >= Extended)
  <2>1. a < Extended /\ a + 0 = a
    BY <1>1, <1>2, <1>4, SMT
  <2>2. Feed(d, n, found) = [ready |-> FALSE, d |-> d2]
    BY <1>4 DEF Feed
  <2>3. d2 \in Decoders /\ d2.symbol = d.symbol /\ d2.accumulated = a
    BY <1>1, <1>2 DEF Decoders
  <2> HIDE DEF d2
  <2> QED
    BY <2>1, <2>2, <2>3
<1> QED
  BY <1>3, <1>4

\* process() ends only a payload that has begun, and begins one with Sync.
LEMMA ProcessCounts ==
  ASSUME NEW d \in Decoders, NEW preamble \in Preambles
  PROVE  /\ Process(d, preamble).status \in Statuses
         /\ Process(d, preamble).d \in Decoders
         /\ Process(d, preamble).d.accumulated = d.accumulated
         /\ Process(d, preamble).status = "Done" => d.symbol < SymbolCount
         /\ Process(d, preamble).d.symbol < SymbolCount =>
              \/ Process(d, preamble).status = "Sync"
              \/ d.symbol < SymbolCount /\ Process(d, preamble).status # "Done"
<1>1. /\ d.accumulated \in Nat /\ SymbolCount \in Nat \ {0}
      /\ d.stored \in BOOLEAN /\ d.staged \in BOOLEAN /\ d.symbol \in -1 .. SymbolCount
  BY DecoderAssumption DEF Decoders
<1> DEFINE sync == d.staged /\ preamble = "Okay"
           status == CASE ~d.staged -> "Okay"
                       [] sync -> "Sync"
                       [] OTHER -> preamble
           symbol == IF sync THEN -1 ELSE d.symbol
           next == IF symbol < SymbolCount THEN symbol + 1 ELSE symbol
           done == symbol < SymbolCount /\ next = SymbolCount
           d1 == [d EXCEPT !.staged = FALSE, !.symbol = next]
<1>2. status \in {"Okay", "Fail", "Nope", "Sync"} /\ (sync => status = "Sync")
  BY <1>1 DEF Preambles
<1>3. Process(d, preamble) = [status |-> IF done THEN "Done" ELSE status, d |-> d1]
  BY Zenon DEF Process
<1>4. symbol \in -1 .. SymbolCount /\ (~sync => symbol = d.symbol) /\ (sync => symbol = -1)
  BY <1>1, SMT
<1> HIDE DEF symbol, status, sync
<1>5. /\ next \in -1 .. SymbolCount
      /\ done => ~sync /\ d.symbol < SymbolCount
      /\ next < SymbolCount => ~done /\ (sync \/ d.symbol < SymbolCount)
  BY <1>1, <1>4, SMT
<1> HIDE DEF next, done
<1>6. d1 \in Decoders /\ d1.symbol = next /\ d1.accumulated = d.accumulated
  BY <1>1, <1>5 DEF Decoders
<1> HIDE DEF d1
<1> QED
  BY <1>2, <1>3, <1>5, <1>6 DEF Statuses

Objects == [samples : 0 .. Batch, decoder : Decoders]

\* WasmDecoder.process() loses no sample, and its result says what the decoder
\* has done to the payload.
LEMMA WasmCounts ==
  ASSUME NEW w \in Objects, NEW found \in BOOLEAN, NEW preamble \in Preambles, NEW p,
         w.samples < Batch, w.decoder.accumulated < Extended,
         p = WasmDecoderProcess(w, found, preamble)
  PROVE  /\ p.w \in Objects /\ p.w.samples < Batch
         /\ p.w.decoder.accumulated < Extended
         /\ p.result \in Statuses /\ p.fed \in Nat /\ p.processed \in BOOLEAN
         /\ p.fed + p.w.samples = w.samples + Quantum
         /\ w.decoder.accumulated + p.fed
              = p.w.decoder.accumulated + (IF p.processed THEN Extended ELSE 0)
         /\ p.result = "Done" => w.decoder.symbol < SymbolCount
         /\ p.w.decoder.symbol < SymbolCount =>
              p.result = "Sync" \/ (w.decoder.symbol < SymbolCount /\ p.result # "Done")
<1>1. /\ w.samples \in Nat /\ w.decoder \in Decoders /\ w.decoder.accumulated \in Nat
      /\ Batch \in Nat \ {0} /\ Quantum \in Nat \ {0} /\ Extended \in Nat
  BY DecoderAssumption, SMT DEF Objects, Decoders
<1> DEFINE n == w.samples + Quantum
           feed == Feed(w.decoder, n, found)
           process == Process(feed.d, preamble)
<1>2. n \in Nat /\ n <= Extended
  BY <1>1, DecoderAssumption, SMT
<1>3. CASE n < Batch
  <2>1. p = [w |-> [w EXCEPT !.samples = n], result |-> "Okay", fed |-> 0, processed |-> FALSE]
    BY <1>3, Zenon DEF WasmDecoderProcess
  <2> DEFINE w1 == [w EXCEPT !.samples = n]
  <2>2. n \in 0 .. Batch
    BY <1>1, <1>2, <1>3, SMT
  <2> HIDE DEF n
  <2>3. w1 \in Objects /\ w1.samples = n /\ w1.decoder = w.decoder
    BY <2>2 DEF Objects
  <2> HIDE DEF w1
  <2>4. p.w = w1 /\ p.result = "Okay" /\ p.fed = 0 /\ p.processed = FALSE
    BY <2>1 DEF w1
  <2>5. 0 + n = w.samples + Quantum /\ w.decoder.accumulated + 0 = w.decoder.accumulated
    BY <1>1, SMT DEF n
  <2>6. p.w.samples = n /\ p.w.decoder = w.decoder /\ p.w \in Objects
    BY <2>3, <2>4
  <2>7. /\ p.fed + p.w.samples = w.samples + Quantum
        /\ w.decoder.accumulated + p.fed
             = p.w.decoder.accumulated + (IF p.processed THEN Extended ELSE 0)
    BY <2>4, <2>5, <2>6, Zenon
  <2>8. 0 \in Nat /\ n < Batch
    BY <1>3 DEF n
  <2> QED
    BY <2>4, <2>6, <2>7, <2>8, Zenon DEF Statuses
<1>4. CASE ~(n < Batch)
  <2>1. /\ feed.ready \in BOOLEAN /\ feed.d \in Decoders
        /\ feed.d.symbol = w.decoder.symbol /\ feed.d.accumulated < Extended
        /\ w.decoder.accumulated + n = feed.d.accumulated + (IF feed.ready THEN Extended ELSE 0)
    BY <1>1, <1>2, FeedCounts
  <2>2. 0 \in 0 .. Batch /\ 0 < Batch /\ n + 0 = w.samples + Quantum
    BY <1>1, SMT
  <2>3. CASE ~feed.ready
    <3>1. p = [w |-> [samples |-> 0, decoder |-> feed.d],
               result |-> "Okay", fed |-> n, processed |-> FALSE]
      BY <1>4, <2>3, Zenon DEF WasmDecoderProcess
    <3> HIDE DEF feed
    <3>2. /\ p.w \in Objects /\ p.w.samples = 0 /\ p.w.decoder = feed.d
          /\ p.result = "Okay" /\ p.fed = n /\ p.processed = FALSE
      BY <2>1, <2>2, <3>1 DEF Objects
    <3> HIDE DEF n
    <3> QED
      BY <1>2, <2>1, <2>2, <2>3, <3>2 DEF Statuses
  <2>4. CASE feed.ready
    <3>1. p = [w |-> [samples |-> 0, decoder |-> process.d],
               result |-> process.status, fed |-> n, processed |-> TRUE]
      BY <1>4, <2>4, Zenon DEF WasmDecoderProcess
    <3>2. /\ process.status \in Statuses /\ process.d \in Decoders
          /\ process.d.accumulated = feed.d.accumulated
          /\ process.status = "Done" => feed.d.symbol < SymbolCount
          /\ process.d.symbol < SymbolCount =>
               process.status = "Sync" \/ (feed.d.symbol < SymbolCount /\ process.status # "Done")
      BY <2>1, ProcessCounts
    <3> HIDE DEF process, feed
    <3>3. /\ p.w \in Objects /\ p.w.samples = 0 /\ p.w.decoder = process.d
          /\ p.result = process.status /\ p.fed = n /\ p.processed = TRUE
      BY <2>2, <3>1, <3>2 DEF Objects
    <3> HIDE DEF n
    <3> QED
      BY <1>2, <2>1, <2>2, <2>4, <3>2, <3>3
  <2> QED
    BY <2>1, <2>3, <2>4
<1> QED
  BY <1>3, <1>4

-----------------------------------------------------------------------------
(* The memory                                                              *)

\* The memory grows within its bound.
LEMMA GrownType ==
  ASSUME NEW g \in 0 .. MaxGrowth, NEW h \in Grown(g)
  PROVE  h \in 0 .. MaxGrowth
<1>1. h = g \/ (h = g + 1 /\ h <= MaxGrowth)
  BY DEF Grown
<1> QED
  BY <1>1, GrowthAssumption, SMT

\* A view is of the memory there is when it is returned.
LEMMA RefreshCurrent ==
  ASSUME NEW v, NEW g
  PROVE  Refresh(v, g) = g /\ Access(g, g) = {}
BY DEF Refresh, Access

\* Views keep their type.
LEMMA ViewType ==
  ASSUME NEW g \in 0 .. MaxGrowth
  PROVE  g \in NoView .. MaxGrowth
BY GrowthAssumption, SMT DEF NoView

Calls == [at : {"none", "pass", "call", "panic", "hook", "read", "finally"},
          samples : BOOLEAN, result : Statuses, thrown : BOOLEAN]

-----------------------------------------------------------------------------
(* Initial states, and parts of the state that a step leaves alone         *)

\* Nothing has happened.
LEMMA InitInd == Init => IndInv
<1> SUFFICES ASSUME Init PROVE IndInv
  OBVIOUS
<1>1. NewDecoder \in Decoders /\ NewDecoder.accumulated = 0 /\ NewDecoder.symbol = SymbolCount
  BY DecoderAssumption, SMT DEF NewDecoder, Decoders
<1>2. NewWasmDecoder \in Objects /\ NewWasmDecoder.samples = 0 /\ NewWasmDecoder.decoder = NewDecoder
  BY <1>1, DecoderAssumption, SMT DEF NewWasmDecoder, Objects
<1>3. NoCall.at = "none" /\ NoCall.result = "Okay" /\ NoCall.thrown = FALSE /\ NoCall.samples = FALSE
  BY DEF NoCall
<1>4. TypeOK
  <2>1. GlueTypeOK
    <3>1. NoCall \in [at : {"none", "pass", "call", "panic", "hook", "read", "finally"},
                      samples : BOOLEAN, result : Statuses, thrown : BOOLEAN]
      BY DEF NoCall, Statuses
    <3>2. 0 \in 0 .. MaxGrowth /\ NoView \in NoView .. MaxGrowth /\ 0 \in 0 .. 2
      BY GrowthAssumption, SMT DEF NoView
    <3> QED
      BY <1>2, <3>1, <3>2 DEF Init, GlueInit, GlueTypeOK, Objects
  <2>2. 0 \in 0 .. MaxQuanta /\ 0 \in Nat
    BY QuantaAssumption, SMT
  <2>3. \A S : <<>> \in Seq(S)
    OBVIOUS
  <2> QED
    BY <2>1, <2>2, <2>3 DEF Init, TypeOK
<1>5. HandshakeInv
  BY DEF Init, GlueInit, HandshakeInv
<1>6. NullInv
  BY DEF Init, GlueInit, NullInv
<1>7. CallInv
  BY <1>3 DEF Init, GlueInit, CallInv
<1>8. CountInv
  <2>1. /\ object.samples = 0 /\ object.decoder.accumulated = 0
        /\ fed = 0 /\ processed = 0 /\ quanta = 0 /\ call.at = "none"
    BY <1>1, <1>2, <1>3 DEF Init, GlueInit
  <2> QED
    BY <2>1, DecoderAssumption, SMT DEF CountInv
<1>9. OrderInv
  <2>1. decoded = <<>> /\ shown = <<>> /\ Posted = <<>> /\ Unposted = <<>>
    BY <1>3 DEF Init, GlueInit, Posted, Unposted
  <2>2. (<<>> \o <<>>) \o <<>> = <<>>
    OBVIOUS
  <2> QED
    BY <2>1, <2>2, Zenon DEF OrderInv
<1>10. PayloadInv
  <2>1. decoded = <<>> /\ object.decoder.symbol = SymbolCount
    BY <1>1, <1>2 DEF Init, GlueInit
  <2> QED
    BY <2>1, DecoderAssumption, SMT DEF PayloadInv, Announced
<1> QED
  BY <1>4, <1>5, <1>6, <1>7, <1>8, <1>9, <1>10 DEF IndInv

\* A part of the invariant is kept if nobody touches what it is about.
LEMMA Kept ==
  /\ HandshakeInv /\ UNCHANGED <<rxStarted, setup, processor, init, connected, wasm, toNode,
                                 decoder, toProcessor>> => HandshakeInv'
  /\ NullInv /\ UNCHANGED <<decoder, call, sp, heap, processor, object, shown,
                            decoded, quanta, fed, processed>> => NullInv'
  /\ CallInv /\ UNCHANGED <<faults, call, processor, sp, heap>> => CallInv'
  /\ CountInv /\ UNCHANGED <<object, fed, processed, quanta, call>> => CountInv'
  /\ OrderInv /\ UNCHANGED <<decoded, shown, toNode, call>> => OrderInv'
  /\ PayloadInv /\ UNCHANGED <<decoded, object>> => PayloadInv'
<1>1. HandshakeInv /\ UNCHANGED <<rxStarted, setup, processor, init, connected, wasm, toNode,
                                 decoder, toProcessor>> => HandshakeInv'
  BY DEF HandshakeInv
<1>2. NullInv /\ UNCHANGED <<decoder, call, sp, heap, processor, object, shown,
                            decoded, quanta, fed, processed>> => NullInv'
  BY DEF NullInv
<1>3. CallInv /\ UNCHANGED <<faults, call, processor, sp, heap>> => CallInv'
  BY DEF CallInv
<1>4. CountInv /\ UNCHANGED <<object, fed, processed, quanta, call>> => CountInv'
  BY DEF CountInv
<1>5. OrderInv /\ UNCHANGED <<decoded, shown, toNode, call>> => OrderInv'
  BY DEF OrderInv, Posted, Unposted
<1>6. PayloadInv /\ UNCHANGED <<decoded, object>> => PayloadInv'
  BY DEF PayloadInv, Announced, Pending
<1> QED
  BY <1>1, <1>2, <1>3, <1>4, <1>5, <1>6

\* The glue's types are kept if nobody touches the module.
LEMMA GlueKept == GlueTypeOK /\ UNCHANGED glueVars => GlueTypeOK'
BY DEF GlueTypeOK, glueVars

-----------------------------------------------------------------------------
(* The page                                                                *)

\* setupAudio() before it has a node: nothing else moves.
LEMMA SetupKept ==
  ASSUME IndInv, TypeOK', ~rxStarted' => setup' = "idle",
         \/ UNCHANGED setup
         \/ setup # "ready" /\ setup' # "ready",
         UNCHANGED <<connected, shown, portVars, processor, decoder, init,
                     historyVars, glueVars>>
  PROVE  IndInv'
<1>1. UNCHANGED <<connected, shown, toProcessor, toNode, processor, decoder, init,
                  decoded, quanta, fed, processed, wasm, gen, view, sp, heap, faults,
                  object, call>>
  BY DEF portVars, historyVars, glueVars
<1>2. HandshakeInv'
  BY <1>1 DEF IndInv, HandshakeInv
<1> QED
  BY <1>1, <1>2, Kept DEF IndInv

\* Every step of the page but the last one of setupAudio() and the messages.
LEMMA SetupStep ==
  ASSUME IndInv,
         Click \/ MediaGranted \/ MediaFailed \/ Fetched \/ BodyRead \/ SetupFailed
           \/ ToggleTrack
  PROVE  IndInv'
<1>1. TypeOK /\ HandshakeInv
  BY DEF IndInv
<1>2. ~rxStarted => setup = "idle"
  BY <1>1 DEF HandshakeInv
<1>3. /\ UNCHANGED <<connected, shown, portVars, processor, decoder, init,
                     historyVars, glueVars>>
      /\ rxStarted' \in BOOLEAN /\ live' \in BOOLEAN
      /\ wasmBytes' \in {"none", "module", "other"}
      /\ setup' \in {"idle", "getUserMedia", "fetch", "arrayBuffer", "addModule",
                      "ready", "failed"}
      /\ ~rxStarted' => setup' = "idle"
      /\ \/ UNCHANGED setup
         \/ setup # "ready" /\ setup' # "ready"
  <2>1. CASE Click
    BY <1>1, <1>2, <2>1 DEF Click, TypeOK
  <2>2. CASE MediaGranted
    BY <1>1, <1>2, <2>2 DEF MediaGranted, TypeOK
  <2>3. CASE MediaFailed
    BY <1>1, <1>2, <2>3 DEF MediaFailed, TypeOK
  <2>4. CASE Fetched
    BY <1>1, <1>2, <2>4 DEF Fetched, TypeOK
  <2>5. CASE BodyRead
    BY <1>1, <1>2, <2>5 DEF BodyRead, TypeOK
  <2>6. CASE SetupFailed
    BY <1>1, <1>2, <2>6 DEF SetupFailed, TypeOK
  <2>7. CASE ToggleTrack
    BY <1>1, <1>2, <2>7 DEF ToggleTrack, TypeOK, pageVars
  <2> QED
    BY <2>1, <2>2, <2>3, <2>4, <2>5, <2>6, <2>7
<1>4. TypeOK'
  BY <1>1, <1>3, GlueKept DEF TypeOK, portVars, historyVars
<1> QED
  BY <1>3, <1>4, SetupKept

\* ModuleAdded: the token of the handshake is created.
LEMMA ModuleAddedStep ==
  ASSUME IndInv, ModuleAdded
  PROVE  IndInv'
<1>1. TypeOK /\ HandshakeInv /\ NullInv /\ CallInv /\ CountInv /\ OrderInv /\ PayloadInv
  BY DEF IndInv
<1>2. /\ setup = "addModule" /\ setup' = "ready" /\ processor' = "requested" /\ connected'
      /\ toProcessor' = Append(toProcessor, "send-wasm-module")
      /\ UNCHANGED <<rxStarted, wasmBytes, live, shown, toNode, decoder, init,
                     decoded, quanta, fed, processed, glueVars>>
      /\ UNCHANGED <<wasm, gen, view, sp, heap, faults, object, call>>
  BY DEF ModuleAdded, NodeInit, historyVars, glueVars
<1>3. init = "idle" /\ toProcessor = <<>> /\ decoder = "null"
  BY <1>1, <1>2 DEF HandshakeInv
<1>4. toProcessor' = <<"send-wasm-module">>
  BY <1>2, <1>3
<1>5. TypeOK'
  <2>1. toProcessor' \in Seq({"send-wasm-module", "init-decoder"})
    BY <1>4
  <2> QED
    BY <1>1, <1>2, <2>1, GlueKept DEF TypeOK
<1>6. HandshakeInv'
  BY <1>1, <1>2, <1>3, <1>4 DEF HandshakeInv
<1>7. NullInv'
  BY <1>1, <1>2 DEF NullInv
<1>8. CallInv'
  <2>1. call.at = "none" /\ sp = 0 /\ heap = {}
    BY <1>1, <1>3 DEF NullInv, NoCall
  <2> QED
    BY <1>1, <1>2, <2>1 DEF CallInv
<1> QED
  BY <1>1, <1>2, <1>5, <1>6, <1>7, <1>8, Kept DEF IndInv

\* The first message of a sequence is put behind another sequence.
LEMMA HeadMoves ==
  ASSUME NEW S, NEW s \in Seq(S), NEW t \in Seq(S), t # <<>>
  PROVE  /\ Head(t) \in S /\ Tail(t) \in Seq(S)
         /\ Append(s, Head(t)) \o Tail(t) = s \o t
<1>1. /\ Head(t) \in S /\ Tail(t) \in Seq(S)
      /\ t = <<Head(t)>> \o Tail(t)
  BY HeadTailProperties, SMT
<1>2. PICK h \in S, u \in Seq(S) : h = Head(t) /\ u = Tail(t)
  BY <1>1
<1>3. <<h>> \in Seq(S)
  OBVIOUS
<1>4. (s \o <<h>>) \o u = s \o (<<h>> \o u)
  BY <1>3, ConcatAssociative
<1>5. Append(s, h) = s \o <<h>>
  BY AppendIsConcat
<1> QED
  BY <1>1, <1>2, <1>4, <1>5, Zenon

\* NodeOnMessage: the token goes back, or the oldest result is shown.
LEMMA NodeOnMessageStep ==
  ASSUME IndInv, NodeOnMessage
  PROVE  IndInv'
<1>1. TypeOK /\ HandshakeInv /\ NullInv /\ CallInv /\ CountInv /\ OrderInv /\ PayloadInv
  BY DEF IndInv
<1>2. /\ toNode # <<>> /\ toNode' = Tail(toNode)
      /\ IF Head(toNode) = "wasm-module-loaded"
         THEN toProcessor' = Append(toProcessor, "init-decoder") /\ UNCHANGED shown
         ELSE shown' = Append(shown, Head(toNode)) /\ UNCHANGED toProcessor
      /\ UNCHANGED <<rxStarted, setup, wasmBytes, connected, live, processor, decoder,
                     init, decoded, quanta, fed, processed, glueVars>>
      /\ UNCHANGED <<wasm, gen, view, sp, heap, faults, object, call>>
  BY DEF NodeOnMessage, pageVars, historyVars, glueVars
<1>3. init = "done"
  BY <1>1, <1>2 DEF HandshakeInv, TypeOK
<1>4. CallInv' /\ CountInv' /\ PayloadInv'
  BY <1>1, <1>2, Kept
<1>5. CASE decoder = "null"
  <2>1. toNode = <<"wasm-module-loaded">> /\ toProcessor = <<>> /\ shown = <<>> /\ call = NoCall
        /\ decoded = <<>>
    BY <1>1, <1>2, <1>3, <1>5 DEF HandshakeInv, NullInv
  <2>2. Head(toNode) = "wasm-module-loaded" /\ toNode' = <<>>
    BY <1>2, <2>1
  <2>3. toProcessor' = <<"init-decoder">> /\ shown' = shown
    BY <1>2, <2>1, <2>2
  <2>4. TypeOK'
    <3>1. toProcessor' \in Seq({"send-wasm-module", "init-decoder"})
      BY <2>3
    <3>2. toNode' \in Seq({"wasm-module-loaded"} \cup Results)
      BY <2>2
    <3> QED
      BY <1>1, <1>2, <2>3, <3>1, <3>2, GlueKept DEF TypeOK
  <2>5. HandshakeInv'
    BY <1>1, <1>2, <1>3, <1>5, <2>2, <2>3 DEF HandshakeInv
  <2>6. NullInv'
    BY <1>1, <1>2, <2>3 DEF NullInv
  <2>7. OrderInv'
    <3>1. decoded' = <<>> /\ shown' = <<>> /\ Posted' = <<>> /\ Unposted' = <<>>
      BY <1>2, <2>1, <2>2, <2>3 DEF Posted, Unposted, NoCall
    <3>2. (<<>> \o <<>>) \o <<>> = <<>>
      OBVIOUS
    <3> QED
      BY <3>1, <3>2, Zenon DEF OrderInv
  <2> QED
    BY <1>4, <2>4, <2>5, <2>6, <2>7 DEF IndInv
<1>6. CASE decoder # "null"
  <2>1. decoder = "WasmDecoder" /\ toNode \in Seq(Results) /\ toProcessor = <<>>
    BY <1>1, <1>3, <1>6 DEF HandshakeInv
  <2>2. shown \in Seq(Results)
    BY <1>1 DEF TypeOK
  <2>3. /\ Head(toNode) \in Results /\ toNode' \in Seq(Results)
        /\ Append(shown, Head(toNode)) \o Tail(toNode) = shown \o toNode
    BY <1>2, <2>1, <2>2, HeadMoves
  <2>4. \A r \in Results : r # "wasm-module-loaded"
    BY DEF Results, Statuses
  <2>5. shown' = Append(shown, Head(toNode)) /\ toProcessor' = toProcessor
    BY <1>2, <2>3, <2>4
  <2>6. TypeOK'
    <3>1. shown' \in Seq(Results)
      BY <2>2, <2>3, <2>5
    <3>2. toNode' \in Seq({"wasm-module-loaded"} \cup Results)
      BY <2>3
    <3> QED
      BY <1>1, <1>2, <2>5, <3>1, <3>2, GlueKept DEF TypeOK
  <2>7. HandshakeInv'
    BY <1>1, <1>2, <1>3, <2>1, <2>3, <2>5 DEF HandshakeInv
  <2>8. NullInv'
    BY <1>2, <1>6 DEF NullInv
  <2>9. OrderInv'
    <3>1. Posted = toNode
      BY <2>3, <2>4 DEF Posted
    <3>2. Posted' = toNode'
      <4>1. toNode' # <<>> => Head(toNode') \in Results
        BY <2>3
      <4> QED
        BY <2>4, <4>1 DEF Posted
    <3>3. Unposted' = Unposted /\ decoded' = decoded
      BY <1>2 DEF Unposted
    <3>4. shown' \o toNode' = shown \o toNode
      BY <1>2, <2>3, <2>5
    <3> QED
      BY <1>1, <3>1, <3>2, <3>3, <3>4, Zenon DEF OrderInv
  <2> QED
    BY <1>4, <2>6, <2>7, <2>8, <2>9 DEF IndInv
<1> QED
  BY <1>5, <1>6

-----------------------------------------------------------------------------
(* The worklet's messages                                                  *)

\* Construct: the processor runs; there is no call before.
LEMMA ConstructStep ==
  ASSUME IndInv, Construct
  PROVE  IndInv'
<1>1. TypeOK /\ HandshakeInv /\ NullInv /\ CallInv /\ CountInv /\ OrderInv /\ PayloadInv
  BY DEF IndInv
<1>2. /\ processor = "requested" /\ processor' = "running"
      /\ UNCHANGED <<rxStarted, setup, wasmBytes, connected, live, shown, toProcessor,
                     toNode, decoder, init, decoded, quanta, fed, processed, glueVars>>
      /\ UNCHANGED <<wasm, gen, view, sp, heap, faults, object, call>>
  BY DEF Construct, pageVars, portVars, historyVars, glueVars
<1>3. TypeOK'
  BY <1>1, <1>2, GlueKept DEF TypeOK
<1>4. HandshakeInv'
  BY <1>1, <1>2 DEF HandshakeInv
<1>5. NullInv'
  BY <1>1, <1>2 DEF NullInv
<1>6. CallInv'
  BY <1>1, <1>2 DEF CallInv
<1> QED
  BY <1>1, <1>2, <1>3, <1>4, <1>5, <1>6, Kept DEF IndInv

\* OnSendWasmModule, Compiled, InstantiateFailed: the token is with the compiler.
LEMMA CompilerStep ==
  ASSUME IndInv, OnSendWasmModule \/ Compiled \/ InstantiateFailed
  PROVE  IndInv'
<1>1. TypeOK /\ HandshakeInv /\ NullInv /\ CallInv /\ CountInv /\ OrderInv /\ PayloadInv
  BY DEF IndInv
<1>2. /\ UNCHANGED <<rxStarted, setup, wasmBytes, connected, live, shown, toNode, processor,
                     decoder, decoded, quanta, fed, processed, glueVars>>
      /\ UNCHANGED <<wasm, gen, view, sp, heap, faults, object, call>>
  BY DEF OnSendWasmModule, Compiled, InstantiateFailed, pageVars, portVars, historyVars,
         glueVars
<1>3. /\ init' \in {"compile", "instantiate", "failed"} /\ toProcessor' = <<>>
      /\ setup = "ready" /\ wasm = "undefined" /\ toNode = <<>> /\ decoder = "null"
  <2>1. CASE OnSendWasmModule
    <3>1. /\ toProcessor # <<>> /\ Head(toProcessor) = "send-wasm-module"
          /\ toProcessor' = Tail(toProcessor) /\ init' = "compile"
      BY <2>1 DEF OnSendWasmModule
    <3>2. Head(<<"init-decoder">>) = "init-decoder"
      OBVIOUS
    <3>3. toProcessor # <<"init-decoder">>
      BY <3>1, <3>2
    <3>4. init = "idle" /\ setup = "ready" /\ toProcessor = <<"send-wasm-module">>
      BY <1>1, <3>1, <3>3 DEF HandshakeInv, TypeOK
    <3>5. toProcessor' = <<>>
      BY <3>1, <3>4
    <3> QED
      BY <1>1, <3>1, <3>4, <3>5 DEF HandshakeInv
  <2>2. CASE Compiled
    BY <1>1, <2>2 DEF Compiled, HandshakeInv, portVars
  <2>3. CASE InstantiateFailed
    BY <1>1, <2>3 DEF InstantiateFailed, HandshakeInv, portVars
  <2> QED
    BY <2>1, <2>2, <2>3
<1>4. TypeOK'
  <2>1. toProcessor' \in Seq({"send-wasm-module", "init-decoder"})
    BY <1>3
  <2> QED
    BY <1>1, <1>2, <1>3, <2>1, GlueKept DEF TypeOK
<1>5. HandshakeInv'
  BY <1>1, <1>2, <1>3 DEF HandshakeInv
<1> QED
  BY <1>1, <1>2, <1>4, <1>5, Kept DEF IndInv

\* Instantiated: the module has exports, and the page is told.
LEMMA InstantiatedStep ==
  ASSUME IndInv, Instantiated
  PROVE  IndInv'
<1>1. TypeOK /\ HandshakeInv /\ NullInv /\ CallInv /\ CountInv /\ OrderInv /\ PayloadInv
  BY DEF IndInv
<1>2. /\ init = "instantiate" /\ init' = "done" /\ wasm' = "exports"
      /\ view' = [v \in Views |-> NoView]
      /\ toNode' = Append(toNode, "wasm-module-loaded")
      /\ UNCHANGED <<rxStarted, setup, wasmBytes, connected, live, shown, toProcessor,
                     processor, decoder, decoded, quanta, fed, processed>>
      /\ UNCHANGED <<gen, sp, heap, faults, object, call>>
  BY DEF Instantiated, FinalizeInit, pageVars, historyVars
<1>3. setup = "ready" /\ toNode = <<>> /\ toProcessor = <<>> /\ decoder = "null"
  BY <1>1, <1>2 DEF HandshakeInv
<1>4. toNode' = <<"wasm-module-loaded">>
  BY <1>2, <1>3
<1>5. TypeOK'
  <2>1. GlueTypeOK'
    <3>1. NoView \in NoView .. MaxGrowth
      BY GrowthAssumption, SMT DEF NoView
    <3> QED
      BY <1>1, <1>2, <3>1 DEF TypeOK, GlueTypeOK
  <2>2. toNode' \in Seq({"wasm-module-loaded"} \cup Results)
    BY <1>4
  <2> QED
    BY <1>1, <1>2, <2>1, <2>2 DEF TypeOK
<1>6. HandshakeInv'
  BY <1>1, <1>2, <1>3, <1>4 DEF HandshakeInv
<1>7. OrderInv'
  <2>1. Posted = <<>> /\ Posted' = <<>>
    BY <1>3, <1>4 DEF Posted
  <2>2. Unposted' = Unposted /\ decoded' = decoded /\ shown' = shown
    BY <1>2 DEF Unposted
  <2> QED
    BY <1>1, <2>1, <2>2, Zenon DEF OrderInv
<1> QED
  BY <1>1, <1>2, <1>5, <1>6, <1>7, Kept DEF IndInv

\* OnInitDecoder: the module has exports, and there is a decoder now.
LEMMA OnInitDecoderStep ==
  ASSUME IndInv, OnInitDecoder
  PROVE  IndInv'
<1>1. TypeOK /\ HandshakeInv /\ NullInv /\ CallInv /\ CountInv /\ OrderInv /\ PayloadInv
  BY DEF IndInv
<1>2. /\ toProcessor # <<>> /\ Head(toProcessor) = "init-decoder"
      /\ toProcessor' = Tail(toProcessor)
      /\ UNCHANGED <<rxStarted, setup, wasmBytes, connected, live, shown, toNode,
                     processor, init, decoded, quanta, fed, processed>>
  BY DEF OnInitDecoder, pageVars, historyVars
<1>3. Head(<<"send-wasm-module">>) = "send-wasm-module"
  OBVIOUS
<1>4. /\ init = "done" /\ wasm = "exports" /\ toProcessor = <<"init-decoder">>
      /\ decoder = "null" /\ toNode = <<>>
  BY <1>1, <1>2, <1>3 DEF HandshakeInv, TypeOK
<1>5. /\ decoder' = "WasmDecoder" /\ object' = NewWasmDecoder /\ gen' \in Grown(gen)
      /\ UNCHANGED <<wasm, view, sp, heap, faults, call>>
  BY <1>4 DEF OnInitDecoder, New
<1>6. toProcessor' = <<>> /\ object' = object
  BY <1>1, <1>2, <1>4, <1>5 DEF NullInv
<1>7. TypeOK'
  <2>1. gen' \in 0 .. MaxGrowth
    BY <1>1, <1>5, GrownType DEF TypeOK, GlueTypeOK
  <2>2. toProcessor' \in Seq({"send-wasm-module", "init-decoder"})
    BY <1>6
  <2>3. GlueTypeOK'
    BY <1>1, <1>5, <1>6, <2>1 DEF TypeOK, GlueTypeOK
  <2> QED
    BY <1>1, <1>2, <1>5, <2>2, <2>3 DEF TypeOK
<1>8. HandshakeInv'
  <2>1. toNode' \in Seq(Results)
    BY <1>2, <1>4
  <2> QED
    BY <1>1, <1>2, <1>4, <1>5, <1>6, <2>1 DEF HandshakeInv
<1>9. NullInv'
  BY <1>5 DEF NullInv
<1> QED
  BY <1>1, <1>2, <1>5, <1>6, <1>7, <1>8, <1>9, Kept DEF IndInv

-----------------------------------------------------------------------------
(* A call of process()                                                     *)

\* A step inside a call that only moves the glue on: what it has to keep.
LEMMA GlueStep ==
  ASSUME IndInv, GlueTypeOK', CallInv', decoder # "null",
         call'.result = call.result,
         call'.at \in {"pass", "call"} => quanta < MaxQuanta,
         UNCHANGED <<wasm, object>>,
         UNCHANGED <<pageVars, live, shown, portVars, processor, decoder, init,
                     historyVars>>
  PROVE  IndInv'
<1>1. TypeOK /\ HandshakeInv /\ NullInv /\ CallInv /\ CountInv /\ OrderInv /\ PayloadInv
  BY DEF IndInv
<1>2. UNCHANGED <<rxStarted, setup, wasmBytes, connected, live, shown, toProcessor, toNode,
                     processor, decoder, init, decoded, quanta, fed, processed>>
  BY DEF pageVars, portVars, historyVars
<1>3. TypeOK'
  BY <1>1, <1>2 DEF TypeOK
<1>4. HandshakeInv'
  BY <1>1, <1>2, Kept
<1>5. NullInv'
  BY <1>2 DEF NullInv
<1>6. CountInv'
  BY <1>1, <1>2 DEF CountInv
<1>7. OrderInv'
  BY <1>1, <1>2 DEF OrderInv, Posted, Unposted
<1>8. PayloadInv'
  BY <1>1, <1>2, Kept
<1> QED
  BY <1>3, <1>4, <1>5, <1>6, <1>7, <1>8 DEF IndInv

\* While a call runs there is a decoder.
LEMMA CallHasDecoder ==
  ASSUME IndInv, call.at # "none"
  PROVE  decoder # "null" /\ call \in Calls
<1>1. NullInv /\ TypeOK
  BY DEF IndInv
<1>2. NoCall.at = "none"
  BY DEF NoCall
<1>3. decoder # "null"
  BY <1>1, <1>2 DEF NullInv
<1>4. call \in Calls
  BY <1>1 DEF TypeOK, GlueTypeOK, Calls
<1> QED
  BY <1>3, <1>4

\* Render: the frame is made.
LEMMA RenderStep ==
  ASSUME IndInv, Render
  PROVE  IndInv'
<1>1. TypeOK /\ HandshakeInv /\ NullInv /\ CallInv /\ CountInv /\ OrderInv /\ PayloadInv
  BY DEF IndInv
<1>2. /\ processor = "running" /\ decoder # "null" /\ quanta < MaxQuanta
      /\ call.at = "none" /\ sp' = sp + 1
      /\ UNCHANGED <<wasm, gen, view, heap, faults, object>>
      /\ UNCHANGED <<pageVars, live, shown, portVars, processor, decoder, init,
                     historyVars>>
  BY DEF Render, ProcessEnter, Idle
<1>3. PICK b \in BOOLEAN : call' = [NoCall EXCEPT !.at = "pass", !.samples = b]
  BY <1>1 DEF Render, ProcessEnter, TypeOK
<1>4. call' = [at |-> "pass", samples |-> b, result |-> "Okay", thrown |-> FALSE]
  BY <1>3 DEF NoCall
<1>5. /\ call' \in Calls /\ call'.at = "pass" /\ call'.result = "Okay"
      /\ call'.thrown = FALSE
  BY <1>4 DEF Calls, Statuses
<1>6. sp = 0 /\ heap = {} /\ call.result = "Okay" /\ sp' = 1
  BY <1>1, <1>2 DEF CallInv
<1>7. GlueTypeOK'
  <2>1. sp' \in 0 .. 2
    BY <1>6
  <2> QED
    BY <1>1, <1>2, <1>5, <2>1 DEF TypeOK, GlueTypeOK, Calls
<1>8. CallInv'
  BY <1>1, <1>2, <1>5, <1>6 DEF CallInv
<1> QED
  BY <1>2, <1>5, <1>6, <1>7, <1>8, GlueStep

\* Pass: something that is no array throws, and the samples are copied through
\* a view of the memory malloc() has left.
LEMMA PassStep ==
  ASSUME IndInv, Pass
  PROVE  IndInv'
<1>1. TypeOK /\ HandshakeInv /\ NullInv /\ CallInv /\ CountInv /\ OrderInv /\ PayloadInv
  BY DEF IndInv
<1>2. /\ call.at = "pass"
      /\ UNCHANGED <<wasm, sp, object>>
      /\ UNCHANGED <<pageVars, live, shown, portVars, processor, decoder, init,
                     historyVars>>
  BY DEF Pass, PassNothing, PassArrayF32ToWasm0
<1>3. decoder # "null" /\ call \in Calls
  BY <1>2, CallHasDecoder
<1>4. /\ sp = 1 /\ heap = {} /\ faults = {} /\ call.result = "Okay" /\ call.thrown = FALSE
      /\ processor = "running" /\ quanta < MaxQuanta
  BY <1>1, <1>2, <1>3 DEF CallInv, CountInv, Calls
<1>5. CASE PassNothing
  <2>1. /\ call' = [call EXCEPT !.at = "finally", !.thrown = TRUE] /\ ~call.samples
        /\ UNCHANGED <<gen, view, heap, faults>>
    BY <1>5 DEF PassNothing
  <2>2. /\ call' \in Calls /\ call'.at = "finally" /\ call'.thrown = TRUE
        /\ call'.result = call.result /\ call'.samples = call.samples
    BY <1>3, <2>1 DEF Calls
  <2>3. GlueTypeOK'
    BY <1>1, <1>2, <2>1, <2>2 DEF TypeOK, GlueTypeOK, Calls
  <2>4. CallInv'
    BY <1>2, <1>4, <2>1, <2>2 DEF CallInv
  <2> QED
    BY <1>2, <1>3, <2>2, <2>3, <2>4, GlueStep
<1>6. CASE PassArrayF32ToWasm0
  <2>1. PICK g \in Grown(gen) :
          /\ gen' = g
          /\ view' = [view EXCEPT !["f32"] = GetFloat32Memory0(g)]
          /\ faults' = faults \cup Access(GetFloat32Memory0(g), g)
    BY <1>6 DEF PassArrayF32ToWasm0
  <2>2. /\ call.samples /\ heap' = heap \cup {"samples"}
        /\ call' = [call EXCEPT !.at = "call"]
    BY <1>6 DEF PassArrayF32ToWasm0
  <2>3. g \in 0 .. MaxGrowth /\ g \in NoView .. MaxGrowth
    BY <1>1, GrownType, ViewType DEF TypeOK, GlueTypeOK
  <2>4. GetFloat32Memory0(g) = g /\ faults' = {}
    BY <1>4, <2>1, RefreshCurrent DEF GetFloat32Memory0
  <2>5. /\ call' \in Calls /\ call'.at = "call" /\ call'.thrown = FALSE
        /\ call'.result = call.result /\ call'.samples = call.samples
    BY <1>3, <1>4, <2>2 DEF Calls
  <2>6. heap' = {"samples"}
    BY <1>4, <2>2
  <2>7. GlueTypeOK'
    <3>1. view' \in [Views -> NoView .. MaxGrowth]
      BY <1>1, <2>1, <2>3, <2>4 DEF TypeOK, GlueTypeOK
    <3> QED
      BY <1>1, <1>2, <2>1, <2>3, <2>4, <2>5, <2>6, <3>1 DEF TypeOK, GlueTypeOK, Calls
  <2>8. CallInv'
    BY <1>2, <1>4, <2>2, <2>4, <2>5, <2>6 DEF CallInv
  <2> QED
    BY <1>2, <1>3, <1>4, <2>5, <2>7, <2>8, GlueStep
<1> QED
  BY <1>5, <1>6 DEF Pass

\* Read: the result is read through current views, and given back once.
LEMMA ReadStep ==
  ASSUME IndInv, Read
  PROVE  IndInv'
<1>1. TypeOK /\ HandshakeInv /\ NullInv /\ CallInv /\ CountInv /\ OrderInv /\ PayloadInv
  BY DEF IndInv
<1>2. /\ call.at = "read"
      /\ view' = [view EXCEPT
                    !["i32"] = GetInt32Memory0(gen),
                    !["u8"] = GetCachedStringFromWasm0(call.result = "Okay", gen)]
      /\ IF call.result # "Okay"
         THEN /\ heap' = heap \ {"result"}
              /\ faults' = faults
                   \cup Access(view'["i32"], gen) \cup Access(view'["u8"], gen)
                   \cup Free("result")
         ELSE /\ faults' = faults \cup Access(view'["i32"], gen)
              /\ UNCHANGED heap
      /\ call' = [call EXCEPT !.at = "finally"]
      /\ UNCHANGED <<wasm, gen, sp, object>>
      /\ UNCHANGED <<pageVars, live, shown, portVars, processor, decoder, init,
                     historyVars>>
  BY DEF Read, ReadResult
<1>3. decoder # "null" /\ call \in Calls
  BY <1>2, CallHasDecoder
<1>4. /\ sp = 1 /\ heap = {b \in {"result"} : call.result # "Okay"} /\ faults = {}
      /\ call.thrown = FALSE /\ processor = "running"
  BY <1>1, <1>2, <1>3 DEF CallInv, Calls
<1>5. /\ call' \in Calls /\ call'.at = "finally" /\ call'.thrown = FALSE
      /\ call'.result = call.result
  BY <1>2, <1>3, <1>4 DEF Calls
<1>6. gen \in NoView .. MaxGrowth /\ view \in [Views -> NoView .. MaxGrowth]
  BY <1>1, ViewType DEF TypeOK, GlueTypeOK
<1>7. GetInt32Memory0(gen) = gen /\ GetUint8Memory0(gen) = gen /\ Access(gen, gen) = {}
  BY RefreshCurrent DEF GetInt32Memory0, GetUint8Memory0
<1>8. /\ view' \in [Views -> NoView .. MaxGrowth]
      /\ view'["i32"] = gen
      /\ call.result # "Okay" => view'["u8"] = gen
  <2>1. PICK u : u = GetCachedStringFromWasm0(call.result = "Okay", gen)
    OBVIOUS
  <2>2. u \in NoView .. MaxGrowth /\ (call.result # "Okay" => u = gen)
    BY <1>6, <1>7, <2>1 DEF GetCachedStringFromWasm0, Views
  <2>3. view' = [view EXCEPT !["i32"] = gen, !["u8"] = u]
    BY <1>2, <1>7, <2>1
  <2> QED
    BY <1>6, <2>2, <2>3 DEF Views
<1>9. heap' = {} /\ faults' = {}
  <2>1. CASE call.result # "Okay"
    BY <1>2, <1>4, <1>7, <1>8, <2>1 DEF Free
  <2>2. CASE call.result = "Okay"
    BY <1>2, <1>4, <1>7, <1>8, <2>2
  <2> QED
    BY <2>1, <2>2
<1>10. GlueTypeOK'
  BY <1>1, <1>2, <1>5, <1>8, <1>9 DEF TypeOK, GlueTypeOK, Calls
<1>11. CallInv'
  BY <1>2, <1>4, <1>5, <1>9 DEF CallInv
<1> QED
  BY <1>2, <1>3, <1>5, <1>10, <1>11, GlueStep

\* RunHook: the panic hook reads and writes through current views, and frees
\* what it was given.
LEMMA RunHookStep ==
  ASSUME IndInv, RunHook
  PROVE  IndInv'
<1>1. TypeOK /\ HandshakeInv /\ NullInv /\ CallInv /\ CountInv /\ OrderInv /\ PayloadInv
  BY DEF IndInv
<1>2. /\ call.at # "none" /\ UNCHANGED <<wasm, object>>
      /\ UNCHANGED <<pageVars, live, shown, portVars, processor, decoder, init,
                     historyVars>>
  BY DEF RunHook, Panic, ImportStack, ImportError
<1>3. decoder # "null" /\ call \in Calls
  BY <1>2, CallHasDecoder
<1>4. processor' = "running" /\ faults = {} /\ gen \in 0 .. MaxGrowth
      /\ view \in [Views -> NoView .. MaxGrowth]
  BY <1>1, <1>2 DEF CallInv, TypeOK, GlueTypeOK
<1>5. CASE Panic
  <2>1. /\ call.at = "call" /\ sp' = sp + 1 /\ gen' \in Grown(gen)
        /\ heap' = heap \cup {"message"} /\ call' = [call EXCEPT !.at = "panic"]
        /\ UNCHANGED <<view, faults>>
    BY <1>5 DEF Panic
  <2>2. /\ sp = 1 /\ heap = {"samples"} /\ call.result = "Okay" /\ call.samples
        /\ call.thrown = FALSE
    BY <1>1, <1>3, <2>1 DEF CallInv, Calls
  <2>3. /\ call' \in Calls /\ call'.at = "panic" /\ call'.thrown = FALSE
        /\ call'.result = call.result /\ call'.samples = call.samples
    BY <1>3, <2>1, <2>2 DEF Calls
  <2>4. sp' = 2 /\ sp' \in 0 .. 2 /\ heap' = {"samples", "message"}
    BY <2>1, <2>2
  <2>5. gen' \in 0 .. MaxGrowth
    BY <1>4, <2>1, GrownType
  <2>6. GlueTypeOK'
    BY <1>1, <1>2, <2>1, <2>3, <2>4, <2>5 DEF TypeOK, GlueTypeOK, Calls
  <2>7. CallInv'
    BY <1>4, <2>1, <2>2, <2>3, <2>4 DEF CallInv
  <2> QED
    BY <1>2, <1>3, <2>3, <2>6, <2>7, GlueStep
<1>6. CASE ImportStack
  <2>1. /\ call.at = "panic" /\ heap' = heap \cup {"stack"}
        /\ call' = [call EXCEPT !.at = "hook"] /\ UNCHANGED sp
    BY <1>6 DEF ImportStack
  <2>2. PICK g1 \in Grown(gen) : \E g2 \in Grown(g1) :
           /\ gen' = g2
           /\ view' = [view EXCEPT !["u8"] = Refresh(GetUint8Memory0(g1), g2),
                                   !["i32"] = GetInt32Memory0(g2)]
           /\ faults' = ((faults \cup Access(GetUint8Memory0(g1), g1))
                            \cup Access(Refresh(GetUint8Memory0(g1), g2), g2))
                            \cup Access(GetInt32Memory0(g2), g2)
    BY <1>6 DEF ImportStack
  <2>3. PICK g2 \in Grown(g1) :
           /\ gen' = g2
           /\ view' = [view EXCEPT !["u8"] = Refresh(GetUint8Memory0(g1), g2),
                                   !["i32"] = GetInt32Memory0(g2)]
           /\ faults' = ((faults \cup Access(GetUint8Memory0(g1), g1))
                            \cup Access(Refresh(GetUint8Memory0(g1), g2), g2))
                            \cup Access(GetInt32Memory0(g2), g2)
    BY <2>2
  <2>4. g2 \in 0 .. MaxGrowth /\ g2 \in NoView .. MaxGrowth
    BY <1>4, GrownType, ViewType
  <2>5. /\ GetUint8Memory0(g1) = g1 /\ GetInt32Memory0(g2) = g2
        /\ Refresh(GetUint8Memory0(g1), g2) = g2
        /\ Access(g1, g1) = {} /\ Access(g2, g2) = {}
    BY RefreshCurrent DEF GetInt32Memory0, GetUint8Memory0
  <2>6. faults' = {} /\ view' \in [Views -> NoView .. MaxGrowth]
    BY <1>4, <2>3, <2>4, <2>5
  <2>7. /\ sp = 2 /\ heap = {"samples", "message"} /\ call.result = "Okay" /\ call.samples
        /\ call.thrown = FALSE
    BY <1>1, <1>3, <2>1 DEF CallInv, Calls
  <2>8. /\ call' \in Calls /\ call'.at = "hook" /\ call'.thrown = FALSE
        /\ call'.result = call.result /\ call'.samples = call.samples
    BY <1>3, <2>1, <2>7 DEF Calls
  <2>9. heap' = {"samples", "message", "stack"}
    BY <2>1, <2>7
  <2>10. GlueTypeOK'
    BY <1>1, <1>2, <2>1, <2>3, <2>4, <2>6, <2>8, <2>9 DEF TypeOK, GlueTypeOK, Calls
  <2>11. CallInv'
    BY <1>4, <2>1, <2>6, <2>7, <2>8, <2>9 DEF CallInv
  <2> QED
    BY <1>2, <1>3, <2>8, <2>10, <2>11, GlueStep
<1>7. CASE ImportError
  <2>1. /\ call.at = "hook" /\ heap' = heap \ {"message", "stack"}
        /\ call' = [call EXCEPT !.at = "finally", !.thrown = TRUE] /\ UNCHANGED sp
    BY <1>7 DEF ImportError
  <2>2. PICK g \in Grown(gen) :
           /\ gen' = g
           /\ view' = [view EXCEPT !["u8"] = GetCachedStringFromWasm0(FALSE, g)]
           /\ faults' = faults \cup Access(view'["u8"], g) \cup Free("message")
    BY <1>7 DEF ImportError
  <2>3. g \in 0 .. MaxGrowth /\ g \in NoView .. MaxGrowth
    BY <1>4, GrownType, ViewType
  <2>4. GetCachedStringFromWasm0(FALSE, g) = g /\ Access(g, g) = {}
    BY RefreshCurrent DEF GetCachedStringFromWasm0, GetUint8Memory0
  <2>5. /\ sp = 2 /\ heap = {"samples", "message", "stack"} /\ call.result = "Okay"
        /\ call.samples
    BY <1>1, <1>3, <2>1 DEF CallInv, Calls
  <2>6. view' \in [Views -> NoView .. MaxGrowth] /\ view'["u8"] = g
    BY <1>4, <2>2, <2>3, <2>4 DEF Views
  <2>7. faults' = {} /\ heap' = {"samples"}
    BY <1>4, <2>1, <2>2, <2>4, <2>5, <2>6 DEF Free
  <2>8. /\ call' \in Calls /\ call'.at = "finally" /\ call'.thrown = TRUE
        /\ call'.result = call.result /\ call'.samples = call.samples
    BY <1>3, <2>1 DEF Calls
  <2>9. GlueTypeOK'
    BY <1>1, <1>2, <2>1, <2>2, <2>3, <2>6, <2>7, <2>8 DEF TypeOK, GlueTypeOK, Calls
  <2>10. CallInv'
    BY <1>4, <2>1, <2>5, <2>7, <2>8 DEF CallInv
  <2> QED
    BY <1>2, <1>3, <2>8, <2>9, <2>10, GlueStep
<1> QED
  BY <1>5, <1>6, <1>7 DEF RunHook

\* A result behind the others: a "Done" only if a payload is pending, and then
\* none is, until the next "Sync".
LEMMA PayloadAppend ==
  ASSUME NEW s \in Seq(Results), NEW r \in Results, Announced(s),
         r = "Done" => Pending(s)
  PROVE  /\ Announced(Append(s, r))
         /\ r = "Sync" \/ (Pending(s) /\ r # "Done") => Pending(Append(s, r))
<1> DEFINE t == Append(s, r)
<1>1. /\ Len(s) \in Nat /\ Len(t) = Len(s) + 1
      /\ \A i \in 1 .. Len(s) : t[i] = s[i]
      /\ t[Len(s) + 1] = r
  BY AppendProperties, LenProperties
<1> HIDE DEF t
<1>2. Announced(t)
  <2> SUFFICES ASSUME NEW n \in 1 .. Len(t), t[n] = "Done"
               PROVE  \E m \in 1 .. n - 1 :
                        t[m] = "Sync" /\ \A k \in m .. n - 1 : t[k] # "Done"
    BY Zenon DEF Announced
  <2>1. CASE n \in 1 .. Len(s)
    <3>1. s[n] = "Done"
      BY <1>1, <2>1
    <3>2. PICK m \in 1 .. n - 1 : s[m] = "Sync" /\ \A k \in m .. n - 1 : s[k] # "Done"
      BY <2>1, <3>1, Zenon DEF Announced
    <3>3. m \in 1 .. Len(s) /\ \A k \in m .. n - 1 : k \in 1 .. Len(s)
      BY <1>1, <2>1, SMT
    <3> QED
      BY <1>1, <3>2, <3>3
  <2>2. CASE n = Len(s) + 1
    <3>1. Pending(s) /\ n - 1 = Len(s)
      BY <1>1, <2>2
    <3>2. PICK m \in 1 .. Len(s) : s[m] = "Sync" /\ \A k \in m .. Len(s) : s[k] # "Done"
      BY <3>1, Zenon DEF Pending
    <3>3. \A k \in m .. Len(s) : k \in 1 .. Len(s)
      BY <1>1, SMT
    <3> QED
      BY <1>1, <3>1, <3>2, <3>3
  <2> QED
    BY <1>1, <2>1, <2>2, SMT
<1>3. ASSUME r = "Sync" PROVE Pending(t)
  <2>1. Len(t) \in 1 .. Len(t) /\ \A k \in Len(t) .. Len(t) : k = Len(t)
    BY <1>1, SMT
  <2>2. t[Len(t)] = "Sync"
    BY <1>1, <1>3
  <2> QED
    BY <2>1, <2>2 DEF Pending
<1>4. ASSUME Pending(s), r # "Done" PROVE Pending(t)
  <2>1. PICK m \in 1 .. Len(s) : s[m] = "Sync" /\ \A k \in m .. Len(s) : s[k] # "Done"
    BY <1>4, Zenon DEF Pending
  <2>2. m \in 1 .. Len(t) /\ \A k \in m .. Len(t) : k \in m .. Len(s) \/ k = Len(s) + 1
    BY <1>1, SMT
  <2>3. \A k \in m .. Len(s) : k \in 1 .. Len(s)
    BY <1>1, SMT
  <2>4. t[m] = "Sync" /\ \A k \in m .. Len(t) : t[k] # "Done"
    BY <1>1, <1>4, <2>1, <2>2, <2>3
  <2> QED
    BY <2>2, <2>4, Zenon DEF Pending
<1> QED
  BY <1>2, <1>3, <1>4 DEF t

\* Behind the handshake, the port carries results only.
LEMMA PostedResults ==
  ASSUME toNode \in Seq(Results)
  PROVE  Posted = toNode
<1>1. toNode # <<>> => Head(toNode) \in Results
  OBVIOUS
<1>2. "wasm-module-loaded" \notin Results
  BY DEF Results, Statuses
<1> QED
  BY <1>1, <1>2 DEF Posted

\* One more, times e.
LEMMA OneMore ==
  ASSUME NEW x \in Nat, NEW e \in Nat
  PROVE  x * e \in Nat /\ (x + 1) * e = x * e + e
BY SMT

\* RunModule: the samples are taken, the result is the next one in order, and
\* it fits the payload.
LEMMA RunModuleStep ==
  ASSUME IndInv, RunModule
  PROVE  IndInv'
<1>1. TypeOK /\ HandshakeInv /\ NullInv /\ CallInv /\ CountInv /\ OrderInv /\ PayloadInv
  BY DEF IndInv
<1>2. PICK found \in BOOLEAN, preamble \in Preambles :
        LET p == WasmDecoderProcess(object, found, preamble)
        IN /\ WasmProcess(found, preamble)
           /\ fed' = fed + p.fed
           /\ processed' = processed + (IF p.processed THEN 1 ELSE 0)
           /\ decoded' = IF p.result = "Okay" THEN decoded
                         ELSE Append(decoded, p.result)
  BY DEF RunModule
<1>3. PICK p : p = WasmDecoderProcess(object, found, preamble)
  OBVIOUS
<1>4. /\ call.at = "call" /\ object' = p.w /\ gen' \in Grown(gen)
      /\ heap' = (heap \ {"samples"}) \cup {b \in {"result"} : p.result # "Okay"}
      /\ call' = [call EXCEPT !.at = "read", !.result = p.result]
      /\ UNCHANGED <<wasm, view, sp, faults>>
  BY <1>2, <1>3 DEF WasmProcess
<1>5. /\ fed' = fed + p.fed
      /\ processed' = processed + (IF p.processed THEN 1 ELSE 0)
      /\ decoded' = IF p.result = "Okay" THEN decoded ELSE Append(decoded, p.result)
  BY <1>2, <1>3
<1>6. /\ quanta' = quanta + 1
      /\ UNCHANGED <<rxStarted, setup, wasmBytes, connected, live, shown, toProcessor, toNode,
                     processor, decoder, init>>
  BY DEF RunModule, pageVars, portVars
<1>7. decoder # "null" /\ call \in Calls
  BY <1>4, CallHasDecoder
<1>8. /\ sp = 1 /\ heap = {"samples"} /\ faults = {} /\ call.result = "Okay"
      /\ call.thrown = FALSE /\ processor = "running" /\ quanta < MaxQuanta
  BY <1>1, <1>4, <1>7 DEF CallInv, CountInv, Calls
<1>9. object \in Objects /\ object.samples < Batch /\ object.decoder.accumulated < Extended
  BY <1>1 DEF TypeOK, GlueTypeOK, CountInv, Objects
<1>10. /\ p.w \in Objects /\ p.w.samples < Batch
       /\ p.w.decoder.accumulated < Extended
       /\ p.result \in Statuses /\ p.fed \in Nat /\ p.processed \in BOOLEAN
       /\ p.fed + p.w.samples = object.samples + Quantum
       /\ object.decoder.accumulated + p.fed
            = p.w.decoder.accumulated + (IF p.processed THEN Extended ELSE 0)
       /\ p.result = "Done" => object.decoder.symbol < SymbolCount
       /\ p.w.decoder.symbol < SymbolCount =>
            p.result = "Sync" \/ (object.decoder.symbol < SymbolCount /\ p.result # "Done")
  BY <1>3, <1>9, WasmCounts
<1>11. /\ call' \in Calls /\ call'.at = "read" /\ call'.result = p.result
       /\ call'.thrown = FALSE
  BY <1>4, <1>7, <1>8, <1>10 DEF Calls
<1>12. p.result # "Okay" => p.result \in Results
  BY <1>10 DEF Results
<1>13. decoded \in Seq(Results) /\ shown \in Seq(Results) /\ toNode \in Seq(Results)
  BY <1>1, <1>7 DEF TypeOK, HandshakeInv
<1>14. /\ quanta \in Nat /\ fed \in Nat /\ processed \in Nat
       /\ object.samples \in Nat /\ object.decoder.accumulated \in Nat
       /\ p.w.samples \in Nat /\ p.w.decoder.accumulated \in Nat
  <2>1. quanta \in Nat /\ fed \in Nat /\ processed \in Nat
    BY <1>1, QuantaAssumption, SMT DEF TypeOK
  <2>2. \A w \in Objects : w.samples \in Nat /\ w.decoder.accumulated \in Nat
    BY DecoderAssumption, SMT DEF Objects, Decoders
  <2> QED
    BY <1>9, <1>10, <2>1, <2>2
<1>15. TypeOK'
  <2>1. gen' \in 0 .. MaxGrowth
    BY <1>1, <1>4, GrownType DEF TypeOK, GlueTypeOK
  <2>2. heap' \subseteq {"samples", "result", "message", "stack"}
    BY <1>4, <1>8
  <2>3. GlueTypeOK'
    BY <1>1, <1>4, <1>10, <1>11, <2>1, <2>2 DEF TypeOK, GlueTypeOK, Calls, Objects
  <2>4. quanta' \in 0 .. MaxQuanta
    BY <1>6, <1>8, <1>14, QuantaAssumption, SMT
  <2>5. fed' \in Nat /\ processed' \in Nat
    BY <1>5, <1>10, <1>14, SMT
  <2>6. decoded' \in Seq(Results)
    BY <1>5, <1>12, <1>13, AppendProperties
  <2> QED
    BY <1>1, <1>6, <2>3, <2>4, <2>5, <2>6 DEF TypeOK
<1>16. HandshakeInv'
  BY <1>1, <1>4, <1>6, Kept
<1>17. NullInv'
  BY <1>6, <1>7 DEF NullInv
<1>18. CallInv'
  <2>1. heap' = {b \in {"result"} : call'.result # "Okay"}
    BY <1>4, <1>8, <1>11
  <2> QED
    BY <1>4, <1>6, <1>8, <1>11, <2>1 DEF CallInv
<1>19. CountInv'
  <2>1. fed = processed * Extended + object.decoder.accumulated
        /\ quanta * Quantum = fed + object.samples
    BY <1>1 DEF CountInv
  <2>2. /\ fed + p.fed = (processed + (IF p.processed THEN 1 ELSE 0)) * Extended
                           + p.w.decoder.accumulated
        /\ (quanta + 1) * Quantum = (fed + p.fed) + p.w.samples
    <3>1. /\ p.fed \in Nat /\ p.processed \in BOOLEAN
          /\ p.fed + p.w.samples = object.samples + Quantum
          /\ object.decoder.accumulated + p.fed
               = p.w.decoder.accumulated + (IF p.processed THEN Extended ELSE 0)
      BY <1>10
    <3>2. PICK pe : pe = processed * Extended
      OBVIOUS
    <3>3. PICK qq : qq = quanta * Quantum
      OBVIOUS
    <3>4. Extended \in Nat /\ Quantum \in Nat
      BY DecoderAssumption
    <3>5. /\ pe \in Nat /\ (processed + 1) * Extended = pe + Extended
          /\ qq \in Nat /\ (quanta + 1) * Quantum = qq + Quantum
      BY <1>14, <3>2, <3>3, <3>4, OneMore
    <3>6. fed = pe + object.decoder.accumulated /\ qq = fed + object.samples
      BY <2>1, <3>2, <3>3, Zenon
    <3>7. qq + Quantum = (fed + p.fed) + p.w.samples
      BY <1>14, <3>1, <3>4, <3>5, <3>6, SMT
    <3>8. CASE p.processed
      <4>1. fed + p.fed = (pe + Extended) + p.w.decoder.accumulated
        BY <1>14, <3>1, <3>4, <3>5, <3>6, <3>8, SMT
      <4> QED
        BY <3>5, <3>7, <3>8, <4>1, Zenon
    <3>9. CASE ~p.processed
      <4>1. fed + p.fed = pe + p.w.decoder.accumulated /\ processed + 0 = processed
        BY <1>14, <3>1, <3>4, <3>5, <3>6, <3>9, SMT
      <4> QED
        BY <3>2, <3>5, <3>7, <3>9, <4>1, Zenon
    <3> QED
      BY <3>8, <3>9
  <2>3. /\ fed' = processed' * Extended + object'.decoder.accumulated
        /\ quanta' * Quantum = fed' + object'.samples
    BY <1>4, <1>5, <1>6, <2>2, Zenon
  <2>4. object'.samples < Batch /\ object'.decoder.accumulated < Extended
    BY <1>4, <1>10, Zenon
  <2> QED
    BY <1>11, <2>3, <2>4, Zenon DEF CountInv
<1>20. OrderInv'
  <2>1. Posted = toNode /\ Posted' = Posted /\ Unposted = <<>>
    BY <1>6, <1>8, <1>13, PostedResults DEF Posted, Unposted
  <2>2. shown \o toNode \in Seq(Results)
    BY <1>13, ConcatProperties
  <2>3. decoded = shown \o toNode
    BY <1>1, <2>1, <2>2, ConcatEmptySeq DEF OrderInv
  <2>4. CASE p.result = "Okay"
    <3>1. Unposted' = <<>> /\ decoded' = decoded
      BY <1>5, <1>11, <2>4 DEF Unposted
    <3> QED
      BY <1>1, <1>6, <2>1, <3>1, Zenon DEF OrderInv
  <2>5. CASE p.result # "Okay"
    <3>1. Unposted' = <<p.result>> /\ decoded' = Append(decoded, p.result)
      BY <1>5, <1>11, <2>5 DEF Unposted
    <3>2. Append(decoded, p.result) = decoded \o <<p.result>>
      BY <1>12, <1>13, <2>5, AppendIsConcat
    <3> QED
      BY <1>6, <2>1, <2>3, <3>1, <3>2, Zenon DEF OrderInv
  <2> QED
    BY <2>4, <2>5
<1>21. PayloadInv'
  <2>1. Announced(decoded) /\ (object.decoder.symbol < SymbolCount => Pending(decoded))
    BY <1>1 DEF PayloadInv
  <2>2. PICK d : d = decoded'
    OBVIOUS
  <2>3. Announced(d) /\ (p.w.decoder.symbol < SymbolCount => Pending(d))
    <3>1. CASE p.result = "Okay"
      BY <1>5, <1>10, <2>1, <2>2, <3>1, Zenon
    <3>2. CASE p.result # "Okay"
      <4>1. d = Append(decoded, p.result)
        BY <1>5, <2>2, <3>2
      <4>2. p.result \in Results /\ (p.result = "Done" => Pending(decoded))
        BY <1>10, <1>12, <2>1, <3>2
      <4>3. /\ Announced(d)
            /\ p.result = "Sync" \/ (Pending(decoded) /\ p.result # "Done") => Pending(d)
        BY <1>13, <2>1, <4>1, <4>2, PayloadAppend
      <4> QED
        BY <1>10, <2>1, <4>3
    <3> QED
      BY <3>1, <3>2
  <2>4. Announced(decoded') /\ (object'.decoder.symbol < SymbolCount => Pending(decoded'))
    BY <1>4, <2>2, <2>3, Zenon
  <2> QED
    BY <2>4 DEF PayloadInv, Announced, Pending
<1> QED
  BY <1>15, <1>16, <1>17, <1>18, <1>19, <1>20, <1>21 DEF IndInv

\* Return: the frame is gone, the result is in the port, and a processor that
\* has thrown is not called again.
LEMMA ReturnStep ==
  ASSUME IndInv, Return
  PROVE  IndInv'
<1>1. TypeOK /\ HandshakeInv /\ NullInv /\ CallInv /\ CountInv /\ OrderInv /\ PayloadInv
  BY DEF IndInv
<1>2. /\ call.at = "finally" /\ sp' = sp - 1 /\ call' = NoCall
      /\ UNCHANGED <<wasm, gen, view, heap, faults, object>>
      /\ processor' = IF call.thrown THEN "dead" ELSE processor
      /\ toNode' = IF ~call.thrown /\ call.result # "Okay"
                   THEN Append(toNode, call.result) ELSE toNode
      /\ UNCHANGED <<rxStarted, setup, wasmBytes, connected, live, shown, toProcessor,
                     decoder, init, decoded, quanta, fed, processed>>
  BY DEF Return, Finally, pageVars, historyVars
<1>3. decoder # "null" /\ call \in Calls
  BY <1>2, CallHasDecoder
<1>4. /\ NoCall \in Calls /\ NoCall.at = "none" /\ NoCall.result = "Okay"
      /\ NoCall.thrown = FALSE
  BY DEF NoCall, Calls, Statuses
<1>5. /\ processor = "running" /\ faults = {}
      /\ call.thrown => call.result = "Okay"
      /\ IF call.thrown /\ call.samples THEN sp = 2 /\ heap = {"samples"}
                                        ELSE sp = 1 /\ heap = {}
  BY <1>1, <1>2 DEF CallInv
<1>6. /\ init = "done" /\ wasm = "exports" /\ decoder = "WasmDecoder"
      /\ toProcessor = <<>> /\ setup = "ready" /\ connected
      /\ toNode \in Seq(Results)
  BY <1>1, <1>3 DEF HandshakeInv, TypeOK
<1>7. call.result # "Okay" => call.result \in Results /\ call.thrown = FALSE
  BY <1>3, <1>5 DEF Calls, Results
<1>8. toNode' \in Seq(Results)
  BY <1>2, <1>6, <1>7, AppendProperties
<1>9. /\ sp' \in 0 .. 2
      /\ \/ sp' = 0 /\ heap' = {}
         \/ sp' = 1 /\ heap' = {"samples"} /\ processor' = "dead"
  BY <1>2, <1>5
<1>10. TypeOK'
  <2>1. GlueTypeOK'
    BY <1>1, <1>2, <1>4, <1>9 DEF TypeOK, GlueTypeOK, Calls
  <2>2. toNode' \in Seq({"wasm-module-loaded"} \cup Results)
    BY <1>8
  <2>3. processor' \in {"none", "requested", "running", "dead"}
    BY <1>2, <1>5
  <2> QED
    BY <1>1, <1>2, <2>1, <2>2, <2>3 DEF TypeOK
<1>11. HandshakeInv'
  <2>1. processor' # "none"
    BY <1>2, <1>5
  <2> QED
    BY <1>1, <1>2, <1>6, <1>8, <2>1 DEF HandshakeInv
<1>12. NullInv'
  BY <1>2, <1>3 DEF NullInv
<1>13. CallInv'
  BY <1>2, <1>4, <1>5, <1>9 DEF CallInv
<1>14. CountInv'
  <2>1. call'.at = "none"
    BY <1>2, <1>4
  <2> QED
    BY <1>1, <1>2, <2>1 DEF CountInv
<1>15. OrderInv'
  <2>1. Posted = toNode
    BY <1>6, PostedResults
  <2>2. Posted' = toNode'
    <3>1. toNode' # <<>> => Head(toNode') \in Results
      BY <1>8
    <3>2. "wasm-module-loaded" \notin Results
      BY DEF Results, Statuses
    <3> QED
      BY <3>1, <3>2 DEF Posted
  <2>3. Unposted' = <<>>
    BY <1>2, <1>4 DEF Unposted
  <2>4. decoded = (shown \o toNode) \o Unposted /\ shown \in Seq(Results)
    BY <1>1, <2>1 DEF OrderInv, TypeOK
  <2>5. shown \o toNode' \in Seq(Results)
    BY <1>8, <2>4, ConcatProperties
  <2>6. decoded = shown \o toNode'
    <3>1. CASE call.result = "Okay"
      <4>1. Unposted = <<>> /\ toNode' = toNode
        BY <1>2, <3>1 DEF Unposted
      <4>2. shown \o toNode \in Seq(Results)
        BY <1>6, <2>4, ConcatProperties
      <4> QED
        BY <2>4, <4>1, <4>2, ConcatEmptySeq
    <3>2. CASE call.result # "Okay"
      <4>1. Unposted = <<call.result>> /\ toNode' = Append(toNode, call.result)
        BY <1>2, <1>7, <3>2 DEF Unposted
      <4>2. toNode' = toNode \o <<call.result>>
        BY <1>6, <1>7, <3>2, <4>1, AppendIsConcat
      <4>3. <<call.result>> \in Seq(Results)
        BY <1>7, <3>2
      <4>4. (shown \o toNode) \o <<call.result>> = shown \o (toNode \o <<call.result>>)
        BY <1>6, <2>4, <4>3, ConcatAssociative
      <4> QED
        BY <2>4, <4>1, <4>2, <4>4, Zenon
    <3> QED
      BY <3>1, <3>2
  <2>7. decoded' = (shown' \o toNode') \o <<>>
    BY <1>2, <2>5, <2>6, ConcatEmptySeq
  <2> QED
    BY <2>2, <2>3, <2>7, Zenon DEF OrderInv
<1>16. PayloadInv'
  BY <1>1, <1>2, Kept
<1> QED
  BY <1>10, <1>11, <1>12, <1>13, <1>14, <1>15, <1>16 DEF IndInv

-----------------------------------------------------------------------------
(* The theorems                                                            *)

\* Whatever the page, the worklet and the audio thread do next, the invariant
\* is kept.
LEMMA NextInd ==
  ASSUME IndInv, [Next]_vars
  PROVE  IndInv'
<1>1. CASE Page
  BY <1>1, SetupStep, ModuleAddedStep, NodeOnMessageStep DEF Page
<1>2. CASE Worklet
  BY <1>2, ConstructStep, CompilerStep, InstantiatedStep, OnInitDecoderStep,
     RenderStep, PassStep, RunModuleStep, RunHookStep, ReadStep, ReturnStep
  DEF Worklet, CallStep
<1>3. CASE UNCHANGED vars
  <2>1. /\ UNCHANGED <<rxStarted, setup, wasmBytes, connected, live, shown, toProcessor,
                       toNode, processor, decoder, init, decoded, quanta, fed, processed>>
        /\ UNCHANGED glueVars
    BY <1>3 DEF vars, pageVars, portVars, historyVars
  <2>2. TypeOK'
    <3>1. GlueTypeOK'
      BY <2>1, GlueKept DEF IndInv, TypeOK
    <3> QED
      BY <2>1, <3>1 DEF IndInv, TypeOK
  <2>3. UNCHANGED <<wasm, sp, heap, faults, object, call>>
    BY <2>1 DEF glueVars
  <2> QED
    BY <2>1, <2>2, <2>3, Kept DEF IndInv
<1> QED
  BY <1>1, <1>2, <1>3 DEF Next, Stopped

\* The invariant of the receiver: in every reachable state the handshake, the
\* call, the counts, the results and the payload are as the parts say.
THEOREM Inductive == Spec => []IndInv
<1>1. IndInv /\ [Next]_vars => IndInv'
  BY NextInd
<1> QED
  BY <1>1, InitInd, PTL DEF Spec

\* The types of decoder-processor.js's state and of the glue's.
THEOREM TypeOKHolds == Spec => []TypeOK
<1>1. IndInv => TypeOK
  BY DEF IndInv
<1> QED
  BY <1>1, Inductive, PTL

\* WasmDecoder.new() is never called before the module has exports, and no
\* quantum is processed before the source is connected.
THEOREM DecoderReadyHolds == Spec => []DecoderReady
<1>1. IndInv => DecoderReady
  <2> SUFFICES ASSUME IndInv PROVE DecoderReady
    OBVIOUS
  <2>1. HandshakeInv /\ TypeOK
    BY DEF IndInv
  <2>2. decoder # "null" => wasm = "exports" /\ connected
    BY <2>1 DEF HandshakeInv, TypeOK
  <2>3. ASSUME NEW n \in 1 .. Len(toProcessor), toProcessor[n] = "init-decoder"
        PROVE  wasm = "exports"
    <3>1. toProcessor # <<>>
      BY <2>3
    <3>2. toProcessor # <<"send-wasm-module">>
      BY <2>3
    <3> QED
      BY <2>1, <3>1, <3>2 DEF HandshakeInv, TypeOK
  <2> QED
    BY <2>2, <2>3 DEF DecoderReady
<1> QED
  BY <1>1, Inductive, PTL

\* No detached view is used and nothing is freed twice, however the memory
\* grows.
THEOREM NoFaultsHolds == Spec => []NoFaults
<1>1. IndInv => NoFaults
  BY DEF IndInv, CallInv, NoFaults
<1> QED
  BY <1>1, Inductive, PTL

\* A call leaves neither a frame nor a block behind, unless the module has
\* trapped, and then no call follows.
THEOREM CallBalancedHolds == Spec => []CallBalanced
<1>1. IndInv => CallBalanced
  BY DEF IndInv, CallInv, CallBalanced, Idle
<1> QED
  BY <1>1, Inductive, PTL

\* The list on the page and the port hold what the module has returned, in
\* order and once.
THEOREM ResultsInOrderHolds == Spec => []ResultsInOrder
<1>1. IndInv => ResultsInOrder
  BY DEF IndInv, OrderInv, Unposted, ResultsInOrder
<1> QED
  BY <1>1, Inductive, PTL

\* The list on the page is the beginning of what the module has returned.
LEMMA ShownFirst ==
  ASSUME IndInv
  PROVE  /\ Len(shown) \in Nat /\ Len(decoded) \in Nat /\ Len(shown) <= Len(decoded)
         /\ \A i \in 1 .. Len(shown) : decoded[i] = shown[i]
<1>1. TypeOK /\ HandshakeInv /\ NullInv /\ OrderInv
  BY DEF IndInv
<1>2. CASE decoder = "null"
  <2>1. shown = <<>> /\ decoded = <<>>
    BY <1>1, <1>2 DEF NullInv
  <2> QED
    BY <2>1
<1>3. CASE decoder # "null"
  <2>1. toNode \in Seq(Results) /\ shown \in Seq(Results)
    BY <1>1, <1>3 DEF HandshakeInv, TypeOK
  <2>2. Posted = toNode
    BY <2>1, PostedResults
  <2>3. Unposted \in Seq(Results)
    <3>1. call.result # "Okay" => call.result \in Results
      BY <1>1 DEF TypeOK, GlueTypeOK, Results
    <3>2. CASE call.result = "Okay"
      BY <3>2 DEF Unposted
    <3>3. CASE call.result # "Okay"
      <4>1. Unposted = <<call.result>>
        BY <3>3 DEF Unposted
      <4> QED
        BY <3>1, <3>3, <4>1
    <3> QED
      BY <3>2, <3>3
  <2>4. PICK rest \in Seq(Results) : rest = toNode \o Unposted
    BY <2>1, <2>3, ConcatProperties
  <2>5. decoded = shown \o rest
    <3>1. (shown \o toNode) \o Unposted = shown \o (toNode \o Unposted)
      BY <2>1, <2>3, ConcatAssociative
    <3> QED
      BY <1>1, <2>2, <2>4, <3>1, Zenon DEF OrderInv
  <2>6. /\ Len(decoded) = Len(shown) + Len(rest)
        /\ \A i \in 1 .. Len(shown) + Len(rest) :
             decoded[i] = IF i <= Len(shown) THEN shown[i] ELSE rest[i - Len(shown)]
    BY <2>1, <2>5, ConcatProperties
  <2>7. Len(shown) \in Nat /\ Len(rest) \in Nat
    BY <2>1, LenProperties
  <2>8. \A i \in 1 .. Len(shown) : i \in 1 .. Len(shown) + Len(rest) /\ i <= Len(shown)
    BY <2>7, SMT
  <2>9. Len(shown) + Len(rest) \in Nat /\ Len(shown) <= Len(shown) + Len(rest)
    BY <2>7, SMT
  <2> QED
    BY <2>6, <2>7, <2>8, <2>9
<1> QED
  BY <1>2, <1>3

\* Every "Done" on the page comes behind the "Sync" of the same payload.
THEOREM DoneAfterSyncHolds == Spec => []DoneAfterSync
<1>1. IndInv => DoneAfterSync
  <2> SUFFICES ASSUME IndInv, NEW n \in 1 .. Len(shown), shown[n] = "Done"
               PROVE  \E m \in 1 .. n - 1 :
                        /\ shown[m] = "Sync"
                        /\ \A k \in m .. n - 1 : shown[k] # "Done"
    BY DEF DoneAfterSync
  <2>1. /\ Len(shown) \in Nat /\ Len(decoded) \in Nat /\ Len(shown) <= Len(decoded)
        /\ \A i \in 1 .. Len(shown) : decoded[i] = shown[i]
    BY ShownFirst
  <2>2. Announced(decoded)
    BY DEF IndInv, PayloadInv
  <2>3. n \in 1 .. Len(decoded) /\ decoded[n] = "Done"
    BY <2>1
  <2>4. PICK m \in 1 .. n - 1 :
          decoded[m] = "Sync" /\ \A k \in m .. n - 1 : decoded[k] # "Done"
    BY <2>2, <2>3 DEF Announced
  <2>5. m \in 1 .. Len(shown) /\ \A k \in m .. n - 1 : k \in 1 .. Len(shown)
    BY <2>1, SMT
  <2> QED
    BY <2>1, <2>4, <2>5
<1> QED
  BY <1>1, Inductive, PTL

\* The quotient by e of p times e and less than e more.
LEMMA Quotient ==
  ASSUME NEW p \in Nat, NEW a \in Nat, NEW e \in Nat \ {0}, a < e
  PROVE  (p * e + a) \div e = p
<1>1. PICK x \in Nat : x = p * e + a
  BY SMT
<1>2. /\ x \div e \in Nat /\ x % e \in 0 .. e - 1
      /\ x = e * (x \div e) + (x % e)
  BY SMT
<1>3. PICK q \in Nat : q = x \div e
  BY <1>2
<1>4. PICK r \in 0 .. e - 1 : r = x % e
  BY <1>2
<1>5. p * e + a = e * q + r
  BY <1>1, <1>2, <1>3, <1>4, Zenon
<1>6. CASE p < q
  <2>1. PICK d \in Nat : q = p + 1 + d
    <3>1. q - p - 1 \in Nat /\ q = p + 1 + (q - p - 1)
      BY <1>6, SMT
    <3> QED
      BY <3>1
  <2>2. e * q = p * e + e + d * e /\ d * e \in Nat /\ p * e \in Nat
    BY <2>1, SMT
  <2> QED
    BY <1>5, <2>2, SMT
<1>7. CASE q < p
  <2>1. PICK d \in Nat : p = q + 1 + d
    <3>1. p - q - 1 \in Nat /\ p = q + 1 + (p - q - 1)
      BY <1>7, SMT
    <3> QED
      BY <3>1
  <2>2. p * e = e * q + e + d * e /\ d * e \in Nat /\ e * q \in Nat
    BY <2>1, SMT
  <2> QED
    BY <1>5, <2>2, SMT
<1>8. CASE p = q
  BY <1>1, <1>3, <1>8
<1>9. p < q \/ q < p \/ p = q
  BY SMT
<1> QED
  BY <1>6, <1>7, <1>8, <1>9, Zenon

\* One call of Decoder.process() for every symbol's worth of samples.
THEOREM OncePerSymbolHolds == Spec => []OncePerSymbol
<1>1. IndInv => OncePerSymbol
  <2> SUFFICES ASSUME IndInv PROVE OncePerSymbol
    OBVIOUS
  <2>1. TypeOK /\ CountInv
    BY DEF IndInv
  <2>2. /\ fed = processed * Extended + object.decoder.accumulated
        /\ object.decoder.accumulated < Extended
        /\ quanta * Quantum = fed + object.samples
    BY <2>1 DEF CountInv
  <2>3. /\ processed \in Nat /\ object.decoder.accumulated \in Nat
        /\ Extended \in Nat \ {0}
    BY <2>1, DecoderAssumption DEF TypeOK, GlueTypeOK, Decoders
  <2>4. (processed * Extended + object.decoder.accumulated) \div Extended = processed
    BY <2>2, <2>3, Quotient
  <2>5. processed = fed \div Extended
    BY <2>2, <2>4, Zenon
  <2> QED
    BY <2>2, <2>5, Zenon DEF OncePerSymbol
<1> QED
  BY <1>1, Inductive, PTL

=============================================================================
