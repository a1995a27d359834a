------------------------- MODULE RattlegramReceiver -------------------------
(***************************************************************************)
(* The receiver of examples/rattlegram in the browser.  Two event loops    *)
(* talk through a MessagePort, which keeps the order of messages:          *)
(*                                                                         *)
(*  - the page: the "Start RX" button and the list of messages             *)
(*    (src/wasm.rs), setupAudio() (assets/setup-decoder.js), and           *)
(*    DecoderNode (assets/decoder-node.js);                                *)
(*  - the audio worklet: DecoderProcessor (assets/decoder-processor.js),   *)
(*    which runs the WebAssembly module through WasmGlue.                  *)
(*                                                                         *)
(* An event handler, or the part of an async function between two awaits,  *)
(* is one action; a call of process() is several, but nothing else happens *)
(* in the worklet until it has returned.  A message shown on the page is   *)
(* the decoder's status it was made from.                                  *)
(***************************************************************************)
EXTENDS WasmGlue, Sequences

CONSTANT MaxQuanta      \* render quanta processed

ASSUME QuantaAssumption == MaxQuanta \in Nat

VARIABLES
  rxStarted,    \* the page: "Start RX" was clicked
  setup,        \* where setupAudio() is
  wasmBytes,    \* what the server has sent for wasm-decoder_bg.wasm
  live,         \* the microphone's track delivers samples
  connected,    \* the source is connected with the node
  shown,        \* the list of messages on the page
  toProcessor,  \* the node's messages to the processor
  toNode,       \* and back
  processor,    \* the DecoderProcessor
  decoder,      \* its decoder
  init,         \* where its __wbg_init() is
  decoded,      \* history: the messages the module has returned
  quanta,       \* history: quanta given to the module
  fed,          \* history: samples given to Decoder.feed()
  processed     \* history: calls of Decoder.process()

pageVars == <<rxStarted, setup, wasmBytes, connected>>
portVars == <<toProcessor, toNode>>
historyVars == <<decoded, quanta, fed, processed>>
vars == <<pageVars, live, shown, portVars, processor, decoder, init,
          historyVars, glueVars>>

Results == Statuses \ {"Okay"}

TypeOK ==
  /\ GlueTypeOK
  /\ rxStarted \in BOOLEAN
  /\ setup \in {"idle", "getUserMedia", "fetch", "arrayBuffer", "addModule",
                "ready", "failed"}
  /\ wasmBytes \in {"none", "module", "other"}
  /\ live \in BOOLEAN
  /\ connected \in BOOLEAN
  /\ shown \in Seq(Results)
  /\ toProcessor \in Seq({"send-wasm-module", "init-decoder"})
  /\ toNode \in Seq({"wasm-module-loaded"} \cup Results)
  /\ processor \in {"none", "requested", "running", "dead"}
  /\ decoder \in {"null", "WasmDecoder"}
  /\ init \in {"idle", "compile", "instantiate", "done", "failed"}
  /\ decoded \in Seq(Results)
  /\ quanta \in 0 .. MaxQuanta
  /\ fed \in Nat
  /\ processed \in Nat

Init ==
  /\ GlueInit
  /\ rxStarted = FALSE
  /\ setup = "idle"
  /\ wasmBytes = "none"
  /\ live = FALSE
  /\ connected = FALSE
  /\ shown = <<>>
  /\ toProcessor = <<>>
  /\ toNode = <<>>
  /\ processor = "none"
  /\ decoder = "null"
  /\ init = "idle"
  /\ decoded = <<>>
  /\ quanta = 0
  /\ fed = 0
  /\ processed = 0

-----------------------------------------------------------------------------
(* The page: wasm.rs and setup-decoder.js                                  *)

\* The click on "Start RX" starts the only attempt there will be.
Click ==
  /\ ~rxStarted
  /\ rxStarted' = TRUE
  /\ setup' = "getUserMedia"
  /\ UNCHANGED <<wasmBytes, connected, live, shown, portVars, processor,
                 decoder, init, historyVars, glueVars>>

\* getWebAudioMediaStream(): the user grants a microphone.  The context is
\* created and the source in it, which may throw; then the module is fetched.
MediaGranted ==
  /\ setup = "getUserMedia"
  /\ live' = TRUE
  /\ setup' \in {"fetch", "failed"}
  /\ UNCHANGED <<rxStarted, wasmBytes, connected, shown, portVars, processor,
                 decoder, init, historyVars, glueVars>>

\* No support, no permission, no device or another error: each is thrown on
\* and setupAudio() is rejected.
MediaFailed ==
  /\ setup = "getUserMedia"
  /\ setup' = "failed"
  /\ UNCHANGED <<rxStarted, wasmBytes, connected, live, shown, portVars,
                 processor, decoder, init, historyVars, glueVars>>

\* fetch() resolves with any answer, also with an error page: the status of
\* the response is not looked at.
Fetched ==
  /\ setup = "fetch"
  /\ wasmBytes' \in {"module", "other"}
  /\ setup' = "arrayBuffer"
  /\ UNCHANGED <<rxStarted, connected, live, shown, portVars, processor,
                 decoder, init, historyVars, glueVars>>

BodyRead ==
  /\ setup = "arrayBuffer"
  /\ setup' = "addModule"
  /\ UNCHANGED <<rxStarted, wasmBytes, connected, live, shown, portVars,
                 processor, decoder, init, historyVars, glueVars>>

\* DecoderNode.init(): the bytes go to the processor, whose answers are awaited.
NodeInit == toProcessor' = Append(toProcessor, "send-wasm-module")

\* Mutant: init() does not wait for the module to be loaded.
ModuleAddedEager ==
  /\ setup = "addModule"
  /\ processor' = "requested"
  /\ toProcessor' = toProcessor \o <<"send-wasm-module", "init-decoder">>
  /\ connected' = TRUE
  /\ setup' = "ready"
  /\ UNCHANGED <<rxStarted, wasmBytes, live, shown, toNode, decoder, init,
                 historyVars, glueVars>>

\* The worklet's script is loaded: the node is created, which requests a
\* processor, init() sends the bytes, and the source is connected.
ModuleAdded ==
  /\ setup = "addModule"
  /\ processor' = "requested"
  /\ NodeInit
  /\ connected' = TRUE
  /\ setup' = "ready"
  /\ UNCHANGED <<rxStarted, wasmBytes, live, shown, toNode, decoder, init,
                 historyVars, glueVars>>

\* An await in the try block is rejected.
SetupFailed ==
  /\ setup \in {"fetch", "arrayBuffer", "addModule"}
  /\ setup' = "failed"
  /\ UNCHANGED <<rxStarted, wasmBytes, connected, live, shown, portVars,
                 processor, decoder, init, historyVars, glueVars>>

\* The track is muted or ends, or goes on; a source whose track is not live
\* has no channels.
ToggleTrack ==
  /\ setup \notin {"idle", "getUserMedia"}
  /\ live' = ~live
  /\ UNCHANGED <<pageVars, shown, portVars, processor, decoder, init,
                 historyVars, glueVars>>

\* Mutant: the node does not answer the handshake.
NodeOnMessageNoAnswer ==
  /\ toNode # <<>>
  /\ toNode' = Tail(toNode)
  /\ IF Head(toNode) = "wasm-module-loaded"
     THEN UNCHANGED <<toProcessor, shown>>
     ELSE /\ shown' = Append(shown, Head(toNode))
          /\ UNCHANGED toProcessor
  /\ UNCHANGED <<pageVars, live, processor, decoder, init, historyVars,
                 glueVars>>

\* Mutant: the node listens for the handshake only.
NodeOnMessageOnce ==
  /\ toNode # <<>>
  /\ Head(toNode) = "wasm-module-loaded"
  /\ toNode' = Tail(toNode)
  /\ toProcessor' = Append(toProcessor, "init-decoder")
  /\ UNCHANGED <<pageVars, live, shown, processor, decoder, init, historyVars,
                 glueVars>>

\* DecoderNode.onmessage(): asks for the decoder, or gives a result to the
\* MessageSetter, which appends it to the list.
NodeOnMessage ==
  /\ toNode # <<>>
  /\ toNode' = Tail(toNode)
  /\ IF Head(toNode) = "wasm-module-loaded"
     THEN /\ toProcessor' = Append(toProcessor, "init-decoder")
          /\ UNCHANGED shown
     ELSE /\ shown' = Append(shown, Head(toNode))
          /\ UNCHANGED toProcessor
  /\ UNCHANGED <<pageVars, live, processor, decoder, init, historyVars,
                 glueVars>>

-----------------------------------------------------------------------------
(* The worklet: decoder-processor.js                                       *)

Construct ==
  /\ processor = "requested"
  /\ processor' = "running"
  /\ UNCHANGED <<pageVars, live, shown, portVars, decoder, init, historyVars,
                 glueVars>>

\* DecoderProcessor.onmessage(): the bytes go to __wbg_init(), which waits
\* for the compiler.  (The message comes once, when there is no instance.)
OnSendWasmModule ==
  /\ Idle
  /\ processor = "running"
  /\ toProcessor # <<>>
  /\ Head(toProcessor) = "send-wasm-module"
  /\ toProcessor' = Tail(toProcessor)
  /\ wasm = "undefined"
  /\ init' = "compile"
  /\ UNCHANGED <<pageVars, live, shown, toNode, processor, decoder,
                 historyVars, glueVars>>

\* The promise of WebAssembly.compile() is resolved, if the bytes are a
\* module; a rejection of init() is handled by nobody.
Compiled ==
  /\ Idle
  /\ init = "compile"
  /\ init' \in {"instantiate", "failed"}
  /\ wasmBytes # "module" => init' = "failed"
  /\ UNCHANGED <<pageVars, live, shown, portVars, processor, decoder,
                 historyVars, glueVars>>

\* __wbg_load() has instantiated the module; then the page is told.
Instantiated ==
  /\ Idle
  /\ init = "instantiate"
  /\ FinalizeInit
  /\ init' = "done"
  /\ toNode' = Append(toNode, "wasm-module-loaded")
  /\ UNCHANGED <<pageVars, live, shown, toProcessor, processor, decoder,
                 historyVars>>

InstantiateFailed ==
  /\ Idle
  /\ init = "instantiate"
  /\ init' = "failed"
  /\ UNCHANGED <<pageVars, live, shown, portVars, processor, decoder,
                 historyVars, glueVars>>

\* WasmDecoder.new(); without exports it would throw, and the decoder would
\* stay null.
OnInitDecoder ==
  /\ Idle
  /\ processor = "running"
  /\ toProcessor # <<>>
  /\ Head(toProcessor) = "init-decoder"
  /\ toProcessor' = Tail(toProcessor)
  /\ IF wasm = "exports"
     THEN New /\ decoder' = "WasmDecoder"
     ELSE UNCHANGED <<glueVars, decoder>>
  /\ UNCHANGED <<pageVars, live, shown, toNode, processor, init, historyVars>>

\* process() of a render quantum.  Without a decoder it returns at once and
\* changes nothing; a source without channels gives undefined for samples.
Render ==
  /\ processor = "running"
  /\ decoder # "null"
  /\ quanta < MaxQuanta
  /\ ProcessEnter(connected /\ live)
  /\ UNCHANGED <<pageVars, live, shown, portVars, processor, decoder, init,
                 historyVars>>

Pass ==
  /\ PassNothing \/ PassArrayF32ToWasm0
  /\ UNCHANGED <<pageVars, live, shown, portVars, processor, decoder, init,
                 historyVars>>

\* The call of the module, and what it amounts to.
RunModule ==
  /\ \E found \in BOOLEAN, preamble \in Preambles :
       LET p == WasmDecoderProcess(object, found, preamble)
       IN /\ WasmProcess(found, preamble)
          /\ fed' = fed + p.fed
          /\ processed' = processed + (IF p.processed THEN 1 ELSE 0)
          /\ decoded' = IF p.result = "Okay" THEN decoded
                        ELSE Append(decoded, p.result)
  /\ quanta' = quanta + 1
  /\ UNCHANGED <<pageVars, live, shown, portVars, processor, decoder, init>>

RunHook ==
  /\ Panic \/ ImportStack \/ ImportError
  /\ UNCHANGED <<pageVars, live, shown, portVars, processor, decoder, init,
                 historyVars>>

Read ==
  /\ ReadResult
  /\ UNCHANGED <<pageVars, live, shown, portVars, processor, decoder, init,
                 historyVars>>

\* Mutant: a result is posted only if the port is empty.
ReturnIfEmpty ==
  /\ Finally
  /\ processor' = IF call.thrown THEN "dead" ELSE processor
  /\ toNode' = IF ~call.thrown /\ call.result # "Okay" /\ toNode = <<>>
               THEN Append(toNode, call.result) ELSE toNode
  /\ UNCHANGED <<pageVars, live, shown, toProcessor, decoder, init,
                 historyVars>>

\* process() posts its result, if there is one.  The browser does not call a
\* processor again that has thrown.
Return ==
  /\ Finally
  /\ processor' = IF call.thrown THEN "dead" ELSE processor
  /\ toNode' = IF ~call.thrown /\ call.result # "Okay"
               THEN Append(toNode, call.result) ELSE toNode
  /\ UNCHANGED <<pageVars, live, shown, toProcessor, decoder, init,
                 historyVars>>

-----------------------------------------------------------------------------

\* Nothing is left to do: not an action of the code.
Stopped == setup = "failed" /\ UNCHANGED vars

Page == Click \/ MediaGranted \/ MediaFailed \/ Fetched \/ BodyRead
          \/ ModuleAdded \/ SetupFailed \/ ToggleTrack \/ NodeOnMessage

CallStep == Pass \/ RunModule \/ RunHook \/ Read \/ Return

Worklet == Construct \/ OnSendWasmModule \/ Compiled \/ Instantiated
             \/ InstantiateFailed \/ OnInitDecoder \/ Render \/ CallStep

Next == Page \/ Worklet \/ Stopped

\* The two event loops deliver their messages and finish what they began, the
\* compiler answers.  The user, the server and the audio device need not.
Fairness ==
  /\ WF_vars(NodeOnMessage)
  /\ WF_vars(Construct)
  /\ WF_vars(OnSendWasmModule \/ OnInitDecoder)
  /\ WF_vars(Compiled)
  /\ WF_vars(Instantiated \/ InstantiateFailed)
  /\ WF_vars(CallStep)

Spec == Init /\ [][Next]_vars /\ Fairness

-----------------------------------------------------------------------------

\* The handshake: the request for a decoder is under way only once the
\* module has exports (WasmDecoder.new(), wasm-decoder.js:172, needs them), and a
\* decoder exists only behind a connected source, so that process() is not
\* called without samples (decoder-processor.js:31) before the first quantum.
DecoderReady ==
  /\ (\E n \in 1 .. Len(toProcessor) : toProcessor[n] = "init-decoder")
       => wasm = "exports"
  /\ decoder # "null" => wasm = "exports" /\ connected

\* However often the memory grows, within a call or between two, no sample,
\* result or stack trace goes through a detached view, and nothing is freed
\* that is not allocated (wasm-decoder.js:9-14, 79-84, 95-100, 188, 247).
NoFaults == faults = {}

\* Between two calls of process() the module's stack pointer is where it was
\* and every block made for the call is freed, also if the call has thrown
\* for want of samples (wasm-decoder.js:188-192).  Only a trap leaves the
\* module's own frame and the samples, and then there is no further call.
CallBalanced ==
  Idle => \/ sp = 0 /\ heap = {}
          \/ sp = 1 /\ heap = {"samples"} /\ processor = "dead"

\* The results in the port.  The handshake's message is in front of them or
\* not in the port at all.
Posted ==
  IF toNode # <<>> /\ Head(toNode) = "wasm-module-loaded"
  THEN Tail(toNode) ELSE toNode

\* The results on the page, those in the port and the one about to be posted
\* are what the module has returned, in its order: none is lost or shown
\* twice, although the port also carries the handshake.
ResultsInOrder ==
  decoded = (shown \o Posted)
              \o (IF call.result = "Okay" THEN <<>> ELSE <<call.result>>)

\* The page announces a payload ("Done") only after the preamble of that very
\* payload ("Sync"), whatever preambles are found in between: process() counts
\* symbols from the last Sync (decoder.rs:1111-1145).
DoneAfterSync ==
  \A n \in 1 .. Len(shown) : shown[n] = "Done" =>
    \E m \in 1 .. n - 1 :
      /\ shown[m] = "Sync"
      /\ \A k \in m .. n - 1 : shown[k] # "Done"

\* Decoder.process() is called exactly once for every symbol's worth of
\* samples, although a symbol is no multiple of the batch (decoder.rs:1094)
\* nor the batch of the quantum: no symbol is skipped or seen twice.
OncePerSymbol ==
  /\ processed = fed \div Extended
  /\ quanta * Quantum = fed + object.samples

\* Once setupAudio() has returned, the processor gets its decoder, unless the
\* module could not be compiled or instantiated.
DecoderStarts ==
  setup = "ready" ~> (decoder # "null" \/ init = "failed")

\* Every message the decoder has returned reaches the list on the page, also
\* if the processor has died in the meantime.
EverythingShown ==
  \A n \in 1 .. (MaxQuanta * Quantum) \div Extended :
    Len(decoded) >= n ~> Len(shown) >= n
=============================================================================
