------------------------------ MODULE WasmGlue ------------------------------
(***************************************************************************)
(* The glue between the worklet's JavaScript and its WebAssembly module    *)
(* (examples/rattlegram/worklet/wasm-decoder.js).                          *)
(*                                                                         *)
(* JavaScript sees the module's memory through typed arrays, which it      *)
(* keeps.  When the module makes its memory larger, which any call that    *)
(* allocates may do, the arrays made before are detached: reads and writes *)
(* through them are lost.  A generation of the memory is a number, a view  *)
(* is the generation it was made of.  Stack frames and allocations are     *)
(* counted and named by what they are for.                                 *)
(***************************************************************************)
EXTENDS Integers, RattlegramDecoder

CONSTANT MaxGrowth      \* how often the memory grows

ASSUME GrowthAssumption == MaxGrowth \in Nat

VARIABLES
  wasm,     \* "undefined", or the "exports" of the instance
  gen,      \* generation of the memory
  view,     \* the cached views, by element type
  sp,       \* frames on the module's stack
  heap,     \* live allocations made for the call that runs
  faults,   \* what must never happen
  object,   \* the WasmDecoder in the module's memory
  call      \* the call of WasmDecoder.process() that runs

glueVars == <<wasm, gen, view, sp, heap, faults, object, call>>

NoView == -1
Views == {"u8", "f32", "i32"}

NoCall == [at |-> "none", samples |-> FALSE, result |-> "Okay",
           thrown |-> FALSE]

GlueTypeOK ==
  /\ wasm \in {"undefined", "exports"}
  /\ gen \in 0 .. MaxGrowth
  /\ view \in [Views -> NoView .. MaxGrowth]
  /\ sp \in 0 .. 2
  /\ heap \subseteq {"samples", "result", "message", "stack"}
  /\ faults \subseteq {"detached view", "not allocated"}
  /\ object \in [samples : 0 .. Batch, decoder : Decoders]
  /\ call \in [at : {"none", "pass", "call", "panic", "hook", "read", "finally"},
               samples : BOOLEAN, result : Statuses, thrown : BOOLEAN]

GlueInit ==
  /\ wasm = "undefined"
  /\ gen = 0
  /\ view = [v \in Views |-> NoView]
  /\ sp = 0
  /\ heap = {}
  /\ faults = {}
  /\ object = NewWasmDecoder
  /\ call = NoCall

Idle == call.at = "none"

\* The generations a call that allocates may leave behind.
Grown(g) == {g} \cup {h \in {g + 1} : h <= MaxGrowth}

\* Freeing a block that is not allocated.
Free(block) == {f \in {"not allocated"} : block \notin heap}

\* An access, through a view that was made of generation v, of memory g.
Access(v, g) == {f \in {"detached view"} : v # g}

-----------------------------------------------------------------------------
(* The cached views.  A detached array has byteLength 0.                   *)

\* Mutant: a cached view is returned whatever has become of it.
RefreshNever(v, g) == IF v = NoView THEN g ELSE v

Refresh(v, g) == IF v = NoView \/ v # g THEN g ELSE v

GetUint8Memory0(g) == Refresh(view["u8"], g)

GetFloat32Memory0(g) == Refresh(view["f32"], g)

GetInt32Memory0(g) == Refresh(view["i32"], g)

\* getCachedStringFromWasm0(): the byte view after it.  A string is read from
\* the memory; a null pointer is looked up in the table of references instead,
\* where entry 0 is undefined.
GetCachedStringFromWasm0(null, g) ==
  IF null THEN view["u8"] ELSE GetUint8Memory0(g)

-----------------------------------------------------------------------------
(* Initialization                                                          *)

\* __wbg_finalize_init(): the views of an earlier memory are forgotten.
FinalizeInit ==
  /\ wasm' = "exports"
  /\ view' = [v \in Views |-> NoView]
  /\ UNCHANGED <<gen, sp, heap, faults, object, call>>

\* WasmDecoder.new(): allocates the decoder.
New ==
  /\ object' = NewWasmDecoder
  /\ gen' \in Grown(gen)
  /\ UNCHANGED <<wasm, view, sp, heap, faults, call>>

-----------------------------------------------------------------------------
(* WasmDecoder.process()                                                   *)

\* A frame for the returned pointer and length.
ProcessEnter(samples) ==
  /\ Idle
  /\ sp' = sp + 1
  /\ call' = [NoCall EXCEPT !.at = "pass", !.samples = samples]
  /\ UNCHANGED <<wasm, gen, view, heap, faults, object>>

\* passArrayF32ToWasm0() of something that is not an array throws at once.
PassNothing ==
  /\ call.at = "pass"
  /\ ~call.samples
  /\ call' = [call EXCEPT !.at = "finally", !.thrown = TRUE]
  /\ UNCHANGED <<wasm, gen, view, sp, heap, faults, object>>

\* passArrayF32ToWasm0(): the samples are copied behind malloc().
PassArrayF32ToWasm0 ==
  /\ call.at = "pass"
  /\ call.samples
  /\ \E g \in Grown(gen) :
       /\ gen' = g
       /\ view' = [view EXCEPT !["f32"] = GetFloat32Memory0(g)]
       /\ faults' = faults \cup Access(GetFloat32Memory0(g), g)
  /\ heap' = heap \cup {"samples"}
  /\ call' = [call EXCEPT !.at = "call"]
  /\ UNCHANGED <<wasm, sp, object>>

\* The module runs and owns the samples.  It returns None as a null pointer,
\* or a string that JavaScript owns.
WasmProcess(found, preamble) ==
  LET p == WasmDecoderProcess(object, found, preamble)
  IN /\ call.at = "call"
     /\ object' = p.w
     /\ gen' \in Grown(gen)
     /\ heap' = (heap \ {"samples"})
                  \cup {b \in {"result"} : p.result # "Okay"}
     /\ call' = [call EXCEPT !.at = "read", !.result = p.result]
     /\ UNCHANGED <<wasm, view, sp, faults>>

\* The two words of the result are read, the string behind them, if there is
\* one, is decoded and given back.
ReadResult ==
  /\ call.at = "read"
  /\ view' = [view EXCEPT
                !["i32"] = GetInt32Memory0(gen),
                !["u8"] = GetCachedStringFromWasm0(call.result = "Okay", gen)]
  /\ IF call.result # "Okay"
     THEN /\ heap' = heap \ {"result"}
          /\ faults' = faults
               \cup Access(view'["i32"], gen) \cup Access(view'["u8"], gen)
               \cup Free("result")
     ELSE /\ faults' = faults \cup Access(view'["i32"], gen)
          /\ UNCHANGED heap
  /\ call' = [call EXCEPT !.at = "finally"]
  /\ UNCHANGED <<wasm, gen, sp, object>>

\* Mutant: an exception skips the stack pointer's reset.
FinallyOnReturn ==
  /\ call.at = "finally"
  /\ sp' = IF call.thrown THEN sp ELSE sp - 1
  /\ call' = NoCall
  /\ UNCHANGED <<wasm, gen, view, heap, faults, object>>

\* finally: the frame is taken off whether or not something was thrown.
Finally ==
  /\ call.at = "finally"
  /\ sp' = sp - 1
  /\ call' = NoCall
  /\ UNCHANGED <<wasm, gen, view, heap, faults, object>>

-----------------------------------------------------------------------------
(* A panic in the module (an unwrap() of what the model leaves out).  The  *)
(* panic hook appends the stack of a new Error to its message and prints   *)
(* it; then the module traps and leaves its frame and its allocations.     *)

Panic ==
  /\ call.at = "call"
  /\ object.samples + Quantum >= Batch
  /\ sp' = sp + 1
  /\ gen' \in Grown(gen)
  /\ heap' = heap \cup {"message"}
  /\ call' = [call EXCEPT !.at = "panic"]
  /\ UNCHANGED <<wasm, view, faults, object>>

\* Imported function `stack`: passStringToWasm0() allocates, and allocates
\* again if the string is not all ASCII; then pointer and length are written.
ImportStack ==
  /\ call.at = "panic"
  /\ \E g1 \in Grown(gen) : \E g2 \in Grown(g1) :
       LET u1 == GetUint8Memory0(g1)
           u2 == Refresh(u1, g2)
       IN /\ gen' = g2
          /\ view' = [view EXCEPT !["u8"] = u2, !["i32"] = GetInt32Memory0(g2)]
          /\ faults' = faults \cup Access(u1, g1) \cup Access(u2, g2)
                              \cup Access(GetInt32Memory0(g2), g2)
  /\ heap' = heap \cup {"stack"}
  /\ call' = [call EXCEPT !.at = "hook"]
  /\ UNCHANGED <<wasm, sp, object>>

\* Imported function `error`: the message was given to JavaScript, which
\* prints and frees it.  Then the trap unwinds to the caller of process().
ImportError ==
  /\ call.at = "hook"
  /\ \E g \in Grown(gen) :
       /\ gen' = g
       /\ view' = [view EXCEPT !["u8"] = GetCachedStringFromWasm0(FALSE, g)]
       /\ faults' = faults \cup Access(view'["u8"], g) \cup Free("message")
  /\ heap' = heap \ {"message", "stack"}
  /\ call' = [call EXCEPT !.at = "finally", !.thrown = TRUE]
  /\ UNCHANGED <<wasm, sp, object>>
=============================================================================
