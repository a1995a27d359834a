# A TLA+ model of FutureSDR

FutureSDR runs a *flowgraph*: blocks, each an async task with a kernel, connected
by streams of samples and by message ports.  This directory models the parts of it
that decide whether a flowgraph starts, moves samples, serves its users and ends,
checks them with TLC on small instances, and proves the safety of the stream buffer,
of the runtime and of the executor for all sizes with TLAPS.  It also models the one
application in the repository whose JavaScript is hand-written and carries logic of its
own, the rattlegram receiver, a modem for text messages over sound that runs in a
browser's audio thread; its safety is proved for all sizes too, and the conversion of strings on its way into
WebAssembly for all strings.
Paths below are relative to the repository.

## 1. The system

| Part | State | Operations | Talks to |
|---|---|---|---|
| `run_flowgraph` (`src/runtime/runtime.rs`) | counts of blocks to initialize and active, `block_error`, `terminated`, deferred messages, inbox | init phase, main loop, requests, termination | every block's inbox, handle users |
| block event loop (`src/runtime/block.rs`, `work_io.rs`, `kernel.rs`) | inbox, `WorkIo`, kernel, phase | init, drain inbox, `work()`, `block_on()`, deinit, report | `run_flowgraph`, neighbours |
| message ports (`message_io.rs`) | connected inboxes | `post`, `notify_finished` | downstream blocks |
| flowgraph handle (`flowgraph_handle.rs`) | inbox of `run_flowgraph` | call, callback, descriptions, terminate | `run_flowgraph` |
| generated port code (`crates/macros`) | - | validate, notify finished, dispatch of messages | block event loop |
| stream buffers (`buffer/slab.rs`, `circular.rs`, `circuit.rs`, accelerators) | queues of buffers or a ring, finished flags | slice, produce, consume, finish | both blocks' inboxes |
| `FlowScheduler` (`scheduler/flow.rs`) | local and global queues, sleepers | schedule, notify, search, sleep, wake | tasks, worker threads |
| other schedulers (`smol.rs`, `wasm.rs`) | - | hand tasks to another crate's executor | |
| flowgraph construction (`flowgraph.rs`) | blocks and edges | add, connect | blocks, buffers |
| `Runtime`, registry, control port (`runtime.rs`, `ctrl_port.rs`) | registered handles | start, REST requests | handles |
| blocks (`src/blocks`), `futuredsp`, `types`, `remote`, `prophecy` | per block | signal processing, I/O, data types, clients | |
| rattlegram: page (`examples/rattlegram/src/wasm.rs`, `assets/setup-decoder.js`, `decoder-node.js`) | button, list of messages, progress of the setup | ask for the microphone, fetch, create the node, show messages | processor, by `MessagePort` |
| rattlegram: processor (`assets/decoder-processor.js`) | its decoder, or `null` | load the module, create the decoder, `process()` of every render quantum | page, glue |
| rattlegram: glue (`worklet/wasm-decoder.js`) | cached views of the module's memory, exports | `__wbg_init`, `new`, `process`, imports of the panic hook | WebAssembly module |
| rattlegram: text codec (`assets/text-encoder.js`) | - | `encode`, `decode`: UTF-8 for audio worklets, which have none | glue |
| rattlegram: decoder (`src/wasm_decoder.rs`, `src/decoder.rs`) | batch of samples, accumulated samples, symbol number | `process`, `feed` | glue |

Nearly everything is connected by bounded channels, and that is what makes it hard:
a *send* may wait (`send().await`) or be dropped (`try_send`), tasks run in any
order on any thread, a block ends while its neighbours still talk to it, an error
may happen in any phase, and the user's requests and `terminate` come at any time.
What must hold:

* stream buffer: samples arrive once and in order; no wake-up is lost, although
  notifications are dropped when the inbox is full; the end of the stream is seen
  only behind the last sample; no buffer leaks;
* block loop and runtime: no block works before all are initialized; the active
  blocks are counted exactly; a finite flowgraph ends with `Ok`, one with an error
  ends with `Err`, a terminated one ends, and nothing is lost unless asked for;
  every request is answered;
* executor: no ready task waits for a worker nobody will wake; no block starves;
* rattlegram receiver: the handshake between the two event loops ends with a decoder,
  whatever order the answers come in; no access goes through a view of memory that has
  moved; stack and heap of the module are balanced after every call, failed ones
  included; every symbol is processed once, every message is shown once and in order;
* text codec: what is passed fits the block allocated for it and comes back unchanged, for
  each string JavaScript can hold, and is UTF-8 (which finding 6 restricts to strings
  without unpaired surrogates).

`PROJECT.json` lists each component with its status, and the hazards with the line
where they bite and the properties that watch them.

## 2. Modules

| Module | Models |
|---|---|
| `SampleStream` | what a stream buffer promises: an abstract first-in first-out stream with an end |
| `SlabBuffer` | `buffer/slab.rs`, writer and reader, with the two blocks around them |
| `MCSlabBuffer` | instances for TLC |
| `SlabBufferProofs` | theorems about `SlabBuffer` |
| `Mpsc` | the bounded channel of the `futures` crate (external) |
| `Kernels` | `work()` and message handlers of nine blocks, as numbers of items |
| `FlowgraphRuntime` | `run_flowgraph`, block tasks, handle users; composes `Mpsc` and `Kernels` |
| `MCFlowgraph` | the flowgraphs the runs use |
| `FlowgraphRuntimeProofs` | theorems about the end of a flowgraph: the count of active blocks, the result |
| `FlowgraphTypesProofs` | a theorem about the types: streams, addresses, counters |
| `FlowgraphStartProofs` | theorems about the start of a flowgraph |
| `FlowgraphDeliveryProofs` | theorems about what arrives: streams and messages are read to their end |
| `FlowExecutor` | the executor in `scheduler/flow.rs` |
| `BlockMapping` | `map_block()`, which gives every block of a flowgraph a worker |
| `FlowExecutorProofs` | theorems about both |
| `MCFlowExecutor` | instances for TLC; composes `FlowExecutor` and `BlockMapping` |
| `Utf8` | one step of the loops of `text-encoder.js` |
| `StringPassing` | `passStringToWasm0()` and `getStringFromWasm0()` with these loops; composes `Utf8`; UTF-8, and WTF-8 for surrogates without a partner, as references |
| `MCStringPassing` | the strings for TLC, and a second form of the reference |
| `StringPassingProofs` | theorems about `StringPassing` |
| `RattlegramDecoder` | the control of `WasmDecoder` and `Decoder`, as functions |
| `WasmGlue` | `wasm-decoder.js`: the module's memory, views, stack and heap around one call |
| `RattlegramReceiver` | page and worklet; composes `WasmGlue` and `RattlegramDecoder` |
| `RattlegramReceiverProofs` | theorems about it |

### SlabBuffer

Every critical section of the mutex in `slab.rs` is one action: `WriterSlice`,
`Produce`, `WriterFinish` with `WriterNotifyDone` (the two halves of
`notify_finished()`), `ReaderSlice` (which merges), `Consume`.  `ReaderDrain` and
`ReaderCheck` are what the reader's block loop and kernel do around them, and
`WriterTerminate` stops the writer early.  A sample *is its number in the stream*,
so a buffer is a function from offsets to numbers and the content of every slice can
be compared with what it should be; recycled buffers keep their old numbers.
An inbox is one bit, "a message is pending": a `try_send` that fails fails because
the inbox is full, and then a message is pending, too.  Tags carry their index and
the number of the sample they were attached to.  The kernels are free to produce
any amount that fits, none if their own input is empty, and the reader works through all complete units of `Need`
items, as `Fir::work` does.

### FlowgraphRuntime

A task's action reaches from one point where it may wait to the next: taking one
message, one call of `work()`, one push.  What a task is committed to send is its
outbox (`outbox[b]`, `mainout`); it does nothing else until the last message is
pushed and its sender unparked, which is what `send().await` means in `Mpsc`.
`Notify` between neighbours is a `TrySend` and may be dropped.  Actions map to the
code in the order of the code: `BlockStart` (port validation), `BlockSetup`,
`BlockReceive`, `BlockDrained`, `BlockTimer`, `BlockWork`, `BlockDeinit`, `BlockSend`;
`MainSend`, `MainInitSent`, `MainWaitInit`, `MainNotifyAll`, `MainRequeue`,
`MainStarted`, `MainLoop`, `MainAnswer`, `MainReturn`; `ClientAsk`, `ClientFlushed`.
The inbox of an ended block stays open and is not read: the block owns its receiver
and `fg.blocks` keeps the block.  The inbox of `run_flowgraph` closes when it returns,
and then pending requests get an error (`MainReturn`).
Streams are the circular buffer seen from outside: a number of items, a capacity, and
notifications; a block has at most one stream input and one stream output.
The flowgraph (kernels, connections, where a kernel fails, what `init()` posts,
`queue_size`, what users ask for) is the variable `fg`, chosen once in `Init`, so
that one run covers several flowgraphs.

### FlowExecutor

Each lock's critical section and each operation on the atomic `notified` is an
action.  `Schedule` followed by `NotifyFlag`, `NotifySleepers` and `WakeWorker`, or by
`NotifyExecutor` and `WakeWorker`, is how a task is woken, by a worker or by another
thread; `Search`, `Sleep`, `Unpark`, `Wake`, `Yield`, `Return` are the loop of a
worker.  That a task is in one queue at most, and is scheduled again when it was
woken while it ran, is the contract of the crate `async_task` and built into
`ThreadWake` and `Return`.  Which worker a block belongs to is the constant `Home`; in
`MCFlowExecutor` it is what `map_block()` says for several flowgraphs of one block,
which share the first worker because each flowgraph is mapped by itself.
`BlockMapping` has the loop of `map_block()` as the least element of a set.

### StringPassing

A string is a sequence of 16-bit code units, surrogates with or without a partner
included; memory is a sequence of bytes in which what nobody has written is `Junk`.
`Malloc`, `CopyAscii`, `GrowForRest`, `AsciiOnly` are the first half of
`passStringToWasm0()`; `Encode` is one iteration of the encoder's loop and
`EncodeString` the copy into the view with its `RangeError`; `GetString`, `Decode`,
`DecodeEnd` are the way back.  The shifts and masks of the code are written as
quotients and remainders.

### WasmGlue and RattlegramReceiver

Growing the memory detaches every view of it, so the model counts growths: a cached
view carries the generation it was made in, and an access through an old one, or a free
of something not allocated, is recorded in `faults`.  Each export that allocates may
grow the memory, up to `MaxGrowth` times.  A call of `process()` is entered
(`ProcessEnter`), passes its samples (`PassArrayF32ToWasm0`, or `PassNothing`, which
throws, when the source has no channels), runs the module (`WasmProcess`, or `Panic`
with the imports the panic hook calls), reads the result and frees it (`ReadResult`,
`Finally`).  `RattlegramReceiver` puts these steps into the processor's event loop and
adds the page: `Click`, the awaits of `setupAudio()` with their failures (`MediaGranted`,
`MediaFailed`, `Fetched`, `BodyRead`, `ModuleAdded`, `SetupFailed`), `ToggleTrack` for a
microphone that stops or goes on, `NodeOnMessage`; and the processor's side:
`Construct`, `OnSendWasmModule`, `Compiled`, `Instantiated`, `InstantiateFailed`,
`OnInitDecoder`, `Render`, `Return`.  What the samples contain (a preamble was found, it
is good, bad or not for us) is free.  `decoded`, `quanta`, `fed` and `processed` are
history variables.

## 3. Runs

| Run | Shows |
|---|---|
| `slab_merge` | order and integrity of samples through merges, conservation of buffers, no lost wake-up, refinement of `SampleStream`, everything arrives |
| `slab_small` | *violation*: with tiny buffers both blocks sleep for ever |
| `slab_tags` | *violation*: tags do not move with their samples |
| `flowgraph_ends` | finite flowgraphs start together, lose nothing and return `Ok`; a failure anywhere is counted exactly once and ends everything with `Err` |
| `flowgraph_handle` | users call, query and terminate in any order: requests are answered and `terminate` ends the flowgraph, except behind a question to an ended block |
| `flowgraph_head_full` | *violation*: a small queue and an ended block hang the flowgraph |
| `flowgraph_dead_query` | *violation*: a description of an ended block is never answered |
| `executor_mixed` | no lost wake-up, consistent sleepers, each ready block is run, and global tasks are if blocks come to rest |
| `executor_starved` | *violation*: an always-ready block starves a global task although a worker is parked |
| `strings_boundary` | the module receives the octets of every character, UTF-8 if all surrogates are paired, in a block that is large enough; the string comes back; both loops advance and stop at the end |
| `strings_surrogates` | *violation*: a surrogate without a partner is passed as octets that are not UTF-8 |
| `rattlegram_receiver` | handshake, views, stack and heap, symbols and messages of the receiver; a decoder is started and every message shown |

Bounds, and why they are enough:

* Slab: four buffers (as the code), length 4 with 2 reserved, `Need` 2, 9 samples:
  two items per hand-over means more hand-overs than buffers, so buffers are recycled
  with stale content, merges happen from every offset, and the last buffer is partial.
  The proofs below cover all other sizes.
* Flowgraphs of two to four blocks: source, middle and sink are the three roles in a
  shutdown.  A failure is put at every call of a kernel that can fail and that is reached
  (`deinit()` only in blocks that end), beside a block, or a stream, that nothing
  connects with the failing one and that does not end by itself: the error must end it.  `Items` and `Burst` exceed what a buffer or an inbox holds, so every
  sender parks.  `MaxCount` is above what a correct run can count, so an excess shows.
* `queue_size` is 1 to 3 where nothing ends early, which parks every sender; it is
  larger (4, 6, 8) where some block ends while others still send to it, because those
  flowgraphs really hang with a small queue: that is `flowgraph_head_full`.  The default is 8192, so the hang needs a configured small
  queue or a long-lived flowgraph with an ended block.
* Two users with two requests each on two message sinks, once with an inbox of one
  message, so that users park, and once with `Terminate` among the requests of both; and
  on an endless stream, whose blocks one user asks while the other terminates it.  Two users are what it takes for a
  request to arrive between another's push and its answer, and for a query to race
  `Terminate`; with two requests a user asks again after an answer, after a `Terminate`
  of its own, and after the end.
* Executor: two workers, since the races are between one that goes to sleep and one
  that schedules, plus a thread that is no worker; two blocks on one worker make the
  round robin visible.  `MappingFair`, which depends on no state, is an
  assumption TLC evaluates before the run, for up to nine blocks on up to five workers:
  fewer blocks than workers, equal numbers, multiples and every remainder.
* Strings: `MaxLength` 4 and ten units, the two sides of every limit between one, two
  and three bytes and of the high and low surrogates.  Four units are two pairs, a pair
  between two others, or a surrogate cut off at either end or next to a pair, behind an
  ASCII prefix of any length.  The proofs cover all other strings.
* Receiver: a batch of two quanta and a symbol of three, so that symbols end in the
  middle of a batch and at its end, as 1024 samples and `EXTENDED_LENGTH` do; payloads
  of two symbols, so that a preamble can interrupt one.  `MaxQuanta` 12 is four symbols:
  a complete payload and an interrupted one.  `MaxGrowth` 2: the memory grows twice
  within a call, or once in a call and once before it.

Fairness.  Weak fairness per task: an executor polls every task that was woken, a
timer fires, threads run.  `SlabBuffer` adds strong fairness for a `Produce` of at least
one item: the writer's own input, which is outside of the model, delivers again and
again; without it the stream has no end to reach.  No fairness on anything a user or a driver does: nobody
has to make a request, to terminate, or to wake a task.  In `FlowExecutor`, where this
is the question, fairness is only on the steps of threads.  In `RattlegramReceiver` the two event loops
deliver their messages and complete what they have begun, and the compiler answers; the
user, the server and the audio device do nothing they do not want to.  `slab_small` and
`slab_tags` are invariants and need none.

Deadlock is checked in the passing runs, a finished system stutters explicitly.  It
is off in the violation runs where a hang is the finding, and in `flowgraph_handle`, in
which the hang of `flowgraph_dead_query` happens, too: a `Terminate` ends the blocks
one after the other, and a callback or a description that `run_flowgraph` takes up
meanwhile may go to a block that has ended.  `TerminateEnds` and `RequestsServed` name
this state (`WaitsForEnded`) as the only one in which a user waits for ever.

## 4. Findings

Each is a run of kind *violation*, quoted in `PROJECT.json`.

1. `slab_small`: `consume(0)` does not ask to be called again, so a reader that needs
   more than one buffer's worth sleeps although another buffer is queued.
2. `slab_tags`: in a merge the samples move and the tag indices move by something else.
3. `flowgraph_head_full`: inboxes of ended blocks stay open, so sends that the code
   expects to fail succeed, and finally wait for ever.
4. `flowgraph_dead_query`: the main loop waits for ever for an ended block's answer;
   if `Terminate` is queued behind the request, the flowgraph never ends.
5. `executor_starved`: the notification of another ticker that the comment in
   `runnable_with()` announces is commented out.
6. `strings_surrogates`: the encoder that replaces `TextEncoder` encodes a surrogate without
   a partner as if it were a character, in three octets, which RFC 3629 excludes; the
   standard it names puts U+FFFD there.  The module gets a string that is not UTF-8.

Four limits have no run.  A message posted by an `init()` wakes a receiver
that has been initialized already, which then works while others are still in their setup
phase: `StartTogether` is about flowgraphs in which no `init()` posts.  Every `BlockError`
in the init phase counts as an initialization, also that of a block which has sent
`Initialized` before, was woken by such a message and then fails; `run_flowgraph` then
leaves the phase one block too early.  `AllInitialized` is about flowgraphs in which no
`init()` posts or no kernel fails behind its `init()`.  Both conditions were found by the
proofs, in which the first word of a block could not be counted once without them.
And `run_flowgraph` sends `Terminate` to its own bounded inbox from its own loop: with
an inbox of one message and two users it can wait for itself, so `ErrorEnds` is checked
with a queue that is large enough (8), and does not reach this case.  The last one is that a message sink with several
senders ends at the first `CallFinished` it gets, whoever sent it, and what the others
still post is lost; a call of a handler through the flowgraph handle adds to what it
counts.  The messages of `NothingLost` are therefore about flowgraphs in which each block
has one sender (`SingleFed`) and no user calls a handler (`Uncalled`); the streams need
neither condition.

## 5. Proofs

`SlabBufferProofs` proves, for all buffer sizes, reserves, units and stream lengths
(`SlabAssumption`: sizes are naturals, units are positive, and the reader's unit does
not exceed what it reserves by more than one item, which is what
`set_min_items()` is for):

* `TypeOKHolds`: every index stays inside its buffer;
* `ReaderSeesNextHolds`: every slice holds the next unread samples;
* `NothingLeftBehindHolds`: the reader stops only behind the last complete unit;
* `BuffersConservedHolds`: no buffer is lost or duplicated;
* `ReaderNotForgottenHolds`, `WriterNotForgottenHolds`, `NeverBothAsleepHolds`: no lost
  wake-up, on either side, *assuming*
  `LargeEnough`, that a full buffer holds a unit of the reader's kernel and an empty
  one a unit of the writer's.  `slab_small` shows that the assumption is needed, and
  that `connect()` does not establish it;
* `ImplementsStreamHolds`: the safety part of `SampleStream` is implemented, by a
  refinement mapping that takes the end of the writer for `closed`.

The argument.  `ReaderSeesNext` is not inductive: that a merged slice is right depends
on what the queued buffers hold and where they begin.  `IndInv` therefore follows the
stream from the reader to the writer: the samples consumed, what is left of the
reader's buffer, each full buffer in the queue in order, and the writer's current
buffer form one chain in which each part starts with the number after the last of the
part before (`ChainInv`), and each holds consecutive numbers from offset `Reserved`
on.  Popping a buffer from the head, merging it, appending to the tail, and filling
the writer's buffer each preserve the chain.  `StopInv` adds what is known when one
side has stopped.  Buffers are counted by a separate `CountInv`, and the wake-ups by
`SleepInv`, which says for each queue who has announced what is in it.  One lemma per
action proves that `IndInv` is kept; the temporal steps only combine them.

`StringPassingProofs` proves, for every set of strings of code units
(`StringsAssumption`, nothing else): `TypeOKHolds`, `ViewLargeEnoughHolds` (the copy into
the module never throws), `PassedIsWtf8Holds` (the module receives what the
table of RFC 3629 gives for the characters, which is UTF-8 if every surrogate has its partner),
`RoundTripHolds` (the string comes back unit by unit) and
`LoopsAdvanceHolds` (both loops advance and end at the end of their argument).

The argument.  `RoundTrip` speaks of the last state only.  `IndInv` has `TypeOK` and one
part for every place in the two functions.  What links the encoder with the decoder is
`Aligned`: there are a set of units at which a code point starts and, for each of them,
the place of its first byte, such that the bytes there are the code point's octets and
the next start follows at once.  Every iteration of `encode()` extends this map by one
start, the ASCII loop is the special case of one byte a unit, and the copy into memory
only moves it.  The decoder then walks along the same map: its index is always the place
of some start, what it has produced is the string up to there, and the lemma
`DecodesOctets` (the arithmetic of one code point, in its four lengths) takes it to the
next.  The map is existentially quantified, so no induction over strings is needed.

`PassedIsWtf8` compares with a reference that does not mention the loops: a character
starts everywhere but in the middle of a pair (`Starts`), its octets are a row of the table
(`Wtf8Of`), and their place is the number of octets of the characters before it, which is
the cardinality of a set (`OctetsBefore`) and no recursion.  `MCStringPassing` puts the same
bytes together by flattening, and TLC evaluates that the two agree.  The table is applied
to surrogates without a partner as well (WTF-8), as the encoder does; UTF-8 is the same
after these have been replaced by U+FFFD (`ScalarValues`), so the two are the same bytes for
a string without them (`PairedIsScalar`), and for no other one (evaluated by TLC; the run
`strings_surrogates` shows it).  The invariant
`PlacedInv` says that what either loop has written is in its place; one iteration
of either loop goes on to the next start (`NextStart`), adds the octets of one character to
the set (`OctetsBeforeNext`) and to the bytes (`PlacedFurther`), and they are
the table's (`OctetsStandard`).

The runtime is proved about in four modules, for every set of flowgraphs of any number
of blocks, any connections, queue sizes, stream capacities and numbers of users
(`RuntimeAssumption`: a flowgraph has a block, connections lead to blocks and no two
streams to the same one, a stream has its port at both ends and whoever posts has an output
(`connect_dyn()` and `connect_message()` refuse anything else, flowgraph.rs:235-293 and
message_io.rs:86), `init()` posts nothing but a call or the end of its messages, and
users make the requests of the handle; `KernelsAssumption`: the numbers of items are naturals,
and `MaxCount`, the model's bound on the counters, is not below them).

`FlowgraphRuntimeProofs`: `ActiveExactHolds` (the active blocks are counted exactly) and
`ResultHonestHolds` (`Err` if and only if a block failed, and only when all have ended).
Neither is inductive: that the count is right in the next state depends on the messages
under way.  In `IndInv` the end of a block, `BlockDone` or `BlockError`, is a token: it is
made when the task ends and is then in one place only (the block's outbox, the inbox of
`run_flowgraph`, its queue of deferred messages), until it is counted (`TokenInv`); `active`
is the number of blocks whose token is still open, and `block_error` is set if and only if
a counted token was an error (`CountInv`); so that the result is right at the return
(`ReturnInv`).  Each action moves at most one token.  The lemmas say what a push, a flush
and a removal do to "in this queue, at one place".

`FlowgraphTypesProofs`: `TypeOKHolds`.  It is more than types: no kernel takes more than
there is or gives more than there is room for (`KernelInv`, from a lemma on every kernel),
no message goes to somebody it is not meant for (`PostInv`), and no counter leaves its
range (`LedgerInv`, whose bound on `active` comes from `CountInv`).

`FlowgraphStartProofs`: `AllInitializedHolds` and `StartTogetherHolds`, with the conditions
of section 4.  Here the first word of a block, `Initialized` or `BlockError`, is the token,
and `initLeft` is the number of blocks that have not been heard (`StartInv`).  So at zero no
block is in its setup phase.  `CalmInv` adds that, where no `init()` posts, each block gets
one message in the init phase, its `Initialize`, and sends to `run_flowgraph` only; so nobody
reaches `work()` in it.

`FlowgraphDeliveryProofs`: `NothingLostHolds`.  That a sink has got *all* items is a
statement about the whole chain of blocks behind it, and no block counts what passes through
it.  The invariant compares neighbours only, so no induction along the chain is
needed:

* `MailInv`: a message that announces the end of a neighbour is sent, and is under way,
  only when that neighbour has left its loop, and nobody is told to terminate; a block that
  has finished does not come back;
* `StreamInv`: there are numbers `M` and `T`, what each block has made and taken, that
  agree with the counters of the kernels (`Balanced`): a copy has made what it took, and what
  the writer of a stream has made is what its reader took and what is in the buffer.  A
  finished block is `Through`, which means that it has made or taken exactly `Items` and
  read its input to the end, or it is `CutOff` by a `Head` behind it.  A block that is told
  its input has ended finds the writer through, so it is through itself once the buffer is
  empty: "exactly `Items`" goes from neighbour to neighbour with the message;
* `AskInv` and `CallInv`: under the conditions of section 4 calls come from connected blocks
  only, reach no block in its setup phase, and `CallFinished` comes from a block that has
  left its loop;
* `MessageInv`: there are numbers `P` and `G`, what each block has posted and got; the calls
  in a block's inbox and in its sender's outbox are the consecutive ones from `G` to `P`,
  and `CallFinished` is behind the last of them (`Line`).  The calls are numbered, not
  counted: a push, a flush and a removal move the boundary between the two queues by one.

The numbers are existentially quantified; each action gives the new ones explicitly.  The
lemmas say what a queue operation does to each relation, and there is one for each way in
which a kernel reacts to a message or to `work()`.

`FlowExecutorProofs` proves `TypeOKHolds`, `SleepersConsistentHolds`, `TasksConservedHolds`,
`LocalNotForgottenHolds` and `GlobalNotForgottenHolds` for all numbers of workers, tasks and
other threads and every assignment of blocks to workers (`ExecutorAssumption`: there is a
worker, and a home is a worker or none).  `IndInv` says where everything is: the ids given
out by `Sleepers` are those up to `count` plus the free ones, each once (`IdsInv`); a waker in
the list belongs to the worker that sleeps under its id, which has no other (`ListInv`);
a task is in one queue or one hand, and its state says which (`TasksInv`).  On top are the
two promises.  `WakeInv`: whoever takes a parked worker off the list is about to wake it,
and a worker that has listed itself and searches for the last time has not missed a block.
`GlobalInv`: when `notified` is set, some worker is off the list or about to be taken off
it; and while a task is in the global queue somebody will look there.

It also proves `MappingFairHolds`, `MappingFair` for all numbers of blocks
and workers (`MappingAssumption`: there is at least one worker).  The worker of a block
is given explicitly, by a division in the first `r` ranges and another behind them; the
ranges are monotone, so it is the one the loop stops at, and the cardinality of a share
is the length of its range.

`RattlegramReceiverProofs` proves `TypeOKHolds`, `DecoderReadyHolds`, `NoFaultsHolds`,
`CallBalancedHolds`, `ResultsInOrderHolds`, `DoneAfterSyncHolds` and `OncePerSymbolHolds` for all
sizes of quantum, batch, symbol and payload (`DecoderAssumption`: they are positive, and a
batch and a quantum fit a symbol, which `feed()` asserts).  In `IndInv` the handshake is one
token that goes round the two event loops (`HandshakeInv`), before which nothing has happened
(`NullInv`); each point of a call has its stack frames and allocations (`CallInv`); every
sample is in the batch, in the symbol or processed (`CountInv`); what was decoded is what is
shown, what is posted and what is not posted yet, in this order (`OrderInv`); and a payload
under way has had its preamble (`PayloadInv`).

Every invariant and every action property of the runs is also a theorem.  Checked by TLC
alone is liveness: all of the leads-to properties, and `EverythingArrives`, `EndsOk`,
`ErrorEnds` and their like, because the prover has no rules for fairness.

## 6. Not modelled

The circular buffer's ring and tags, the circuit buffer, accelerator buffers,
flowgraph construction, `Runtime::start` and the registry, the control port and
`remote`, the drop of tickers and runners, pinned blocks, and all blocks but nine are
not modelled (see the plan).  Signal processing, I/O, logging, the web interface, code
generation and configuration parsing keep no protocol state.  A kernel's `work()` that
awaits something else than its ports is not modelled.

Of the receiver: `free()` and the finalization registry (the processor never drops its
decoder), `initSync`, the branch of `__wbg_load` for a `Response` and the default URL
(the processor passes bytes), the branches for an absent `realloc` and for `encodeInto`
(the call always passes one, and worklets have no `TextEncoder` but this one), the class
`MessageSetter` in the worklet's copy of the glue, the stale copy of `setup-decoder.js`
under `worklet/snippets`, the transmitter page, and the signal processing.  The
configuration files for `tailwind` and `mermaid` in the repository hold no logic.

A hazard that has a note and no property in `PROJECT.json` lies in one of these parts, is
one of the limits of section 4, or is behaviour of the receiver that the model has and that
no property is about: of an error page instead of the module the repository says nothing;
the button that works once contradicts the "click Retry" of the error message
(setup-decoder.js:26), but it is a single guard of `Click`, which a property would only
repeat.

## 7. Plan

In this order, the most important behaviour first:

1. done: slab buffer, runtime, blocks and handle, executor, rattlegram receiver, text codec
   and `map_block()`, all with proofs of their safety;
2. circuit buffer: conservation of the circulating buffers, end of stream; circular
   buffer with tags and several readers; both as refinements of `SampleStream`;
3. executor: drop of tickers and runners; runtime registry and control port; flowgraph
   construction with its partial failures; Delay, Selector, Combine, Split and the channel
   blocks in `Kernels`;
4. host-device buffers of the accelerators; index arithmetic of the resamplers.
