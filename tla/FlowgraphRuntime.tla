-------------------------- MODULE FlowgraphRuntime --------------------------
(***************************************************************************)
(* A running flowgraph: run_flowgraph() (src/src/runtime/runtime.rs), one  *)
(* task per block (WrappedKernel::run, src/src/runtime/block.rs) and the   *)
(* users of a FlowgraphHandle (flowgraph_handle.rs).  They share nothing   *)
(* but bounded channels and the stream buffers between the blocks.         *)
(*                                                                         *)
(* The flowgraph fg is one of Flowgraphs and never changes while it runs.  *)
(* Its blocks are 1..N in the order of Flowgraph::blocks.  A block has at  *)
(* most one stream input, from block Up(b), and one stream output, to      *)
(* block Down[b] (0: not connected), and posts to the blocks MsgOut[b].    *)
(* avail[b] is the number of items in the buffer behind block b's output.  *)
(*                                                                         *)
(* An action is what a task does between two points where it may wait or   *)
(* where another task can see the difference: taking one message, one call *)
(* of work(), one push into a channel.  The messages a task has committed  *)
(* to send, in order, are its outbox; it does nothing else before they are *)
(* all sent and flushed.                                                   *)
(***************************************************************************)
EXTENDS Mpsc, Kernels, FiniteSets

CONSTANTS MaxBlocks,    \* no flowgraph has more blocks
          Flowgraphs,   \* the flowgraphs, each a record with the fields below
          StreamCap,    \* items that fit in a stream buffer
          Clients,      \* users of a FlowgraphHandle
          MaxRequests   \* bound on the requests of one client

\* What a FlowgraphHandle sends to run_flowgraph.
RequestTypes == {"BlockCall", "BlockCallback", "BlockDescription", "FlowgraphDescription",
                 "Terminate"}

StreamInputs  == {"copy", "head", "sink"}
StreamOutputs == {"source", "null_source", "copy", "head"}
MessageOutputs == {"burst", "ticker", "msg_copy"}

\* A flowgraph that connect_dyn() and connect_message() accept: both ends of a
\* stream have the port, and so has the block that posts.
WellFormed(g) ==
    LET n == Len(g.kind)
    IN  /\ n \in 1..MaxBlocks
        /\ \A f \in {"down", "msgOut", "initPost", "failAt"} : DOMAIN g[f] = 1..n
        /\ \A b \in 1..n :
              /\ g.down[b] \in 0..n
              /\ \A c \in 1..n : g.down[b] # 0 /\ g.down[b] = g.down[c] => b = c
              /\ g.down[b] # 0 => g.kind[b] \in StreamOutputs /\ g.kind[g.down[b]] \in StreamInputs
              /\ g.msgOut[b] \in Seq(1..n)
              /\ g.msgOut[b] # <<>> => g.kind[b] \in MessageOutputs
              /\ g.initPost[b] \in {"none", "Call", "CallFinished"}
        /\ g.queueSize \in Nat
        /\ \A c \in Clients : \A r \in g.requests[c] : r \in RequestTypes \X Nat

ASSUME RuntimeAssumption ==
    /\ MaxBlocks \in Nat \ {0} /\ StreamCap \in Nat \ {0} /\ MaxRequests \in Nat
    /\ \A g \in Flowgraphs : WellFormed(g)

VARIABLES
    fg,          \* the flowgraph
    inbox,       \* the inbox of every block (BlockMessage)
    outbox,      \* messages a block's task is about to send
    pc,          \* where a block's task is: start, setup, loop, work, shutdown, done
    io,          \* WorkIo of every block
    failed,      \* run_impl() returned Err
    k,           \* the counter of every kernel
    infin,       \* the stream input was marked finished
    avail,       \* items in the buffer behind a block's stream output
    mainbox,     \* the inbox of run_flowgraph (FlowgraphMessage)
    mainout,     \* messages run_flowgraph is about to send
    mpc,         \* where run_flowgraph is
    job,         \* the request run_flowgraph is working on
    initLeft, active, blockError, terminated,   \* its local variables
    deferred,    \* its queue of messages received during initialization
    oneshot,     \* the answer of a block to run_flowgraph
    cpc,         \* where a client is: idle, sending, waiting
    asked,       \* number of requests a client has made
    reply        \* the last answer a client got

\* The fields of the flowgraph.
Kind      == fg.kind        \* Kind[b]: the kernel of block b
Down      == fg.down        \* Down[b]: block at the other end of the stream output
MsgOut    == fg.msgOut      \* MsgOut[b]: blocks connected to the message output
InitPost  == fg.initPost    \* InitPost[b]: message the kernel's init() posts, or "none"
failAt    == fg.failAt      \* failAt[b]: the call of the kernel that returns Err, or "none"
QueueSize == fg.queueSize   \* config().queue_size
Requests  == fg.requests    \* Requests[c]: what client c may ask, as <<type, block>>

N == Len(Kind)
Blocks == 1..N
Main == 0

HasInput(b)  == Kind[b] \in StreamInputs
HasOutput(b) == Kind[b] \in StreamOutputs
HasMsgIn(b)  == Kind[b] \in {"msg_copy", "msg_sink"}
Upstream(b)  == {u \in Blocks : Down[u] = b}
Up(b)        == CHOOSE u \in Upstream(b) : TRUE

blockVars  == <<fg, outbox, pc, io, failed, k, infin, avail>>
mainVars   == <<mainout, mpc, job, initLeft, active, blockError, terminated, deferred>>
clientVars == <<cpc, asked, reply>>
vars == <<inbox, mainbox, oneshot, blockVars, mainVars, clientVars>>

\* One message to send: by send().await (to a block, or to run_flowgraph), or
\* the answer of a handler through its oneshot channel.
Send(to, via, msg) == [to |-> to, via |-> via, msg |-> msg, pushed |-> FALSE]
Answer(res) == [to |-> N + 1, via |-> <<"oneshot", 0>>, msg |-> res, pushed |-> FALSE]

ToMain(type, b)     == [type |-> type, block |-> b, client |-> 0]
SendToMain(type, b) == Send(Main, <<"block", b>>, ToMain(type, b))
FromMain == <<"main", 0>>
ToAll(msg) == [b \in 1..N |-> Send(b, FromMain, msg)]

\* Mutant: work() is called without waiting for a message.
FreshIoAgain == [again |-> TRUE, finished |-> FALSE, timer |-> "none"]

\* work_io before the first call of work().
FreshIo == [again |-> FALSE, finished |-> FALSE, timer |-> "none"]

Init ==
    /\ fg \in Flowgraphs
    /\ inbox = [b \in Blocks |-> EmptyChannel]
    /\ outbox = [b \in Blocks |-> <<>>]
    /\ pc = [b \in Blocks |-> "start"]
    /\ io = [b \in Blocks |-> FreshIo]
    /\ failed = [b \in Blocks |-> FALSE]
    /\ k = [b \in Blocks |-> IF Kind[b] = "head" THEN Items ELSE 0]
    /\ infin = [b \in Blocks |-> FALSE]
    /\ avail = [b \in Blocks |-> 0]
    /\ mainbox = EmptyChannel
    /\ mainout = ToAll("Initialize")
    /\ mpc = "sendInit"
    /\ job = [type |-> "none", client |-> 0, rest |-> <<>>]
    /\ initLeft = N /\ active = N
    /\ blockError = FALSE /\ terminated = FALSE
    /\ deferred = <<>>
    /\ oneshot = "none"
    /\ cpc = [c \in Clients |-> "idle"]
    /\ asked = [c \in Clients |-> 0]
    /\ reply = [c \in Clients |-> "none"]

Returned == mpc \in {"retOk", "retErr", "abortedInit", "aborted"}

-----------------------------------------------------------------------------
(* Block tasks: block.rs.                                                  *)

Running(b, where) == pc[b] = where /\ outbox[b] = <<>>

\* Mutant: the error is not reported.
FailSilently(b) ==
    /\ pc' = [pc EXCEPT ![b] = "done"]
    /\ failed' = [failed EXCEPT ![b] = TRUE]
    /\ UNCHANGED outbox

\* run(): the error is reported, nothing else is sent to anybody.
Fail(b) ==
    /\ pc' = [pc EXCEPT ![b] = "done"]
    /\ failed' = [failed EXCEPT ![b] = TRUE]
    /\ outbox' = [outbox EXCEPT ![b] = <<SendToMain("BlockError", b)>>]

\* stream_ports_validate()
Valid(b) == (HasInput(b) => Upstream(b) # {}) /\ (HasOutput(b) => Down[b] # 0)

BlockStart(b) ==
    /\ Running(b, "start")
    /\ \/ /\ Valid(b)
          /\ pc' = [pc EXCEPT ![b] = "setup"]
          /\ UNCHANGED <<failed, outbox>>
       \/ ~Valid(b) /\ Fail(b)
    /\ UNCHANGED <<inbox, mainbox, oneshot, fg, io, k, infin, avail, mainVars, clientVars>>

Message(b) == Head(inbox[b].queue)
Take(b) == /\ inbox[b].queue # <<>>
           /\ inbox' = [inbox EXCEPT ![b] = Pop(@)]

\* mio.post(): to every connected handler in turn, n messages.
Posts(b, n, msg) ==
    LET d == Len(MsgOut[b])
    IN  [i \in 1..(n * d) |-> Send(MsgOut[b][((i - 1) % d) + 1], <<"msg", b>>, msg)]

\* The setup phase drops every message but Initialize.
BlockSetup(b) ==
    /\ Running(b, "setup") /\ Take(b)
    /\ \/ /\ Message(b) # "Initialize"
          /\ UNCHANGED <<pc, failed, outbox>>
       \/ /\ Message(b) = "Initialize" /\ failAt[b] = "init"
          /\ Fail(b)
       \/ /\ Message(b) = "Initialize" /\ failAt[b] # "init"
          /\ pc' = [pc EXCEPT ![b] = "loop"]
          /\ outbox' = [outbox EXCEPT ![b] =
                          (IF InitPost[b] = "none" THEN <<>> ELSE Posts(b, 1, InitPost[b]))
                            \o <<SendToMain("Initialized", b)>>]
          /\ UNCHANGED failed
    /\ UNCHANGED <<mainbox, oneshot, fg, io, k, infin, avail, mainVars, clientVars>>

\* call_handler() for an ordinary message or for Pmt::Finished.
Handler(b, last) ==
    CASE Kind[b] = "msg_sink" -> MessageSinkHandler(k[b], last)
      [] Kind[b] = "msg_copy" -> MessageCopyHandler(k[b], last)
      [] OTHER -> Idle(k[b])

\* Mutant: a callback on a port that does not exist is dropped.
AnswersIfHandled(b, m) ==
    IF m = "BlockDescription" \/ (m = "Callback" /\ HasMsgIn(b)) THEN <<Answer("ok")>> ELSE <<>>

\* The answers a block gives through a oneshot channel; a port that does not
\* exist is answered with an error.
Answers(b, m) ==
    CASE m = "BlockDescription" -> <<Answer("ok")>>
      [] m = "Callback" -> <<Answer(IF HasMsgIn(b) THEN "ok" ELSE "err")>>
      [] OTHER -> <<>>

\* Mutant: Terminate is ignored.
StopsOnlyForStream(m) == m = "StreamOutputDone"

\* The messages that make a block finish.
Stops(m) == m \in {"StreamOutputDone", "Terminate"}

\* One message of the non-blocking part of the main loop.
BlockReceive(b) ==
    /\ Running(b, "loop") /\ Take(b)
    /\ LET m == Message(b)
           call == m \in {"Call", "CallFinished", "Callback"}
           err == call /\ HasMsgIn(b) /\ failAt[b] = "handler"
           h == IF call THEN Handler(b, m = "CallFinished") ELSE Idle(k[b])
       IN  \/ /\ ~err
              /\ io' = [io EXCEPT ![b].again = TRUE,
                                  ![b].finished = @ \/ h.fin \/ Stops(m)]
              /\ infin' = [infin EXCEPT ![b] = @ \/ m = "StreamInputDone"]
              /\ k' = [k EXCEPT ![b] = h.k]
              /\ outbox' = [outbox EXCEPT ![b] = Posts(b, h.posts, "Call") \o Answers(b, m)]
              /\ UNCHANGED <<pc, failed, oneshot>>
           \/ /\ err
              /\ Fail(b)
              /\ oneshot' = IF m = "Callback" THEN "err" ELSE oneshot
              /\ UNCHANGED <<io, infin, k>>
    /\ UNCHANGED <<mainbox, fg, avail, mainVars, clientVars>>

\* Mutant: the neighbour downstream is not told.
FarewellsUpstreamOnly(b) ==
    (IF HasInput(b) THEN <<Send(Up(b), <<"outdone", b>>, "StreamOutputDone")>> ELSE <<>>)
      \o Posts(b, 1, "CallFinished")

\* stream_ports_notify_finished() (inputs first), then mio.notify_finished().
Farewells(b) ==
    (IF HasInput(b) THEN <<Send(Up(b), <<"outdone", b>>, "StreamOutputDone")>> ELSE <<>>)
      \o (IF HasOutput(b) THEN <<Send(Down[b], <<"indone", b>>, "StreamInputDone")>> ELSE <<>>)
      \o Posts(b, 1, "CallFinished")

\* The inbox was found empty: shut down, call work(), or wait.
BlockDrained(b) ==
    /\ Running(b, "loop") /\ inbox[b].queue = <<>>
    /\ \/ /\ io[b].finished
          /\ pc' = [pc EXCEPT ![b] = "shutdown"]
          /\ outbox' = [outbox EXCEPT ![b] = Farewells(b)]
          /\ UNCHANGED io
       \/ /\ ~io[b].finished /\ io[b].again
          /\ pc' = [pc EXCEPT ![b] = "work"]
          /\ io' = [io EXCEPT ![b].again = FALSE]
          /\ UNCHANGED outbox
    /\ UNCHANGED <<inbox, mainbox, oneshot, fg, failed, k, infin, avail, mainVars, clientVars>>

\* The future of block_on() is ready before another message arrives.
BlockTimer(b) ==
    /\ Running(b, "loop") /\ inbox[b].queue = <<>>
    /\ ~io[b].finished /\ ~io[b].again /\ io[b].timer = "armed"
    /\ pc' = [pc EXCEPT ![b] = "work"]
    /\ io' = [io EXCEPT ![b].timer = "fired"]
    /\ UNCHANGED <<inbox, mainbox, oneshot, outbox, fg, failed, k, infin, avail, mainVars, clientVars>>

\* The possible outcomes of kernel.work().
Outcomes(b) ==
    LET ilen == IF HasInput(b) THEN avail[Up(b)] ELSE 0
        olen == StreamCap - avail[b]
    IN  CASE Kind[b] = "source"      -> {VectorSource(k[b], olen)}
          [] Kind[b] = "null_source" -> {NullSource(k[b], olen)}
          [] Kind[b] = "copy"        -> {Copy(k[b], ilen, olen, infin[b])}
          [] Kind[b] = "head"        -> {HeadBlock(k[b], ilen, olen)}
          [] Kind[b] = "sink"        -> {NullSink(k[b], ilen, infin[b])}
          [] Kind[b] = "burst"       -> {MessageBurst(k[b])}
          [] Kind[b] = "ticker"      -> {MessageSource(k[b], due) :
                                           due \in IF io[b].timer = "fired" THEN {TRUE} ELSE BOOLEAN}
          [] OTHER                   -> {Idle(k[b])}

\* consume() and produce() of the circular buffer: the other end is notified
\* of every change by try_send().
Notified(b, r) ==
    [x \in Blocks |->
        IF \/ r.cons > 0 /\ HasInput(b) /\ x = Up(b)
           \/ r.prod > 0 /\ HasOutput(b) /\ x = Down[b]
        THEN TrySend(inbox[x], <<"notify", b>>, "Notify", QueueSize)
        ELSE inbox[x]]
Moved(b, r) ==
    [x \in Blocks |-> avail[x] + (IF x = b THEN r.prod ELSE 0)
                               - (IF HasInput(b) /\ x = Up(b) THEN r.cons ELSE 0)]

BlockWork(b) ==
    /\ Running(b, "work")
    /\ \/ /\ failAt[b] = "work"
          /\ Fail(b)
          /\ UNCHANGED <<io, k, avail, inbox>>
       \/ /\ failAt[b] # "work"
          /\ \E r \in Outcomes(b) :
                /\ k' = [k EXCEPT ![b] = r.k]
                /\ avail' = Moved(b, r)
                /\ inbox' = Notified(b, r)
                /\ io' = [io EXCEPT ![b].finished = @ \/ r.fin,
                                    ![b].timer = IF r.timer \/ @ = "armed" THEN "armed" ELSE "none"]
                /\ outbox' = [outbox EXCEPT ![b] = Posts(b, r.posts, "Call")]
          /\ pc' = [pc EXCEPT ![b] = "loop"]
          /\ UNCHANGED failed
    /\ UNCHANGED <<mainbox, oneshot, fg, infin, mainVars, clientVars>>

\* deinit(), and run() reports the end of the block.
BlockDeinit(b) ==
    /\ Running(b, "shutdown")
    /\ \/ failAt[b] = "deinit" /\ Fail(b)
       \/ /\ failAt[b] # "deinit"
          /\ pc' = [pc EXCEPT ![b] = "done"]
          /\ outbox' = [outbox EXCEPT ![b] = <<SendToMain("BlockDone", b)>>]
          /\ UNCHANGED failed
    /\ UNCHANGED <<inbox, mainbox, oneshot, fg, io, k, infin, avail, mainVars, clientVars>>

\* send().await of the first message in the outbox: push it, or see that the
\* clone of the sender is no longer parked.
BlockSend(b) ==
    /\ outbox[b] # <<>>
    /\ LET s == Head(outbox[b])
           ch == IF s.to = Main THEN mainbox ELSE inbox[s.to]
           flushed(c) == outbox' = [outbox EXCEPT ![b] =
                            IF IsParked(c, s.via) THEN <<[s EXCEPT !.pushed = TRUE]>> \o Tail(@)
                            ELSE Tail(@)]
       IN  \/ /\ s.to = N + 1
              /\ oneshot' = s.msg
              /\ outbox' = [outbox EXCEPT ![b] = Tail(@)]
              /\ UNCHANGED <<inbox, mainbox, pc, failed>>
           \/ /\ s.to = Main /\ Returned           \* the receiver is gone
              /\ IF s.msg.type = "Initialized" /\ ~s.pushed
                 THEN Fail(b)
                 ELSE outbox' = [outbox EXCEPT ![b] = Tail(@)] /\ UNCHANGED <<pc, failed>>
              /\ UNCHANGED <<inbox, mainbox, oneshot>>
           \/ /\ s.to = Main /\ ~Returned /\ ~s.pushed /\ ~IsParked(ch, s.via)
              /\ mainbox' = Push(ch, s.via, s.msg, QueueSize)
              /\ flushed(mainbox')
              /\ UNCHANGED <<inbox, oneshot, pc, failed>>
           \/ /\ s.to \in Blocks /\ ~s.pushed /\ ~IsParked(ch, s.via)
              /\ inbox' = [inbox EXCEPT ![s.to] = Push(ch, s.via, s.msg, QueueSize)]
              /\ flushed(inbox'[s.to])
              /\ UNCHANGED <<mainbox, oneshot, pc, failed>>
           \/ /\ s.to # N + 1 /\ ~(s.to = Main /\ Returned)
              /\ s.pushed /\ ~IsParked(ch, s.via)
              /\ outbox' = [outbox EXCEPT ![b] = Tail(@)]
              /\ UNCHANGED <<inbox, mainbox, oneshot, pc, failed>>
    /\ UNCHANGED <<io, fg, k, infin, avail, mainVars, clientVars>>

BlockNext(b) ==
    \/ BlockStart(b) \/ BlockSetup(b) \/ BlockReceive(b) \/ BlockDrained(b)
    \/ BlockTimer(b) \/ BlockWork(b) \/ BlockDeinit(b) \/ BlockSend(b)

-----------------------------------------------------------------------------
(* run_flowgraph(): runtime.rs.                                            *)

NoJob == [type |-> "none", client |-> 0, rest |-> <<>>]
MainAt(where) == mpc = where /\ mainout = <<>>

\* A send().await of run_flowgraph.  An inbox of a block is never closed: it is
\* owned by the block, which fg.blocks keeps alive.
MainSend ==
    /\ mainout # <<>>
    /\ LET s == Head(mainout)
           ch == IF s.to = Main THEN mainbox ELSE inbox[s.to]
           flushed(c) == mainout' = IF IsParked(c, s.via)
                                    THEN <<[s EXCEPT !.pushed = TRUE]>> \o Tail(mainout)
                                    ELSE Tail(mainout)
       IN  /\ ~IsParked(ch, s.via)
           /\ \/ /\ ~s.pushed /\ s.to = Main
                 /\ mainbox' = Push(ch, s.via, s.msg, QueueSize)
                 /\ flushed(mainbox')
                 /\ UNCHANGED inbox
              \/ /\ ~s.pushed /\ s.to # Main
                 /\ inbox' = [inbox EXCEPT ![s.to] = Push(ch, s.via, s.msg, QueueSize)]
                 /\ flushed(inbox'[s.to])
                 /\ UNCHANGED mainbox
              \/ /\ s.pushed
                 /\ mainout' = Tail(mainout)
                 /\ UNCHANGED <<inbox, mainbox>>
    /\ UNCHANGED <<oneshot, blockVars, mpc, job, initLeft, active, blockError,
                   terminated, deferred, clientVars>>

\* All blocks were sent Initialize.
MainInitSent ==
    /\ MainAt("sendInit")
    /\ mpc' = "waitInit"
    /\ UNCHANGED <<inbox, mainbox, oneshot, blockVars, mainout, job, initLeft, active,
                   blockError, terminated, deferred, clientVars>>

MainMessage == Head(mainbox.queue)
MainTake == mainbox.queue # <<>> /\ mainbox' = Pop(mainbox)

\* Mutants: the error is remembered but the block still counted, and the reverse.
CountErrorFlag == UNCHANGED active /\ blockError' = TRUE
CountErrorActive == active' = active - 1 /\ UNCHANGED blockError

\* A BlockError, in the init phase as in the main loop.
CountError == active' = active - 1 /\ blockError' = TRUE

\* Wait until every block has been initialized or has failed to.
MainWaitInit ==
    /\ MainAt("waitInit") /\ initLeft > 0 /\ MainTake
    /\ LET m == MainMessage
       IN  \/ /\ m.type = "Initialized"
              /\ initLeft' = initLeft - 1
              /\ UNCHANGED <<active, blockError, deferred>>
           \/ /\ m.type = "BlockError"
              /\ initLeft' = initLeft - 1
              /\ CountError
              /\ UNCHANGED deferred
           \/ /\ m.type \notin {"Initialized", "BlockError"}
              /\ deferred' = Append(deferred, m)
              /\ UNCHANGED <<initLeft, active, blockError>>
    /\ UNCHANGED <<inbox, oneshot, blockVars, mainout, mpc, job, terminated, clientVars>>

\* Mutant: the last block is not waited for.
MainNotifyAllEarly ==
    /\ MainAt("waitInit") /\ initLeft <= 1
    /\ mpc' = "requeue"
    /\ mainout' = ToAll("Notify")
    /\ UNCHANGED <<inbox, mainbox, oneshot, blockVars, job, initLeft, active,
                   blockError, terminated, deferred, clientVars>>

\* Everybody is told to start.
MainNotifyAll ==
    /\ MainAt("waitInit") /\ initLeft = 0
    /\ mpc' = "requeue"
    /\ mainout' = ToAll("Notify")
    /\ UNCHANGED <<inbox, mainbox, oneshot, blockVars, job, initLeft, active,
                   blockError, terminated, deferred, clientVars>>

\* main_channel.try_send(m)?: run_flowgraph gives up when it fails.
MainTrySend(m) ==
    IF IsParked(mainbox, FromMain)
    THEN mpc' = "abortedInit" /\ UNCHANGED mainbox
    ELSE mainbox' = Push(mainbox, FromMain, m, QueueSize) /\ UNCHANGED mpc

\* The messages that came too early are put back.
MainRequeue ==
    /\ MainAt("requeue") /\ deferred # <<>>
    /\ MainTrySend(Head(deferred))
    /\ deferred' = Tail(deferred)
    /\ UNCHANGED <<inbox, oneshot, blockVars, mainout, job, initLeft, active,
                   blockError, terminated, clientVars>>

\* start() returns; a block that failed already ends the flowgraph.
MainStarted ==
    /\ MainAt("requeue") /\ deferred = <<>>
    /\ IF blockError /\ IsParked(mainbox, FromMain)
       THEN mpc' = "aborted" /\ UNCHANGED mainbox
       ELSE /\ mpc' = "loop"
            /\ mainbox' = IF blockError
                          THEN Push(mainbox, FromMain, ToMain("Terminate", 0), QueueSize)
                          ELSE mainbox
    /\ UNCHANGED <<inbox, oneshot, blockVars, mainout, job, initLeft, active,
                   blockError, terminated, deferred, clientVars>>

\* The main loop ends.  Requests still in the inbox are dropped with it, and
\* their oneshot senders, so the clients get an error.
MainReturn ==
    /\ MainAt("loop") /\ job = NoJob /\ active = 0
    /\ mpc' = IF blockError THEN "retErr" ELSE "retOk"
    /\ reply' = [c \in Clients |-> IF cpc[c] = "waiting" THEN "closed" ELSE reply[c]]
    /\ cpc' = [c \in Clients |-> IF cpc[c] = "waiting" THEN "idle" ELSE cpc[c]]
    /\ UNCHANGED <<inbox, mainbox, oneshot, blockVars, mainout, job, initLeft, active,
                   blockError, terminated, deferred, asked>>

Reply(c, r) == /\ reply' = [reply EXCEPT ![c] = r]
               /\ cpc' = [cpc EXCEPT ![c] = IF @ = "waiting" THEN "idle" ELSE @]

\* One message of the main loop.
MainLoop ==
    /\ MainAt("loop") /\ job = NoJob /\ active > 0 /\ MainTake
    /\ LET m == MainMessage
           known == m.block \in Blocks
           ask(type) == [type |-> type, client |-> m.client, rest |-> <<>>]
       IN  \/ /\ m.type \in {"BlockCall", "BlockCallback", "BlockDescription"} /\ ~known
              /\ Reply(m.client, "invalidBlock")
              /\ UNCHANGED <<mainout, job, active, blockError, terminated>>
           \/ /\ m.type \in {"BlockCall", "BlockCallback", "BlockDescription"} /\ known
              /\ job' = ask(m.type)
              /\ mainout' = <<Send(m.block, FromMain,
                                   CASE m.type = "BlockCall" -> "Call"
                                     [] m.type = "BlockCallback" -> "Callback"
                                     [] OTHER -> "BlockDescription")>>
              /\ UNCHANGED <<active, blockError, terminated, cpc, reply>>
           \/ /\ m.type = "FlowgraphDescription"
              /\ job' = [ask(m.type) EXCEPT !.rest = [i \in 1..(N - 1) |-> i + 1]]
              /\ mainout' = <<Send(1, FromMain, "BlockDescription")>>
              /\ UNCHANGED <<active, blockError, terminated, cpc, reply>>
           \/ /\ m.type = "BlockDone"
              /\ active' = active - 1
              /\ UNCHANGED <<mainout, job, blockError, terminated, cpc, reply>>
           \/ /\ m.type = "BlockError"
              /\ CountError
              /\ mainout' = <<Send(Main, FromMain, ToMain("Terminate", 0))>>
              /\ UNCHANGED <<job, terminated, cpc, reply>>
           \/ /\ m.type = "Terminate"
              /\ mainout' = IF terminated THEN <<>> ELSE ToAll("Terminate")
              /\ terminated' = TRUE
              /\ UNCHANGED <<job, active, blockError, cpc, reply>>
           \/ /\ m.type = "Initialized"     \* "main loop received unhandled message"
              /\ UNCHANGED <<mainout, job, active, blockError, terminated, cpc, reply>>
    /\ UNCHANGED <<inbox, oneshot, blockVars, mpc, initLeft, deferred, asked>>

\* The message for the block is sent; a Call is acknowledged at once, a
\* Callback and a description when the block has answered.
MainAnswer ==
    /\ MainAt("loop") /\ job # NoJob
    /\ \/ /\ job.type = "BlockCall"
          /\ Reply(job.client, "ok") /\ job' = NoJob
          /\ UNCHANGED <<oneshot, mainout>>
       \/ /\ job.type \in {"BlockCallback", "BlockDescription"} /\ oneshot # "none"
          /\ Reply(job.client, oneshot) /\ job' = NoJob
          /\ oneshot' = "none"
          /\ UNCHANGED mainout
       \/ /\ job.type = "FlowgraphDescription" /\ oneshot # "none" /\ job.rest # <<>>
          /\ mainout' = <<Send(Head(job.rest), FromMain, "BlockDescription")>>
          /\ job' = [job EXCEPT !.rest = Tail(@)]
          /\ oneshot' = "none"
          /\ UNCHANGED <<cpc, reply>>
       \/ /\ job.type = "FlowgraphDescription" /\ oneshot # "none" /\ job.rest = <<>>
          /\ Reply(job.client, "ok") /\ job' = NoJob
          /\ oneshot' = "none"
          /\ UNCHANGED mainout
    /\ UNCHANGED <<inbox, mainbox, blockVars, mpc, initLeft, active, blockError,
                   terminated, deferred, asked>>

MainNext ==
    \/ MainSend \/ MainInitSent \/ MainWaitInit \/ MainNotifyAll \/ MainRequeue
    \/ MainStarted \/ MainReturn \/ MainLoop \/ MainAnswer

-----------------------------------------------------------------------------
(* Users of a FlowgraphHandle: flowgraph_handle.rs.  They have the handle  *)
(* once start() has returned.                                              *)

Via(c) == <<"client", c>>

\* call(), callback(), description(), block_description(), terminate(): the
\* message is pushed, or the inbox is found closed.
ClientAsk(c, r) ==
    /\ cpc[c] = "idle" /\ asked[c] < MaxRequests
    /\ mpc \in {"loop", "retOk", "retErr", "aborted"}
    /\ asked' = [asked EXCEPT ![c] = @ + 1]
    /\ \/ /\ Returned
          /\ reply' = [reply EXCEPT ![c] = "closed"]
          /\ UNCHANGED <<cpc, mainbox>>
       \/ /\ ~Returned
          /\ mainbox' = Push(mainbox, Via(c), [type |-> r[1], block |-> r[2], client |-> c], QueueSize)
          /\ cpc' = [cpc EXCEPT ![c] = IF IsParked(mainbox', Via(c)) THEN "sending"
                                       ELSE IF r[1] = "Terminate" THEN "idle" ELSE "waiting"]
          /\ reply' = [reply EXCEPT ![c] = IF r[1] = "Terminate" THEN "ok" ELSE "none"]
    /\ UNCHANGED <<inbox, oneshot, blockVars, mainVars>>

\* The push filled the inbox: the client waits until it has been unparked.
ClientFlushed(c) ==
    /\ cpc[c] = "sending" /\ (Returned \/ ~IsParked(mainbox, Via(c)))
    /\ cpc' = [cpc EXCEPT ![c] = IF Returned \/ reply[c] # "none" THEN "idle" ELSE "waiting"]
    /\ reply' = [reply EXCEPT ![c] = IF @ = "none" /\ Returned THEN "closed" ELSE @]
    /\ UNCHANGED <<inbox, mainbox, oneshot, blockVars, mainVars, asked>>

ClientNext(c) == ClientFlushed(c) \/ \E r \in Requests[c] : ClientAsk(c, r)

-----------------------------------------------------------------------------
\* run_flowgraph has returned and so have all blocks and clients.
Quiet == /\ Returned /\ \A b \in Blocks : pc[b] = "done" /\ outbox[b] = <<>>
         /\ \A c \in Clients : cpc[c] = "idle" /\ asked[c] = MaxRequests
         /\ UNCHANGED vars

Next == \/ \E b \in Blocks : BlockNext(b)
        \/ MainNext
        \/ \E c \in Clients : ClientNext(c)
        \/ Quiet

Spec == Init /\ [][Next]_vars

\* The schedulers poll every task that was woken, timers fire, and a client
\* that has started a request polls it; nobody has to make a request.
Fairness == /\ \A b \in 1..MaxBlocks : WF_vars(b \in Blocks /\ BlockNext(b))
            /\ WF_vars(MainNext)
            /\ \A c \in Clients : WF_vars(ClientFlushed(c))

FairSpec == Spec /\ Fairness

-----------------------------------------------------------------------------
(* Properties.                                                             *)

\* Types: in particular, a stream buffer never holds more than StreamCap items,
\* the counters of run_flowgraph never underflow, and the loop's queue of
\* messages knows no other kinds than those of BlockMessage.
TypeOK ==
    /\ DOMAIN inbox = Blocks /\ \A b \in Blocks : \A i \in DOMAIN inbox[b].queue :
          inbox[b].queue[i] \in {"Initialize", "Notify", "Call", "CallFinished", "Callback",
                                 "BlockDescription", "StreamInputDone", "StreamOutputDone",
                                 "Terminate"}
    /\ pc \in [Blocks -> {"start", "setup", "loop", "work", "shutdown", "done"}]
    /\ io \in [Blocks -> [again : BOOLEAN, finished : BOOLEAN, timer : {"none", "armed", "fired"}]]
    /\ avail \in [Blocks -> 0..StreamCap]
    /\ mpc \in {"sendInit", "waitInit", "requeue", "loop", "retOk", "retErr", "abortedInit", "aborted"}
    /\ initLeft \in 0..N /\ active \in 0..N
    /\ oneshot \in {"none", "ok", "err"}
    /\ reply \in [Clients -> {"none", "ok", "err", "invalidBlock", "closed"}]

\* Block b's BlockDone or BlockError has not been counted by run_flowgraph yet.
Uncounted(b) ==
    LET end(m) == m.type \in {"BlockDone", "BlockError"} /\ m.block = b
    IN  \/ pc[b] # "done"
        \/ \E i \in DOMAIN outbox[b] : ~outbox[b][i].pushed
        \/ \E i \in DOMAIN mainbox.queue : end(mainbox.queue[i])
        \/ \E i \in DOMAIN deferred : end(deferred[i])

\* active_blocks of run_flowgraph (runtime.rs) is exact: whatever the order of
\* errors, ends and requests, it is the number of blocks whose end has not been
\* counted, so the main loop leaves neither early nor never.
ActiveExact ==
    mpc \notin {"aborted", "abortedInit"} => active = Cardinality({b \in Blocks : Uncounted(b)})

\* run_flowgraph gives the flowgraph back only after every block's run() has
\* ended, and its result is an error exactly if a block failed, wherever it did.
ResultHonest ==
    mpc \in {"retOk", "retErr"} =>
        /\ \A b \in Blocks : pc[b] = "done"
        /\ mpc = "retErr" <=> \E b \in Blocks : failed[b]

\* No init() posts a message, and no kernel fails behind its init().
NoEarlyPosts == \A b \in Blocks : InitPost[b] = "none"
OnlyInitFails == \A b \in Blocks : failAt[b] \in {"none", "init"}

\* No block calls work() before every block has been initialized or has failed:
\* nothing that a block does makes another one leave its inbox early, unless an
\* init() posts a message, which wakes a receiver that is initialized already.
StartTogether ==
    NoEarlyPosts /\ (\E b \in Blocks : pc[b] = "work") =>
        \A b \in Blocks : pc[b] \notin {"start", "setup"}

\* run_flowgraph leaves its init phase only when no block is still in its setup
\* phase (runtime.rs: "wait until all blocks are initialized").  It counts any
\* BlockError as an initialization, so a block that is woken by an early message
\* and then fails is counted twice: either must be excluded.
AllInitialized ==
    (NoEarlyPosts \/ OnlyInitFails) /\ mpc \notin {"sendInit", "waitInit"} =>
        \A b \in Blocks : pc[b] \notin {"start", "setup"}

\* Nobody has asked for the end of the flowgraph, and no block has failed.
Undisturbed == ~terminated /\ \A b \in Blocks : ~failed[b]

\* Every block gets its messages through one connection; no user calls a handler.
SingleFed ==
    \A u, v \in Blocks : \A i \in DOMAIN MsgOut[u], j \in DOMAIN MsgOut[v] :
        MsgOut[u][i] = MsgOut[v][j] => u = v /\ i = j
Uncalled ==
    \A c \in Clients : \A r \in Requests[c] : r[1] \notin {"BlockCall", "BlockCallback"}

\* Shutdown loses nothing: when the reader of a stream has ended by itself,
\* nothing is left in the stream (a Head may leave some before it), and a sink
\* of samples or messages has got all that was sent, however the end-of-stream
\* messages overtook or were overtaken by notifications.  (What init() posts
\* may come before the receiver's own init() and is not counted on; and a
\* MessageSink ends with the first of several senders, block.rs, run_impl.)
NothingLost ==
    \A b \in Blocks : Undisturbed /\ pc[b] = "done" =>
        /\ HasInput(b) /\ (\A h \in Blocks : Kind[h] # "head") => avail[Up(b)] = 0
        /\ Kind[b] = "sink" => k[b] = Items
        /\ Kind[b] = "msg_sink" /\ NoEarlyPosts /\ SingleFed /\ Uncalled => k[b] = Burst

\* A finite flowgraph comes to its end by itself: the end of a source, or of a
\* Head, reaches every block and run_flowgraph returns Ok, unless a block fails.
EndsOk == <>(mpc = "retOk" \/ \E b \in Blocks : failed[b])

\* A block that fails in init(), work(), deinit() or a handler ends the whole
\* flowgraph, the blocks that would run for ever included, with an error.
ErrorEnds == (\E b \in Blocks : failed[b]) ~> mpc = "retErr"

\* run_flowgraph waits for the answer to a question that lies in the inbox of a
\* block that has ended, where nobody will read it (runtime.rs: the rx.await
\* of a callback and of the descriptions).  Once true it stays true.
WaitsForEnded ==
    /\ job.type \in {"BlockCallback", "BlockDescription", "FlowgraphDescription"}
    /\ \E b \in Blocks : /\ pc[b] = "done"
                         /\ \E i \in DOMAIN inbox[b].queue :
                               inbox[b].queue[i] \in {"Callback", "BlockDescription"}

\* Terminate, once run_flowgraph has taken it, ends the flowgraph, so that
\* terminate_and_wait() (flowgraph_handle.rs) returns, whatever else its users
\* ask before, meanwhile or afterwards.  Only one thing can prevent it: a
\* question to a block that has already ended.
TerminateEnds == terminated ~> Returned \/ WaitsForEnded

\* Every request made through a FlowgraphHandle is answered, even if only with
\* an error, in whatever order the users call, query and terminate: a caller of
\* call(), callback(), description() or block_description() waits for ever
\* only behind a question to a block that has already ended.
RequestsServed ==
    \A c \in Clients : cpc[c] # "idle" ~> cpc[c] = "idle" \/ WaitsForEnded

\* Every request is answered without exception.  It does not hold: a block that
\* has ended leaves its inbox open and does not answer (runtime.rs:535).
RequestsAnswered == \A c \in Clients : cpc[c] = "waiting" ~> cpc[c] = "idle"
=============================================================================
