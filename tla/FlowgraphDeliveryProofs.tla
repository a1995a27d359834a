----------------------- MODULE FlowgraphDeliveryProofs -----------------------
(***************************************************************************)
(* Nothing is lost when a flowgraph ends by itself, for every flowgraph,   *)
(* every size of the stream buffers and of the inboxes: a stream is empty  *)
(* when its reader has ended, and a sink has got all that a source has     *)
(* sent, through any number of blocks.                                     *)
(*                                                                         *)
(* No block counts what passes through it.  The histories that do, what a  *)
(* block has made and taken, posted and got, are quantified in the         *)
(* invariant: there are numbers that agree with the counters of the        *)
(* kernels, with the buffers and with the messages under way.  Every block *)
(* is compared with its neighbours only, so that no induction along the    *)
(* chain of blocks is needed.                                              *)
(***************************************************************************)
EXTENDS FlowgraphTypesProofs, FlowgraphStartProofs

Gone == {"shutdown", "done"}

\* What the message m tells block x about its neighbours is true, if the tasks of
\* the flowgraph g are at P; and nobody tells it to terminate.
Truthful(g, P, x, m) ==
    /\ m # "Terminate"
    /\ m = "StreamInputDone" => \A u \in DOMAIN P : g.down[u] = x => P[u] \in Gone
    /\ m = "StreamOutputDone" => g.down[x] \in DOMAIN P /\ P[g.down[x]] \in Gone
TrueMail(g, P, q, x) == \A i \in 1..Len(q) : Truthful(g, P, x, q[i])
TruePost(g, P, s) ==
    \A i \in 1..Len(s) : s[i].to \in DOMAIN P => Truthful(g, P, s[i].to, s[i].msg)

\* A block that is finished does not work any more, and has a reason.
PhaseInv ==
    \A b \in Blocks : /\ pc[b] = "work" => ~io[b].finished
                      /\ pc[b] \in Gone => io[b].finished
                      /\ infin[b] => \A u \in Blocks : Down[u] = b => pc[u] \in Gone
TruthInv ==
    /\ \A b \in Blocks : TrueMail(fg, pc, inbox[b].queue, b) /\ TruePost(fg, pc, outbox[b])
    /\ TruePost(fg, pc, mainout)

MailInv == Undisturbed => PhaseInv /\ TruthInv

-----------------------------------------------------------------------------
(* Messages that are true                                                  *)

\* What is true stays so while no block comes back.
LEMMA TruthStays ==
  ASSUME NEW g, NEW P, NEW R, DOMAIN R = DOMAIN P, \A c \in DOMAIN P : P[c] \in Gone => R[c] \in Gone
  PROVE  /\ \A x, m : Truthful(g, P, x, m) => Truthful(g, R, x, m)
         /\ \A q, x : TrueMail(g, P, q, x) => TrueMail(g, R, q, x)
         /\ \A s : TruePost(g, P, s) => TruePost(g, R, s)
<1>1. ASSUME NEW x, NEW m, Truthful(g, P, x, m) PROVE Truthful(g, R, x, m)
  BY <1>1 DEF Truthful
<1> QED
  BY <1>1 DEF TrueMail, TruePost

\* A message is taken from an inbox, or put into it.
LEMMA MailMoves ==
  ASSUME NEW g, NEW P, NEW x, NEW q \in Seq(BlockMsgs), TrueMail(g, P, q, x)
  PROVE  /\ q # <<>> => Truthful(g, P, x, Head(q)) /\ TrueMail(g, P, Tail(q), x)
         /\ \A m \in BlockMsgs : Truthful(g, P, x, m) => TrueMail(g, P, Append(q, m), x)
<1>1. ASSUME q # <<>> PROVE Truthful(g, P, x, Head(q)) /\ TrueMail(g, P, Tail(q), x)
  <2>1. PICK t : t = Tail(q)
    OBVIOUS
  <2>2. Head(q) = q[1] /\ 1 \in 1..Len(q)
    BY <1>1
  <2>3. \A i \in 1..Len(t) : i + 1 \in 1..Len(q) /\ t[i] = q[i + 1]
    BY <1>1, <2>1
  <2> QED
    BY <2>1, <2>2, <2>3 DEF TrueMail
<1>2. ASSUME NEW m \in BlockMsgs, Truthful(g, P, x, m) PROVE TrueMail(g, P, Append(q, m), x)
  <2>1. PICK t : t = Append(q, m)
    OBVIOUS
  <2>2. \A i \in 1..Len(t) : (i \in 1..Len(q) /\ t[i] = q[i]) \/ t[i] = m
    BY <2>1
  <2> QED
    BY <1>2, <2>1, <2>2 DEF TrueMail
<1> QED
  BY <1>1, <1>2

\* The first message of an outbox is pushed, or flushed.
LEMMA PostMoves ==
  ASSUME NEW g, NEW P, NEW s \in Seq(Sends), s # <<>>, TruePost(g, P, s)
  PROVE  /\ TruePost(g, P, Tail(s)) /\ TruePost(g, P, Marked(s))
         /\ Head(s).to \in DOMAIN P => Truthful(g, P, Head(s).to, Head(s).msg)
<1>1. PICK t : t = Tail(s)
  OBVIOUS
<1>2. PICK u : u = Marked(s)
  OBVIOUS
<1>3. /\ Head(s) = s[1] /\ 1 \in 1..Len(s)
      /\ \A i \in 1..Len(t) : t[i] = s[i + 1] /\ i + 1 \in 1..Len(s)
      /\ Len(u) = Len(s) /\ u[1].to = s[1].to /\ u[1].msg = s[1].msg
      /\ \A i \in 1..Len(s) : i # 1 => u[i] = s[i]
  BY <1>1, <1>2, MovedOutbox
<1> QED
  BY <1>1, <1>2, <1>3 DEF TruePost

\* A new outbox.
LEMMA PostConcat ==
  ASSUME NEW g, NEW P, NEW s \in Seq(Sends), NEW u \in Seq(Sends),
         TruePost(g, P, s), TruePost(g, P, u)
  PROVE  TruePost(g, P, s \o u)
<1>1. PICK t : t = s \o u
  OBVIOUS
<1>2. \A i \in 1..Len(t) : \/ i \in 1..Len(s) /\ t[i] = s[i]
                           \/ i - Len(s) \in 1..Len(u) /\ t[i] = u[i - Len(s)]
  BY <1>1
<1> QED
  BY <1>1, <1>2 DEF TruePost

-----------------------------------------------------------------------------
(* The steps of an undisturbed flowgraph                                   *)

\* No block comes back, and what is disturbed stays so.
LEMMA OneWay ==
  ASSUME IndInv, [Next]_vars
  PROVE  /\ \A c \in Blocks : pc[c] \in Gone => pc'[c] \in Gone
         /\ Undisturbed' => Undisturbed
<1>1. /\ pc \in [Blocks -> Pcs] /\ failed \in [Blocks -> BOOLEAN] /\ Blocks' = Blocks
      /\ \A c \in Blocks : pc[c] # "done" => ~failed[c]
  BY Phases DEF IndInv, TypeInv, TokenInv, Token
<1> DEFINE Kept == /\ \A c \in Blocks : pc[c] \in Gone => pc'[c] \in Gone
                   /\ \A c \in Blocks : failed[c] => failed'[c]
                   /\ terminated => terminated'
<1>2. ASSUME UNCHANGED <<pc, failed>> /\ (terminated => terminated') PROVE Kept
  BY <1>2
<1>3. ASSUME NEW b \in Blocks, BlockNext(b) PROVE Kept
  <2>1. ASSUME NEW p, pc' = [pc EXCEPT ![b] = p], UNCHANGED <<failed, terminated>>,
               pc[b] \in Gone => p \in Gone
        PROVE  Kept
    BY <1>1, <2>1
  <2>2. ASSUME Fail(b), UNCHANGED terminated PROVE Kept
    <3>1. failed' = [failed EXCEPT ![b] = TRUE] /\ pc' = [pc EXCEPT ![b] = "done"]
      BY <2>2 DEF Fail
    <3>2. "done" \in Gone
      BY DEF Gone
    <3> QED
      BY <1>1, <2>2, <3>1, <3>2
  <2>3. CASE BlockStart(b)
    BY <2>1, <2>2, <2>3 DEF BlockStart, Running, Gone, mainVars
  <2>4. CASE BlockSetup(b)
    BY <1>2, <2>1, <2>2, <2>4 DEF BlockSetup, Running, Gone, mainVars
  <2>5. CASE BlockReceive(b)
    BY <1>2, <2>2, <2>5 DEF BlockReceive, mainVars
  <2>6. CASE BlockDrained(b)
    BY <2>1, <2>6 DEF BlockDrained, Running, Gone, mainVars
  <2>7. CASE BlockTimer(b)
    BY <2>1, <2>7 DEF BlockTimer, Running, Gone, mainVars
  <2>8. CASE BlockWork(b)
    BY <2>1, <2>2, <2>8 DEF BlockWork, Running, Gone, mainVars
  <2>9. CASE BlockDeinit(b)
    BY <2>1, <2>2, <2>9 DEF BlockDeinit, Running, Gone, mainVars
  <2>10. CASE BlockSend(b)
    BY <1>2, <2>2, <2>10 DEF BlockSend, mainVars
  <2> QED
    BY <1>3, <2>3, <2>4, <2>5, <2>6, <2>7, <2>8, <2>9, <2>10 DEF BlockNext
<1>4. ASSUME MainNext PROVE Kept
  BY <1>2, <1>4 DEF MainNext, MainSend, MainInitSent, MainWaitInit, MainNotifyAll, MainRequeue,
     MainStarted, MainReturn, MainLoop, MainAnswer, blockVars
<1>5. ASSUME NEW d \in Clients, ClientNext(d) PROVE Kept
  BY <1>2, <1>5 DEF ClientNext, ClientAsk, ClientFlushed, blockVars, mainVars
<1>6. ASSUME Quiet \/ UNCHANGED vars PROVE Kept
  BY <1>2, <1>6 DEF Quiet, vars, blockVars, mainVars
<1>7. Kept
  BY <1>3, <1>4, <1>5, <1>6 DEF Next
<1> QED
  BY <1>1, <1>7 DEF Undisturbed

\* A block that fails has failed.
LEMMA Failing ==
  ASSUME IndInv, NEW b \in Blocks, Fail(b)
  PROVE  failed'[b]
BY DEF Fail, IndInv, TypeInv

\* A step of block b's task that leaves the other tasks alone.
Turn(b) ==
    /\ \A c \in Blocks : c # b => /\ pc'[c] = pc[c] /\ outbox'[c] = outbox[c]
                                  /\ io'[c] = io[c] /\ infin'[c] = infin[c] /\ k'[c] = k[c]
    /\ UNCHANGED <<fg, mainout>>

\* Block b takes the first message of its inbox.
TakesOne(b) ==
    /\ inbox[b].queue # <<>> /\ inbox'[b].queue = Tail(inbox[b].queue)
    /\ \A c \in Blocks : c # b => inbox'[c] = inbox[c]

\* A message is taken from the inbox.
LEMMA Taking ==
  ASSUME PostInv, NEW b \in Blocks, Take(b)
  PROVE  TakesOne(b)
BY DEF PostInv, Boxes, Take, TakesOne, Pop

\* BlockStart of a block that does not fail.
LEMMA Starts ==
  ASSUME IndInv, TypesInv, NEW b \in Blocks, BlockStart(b), ~failed'[b]
  PROVE  /\ Turn(b) /\ UNCHANGED <<inbox, avail>>
         /\ pc[b] = "start" /\ pc'[b] = "setup" /\ outbox[b] = <<>> /\ outbox'[b] = <<>>
         /\ io'[b] = io[b] /\ infin'[b] = infin[b] /\ k'[b] = k[b]
<1>1. /\ UNCHANGED <<fg, mainout, inbox, avail, io, infin, k>> /\ pc[b] = "start"
      /\ pc' = [pc EXCEPT ![b] = "setup"] /\ UNCHANGED outbox /\ outbox[b] = <<>>
  BY Failing DEF BlockStart, Running, mainVars
<1>2. pc \in [Blocks -> Pcs]
  BY DEF IndInv, TypeInv
<1> QED
  BY <1>1, <1>2 DEF Turn

\* BlockSetup of a block that does not fail.
LEMMA SetsUp ==
  ASSUME IndInv, TypesInv, NEW b \in Blocks, BlockSetup(b), ~failed'[b]
  PROVE  /\ Turn(b) /\ UNCHANGED avail /\ TakesOne(b)
         /\ pc[b] = "setup" /\ outbox[b] = <<>>
         /\ io'[b] = io[b] /\ infin'[b] = infin[b] /\ k'[b] = k[b]
         /\ \/ pc'[b] = "setup" /\ outbox'[b] = <<>>
            \/ /\ pc'[b] = "loop" /\ Head(inbox[b].queue) = "Initialize"
               /\ outbox'[b] = (IF InitPost[b] = "none" THEN <<>> ELSE Posts(b, 1, InitPost[b]))
                                 \o <<SendToMain("Initialized", b)>>
<1>1. /\ UNCHANGED <<fg, mainout, avail, io, infin, k>> /\ pc[b] = "setup" /\ outbox[b] = <<>>
      /\ Take(b)
  BY DEF BlockSetup, Running, mainVars
<1>2. pc \in [Blocks -> Pcs] /\ outbox \in [Blocks -> Seq(Sends)]
  BY DEF IndInv, TypeInv
<1>3. \/ UNCHANGED <<pc, outbox>>
      \/ /\ pc' = [pc EXCEPT ![b] = "loop"] /\ Head(inbox[b].queue) = "Initialize"
         /\ outbox' = [outbox EXCEPT ![b] =
                          (IF InitPost[b] = "none" THEN <<>> ELSE Posts(b, 1, InitPost[b]))
                            \o <<SendToMain("Initialized", b)>>]
  BY Failing, Zenon DEF BlockSetup, Message
<1>4. TakesOne(b)
  BY <1>1, Taking DEF TypesInv
<1>5. CASE UNCHANGED <<pc, outbox>>
  BY <1>1, <1>4, <1>5 DEF Turn
<1>6. ASSUME NEW s, pc' = [pc EXCEPT ![b] = "loop"], outbox' = [outbox EXCEPT ![b] = s]
      PROVE  Turn(b) /\ pc'[b] = "loop" /\ outbox'[b] = s
  BY <1>1, <1>2, <1>6 DEF Turn
<1> QED
  BY <1>1, <1>3, <1>4, <1>5, <1>6, Zenon

\* What the call of a handler does, if the message m is for one.
Reaction(b, m) ==
    IF m \in {"Call", "CallFinished", "Callback"} THEN Handler(b, m = "CallFinished") ELSE Idle(k[b])

\* BlockReceive of a block that does not fail.
LEMMA Receives ==
  ASSUME IndInv, TypesInv, NEW b \in Blocks, BlockReceive(b), ~failed'[b],
         NEW m, m = Head(inbox[b].queue), NEW h,
         h = Reaction(b, m)
  PROVE  /\ Turn(b) /\ UNCHANGED <<pc, avail>> /\ TakesOne(b)
         /\ pc[b] = "loop" /\ outbox[b] = <<>>
         /\ io'[b].finished = (io[b].finished \/ h.fin \/ Stops(m))
         /\ infin'[b] = (infin[b] \/ m = "StreamInputDone")
         /\ k'[b] = h.k
         /\ outbox'[b] = Posts(b, h.posts, "Call") \o Answers(b, m)
<1>1. /\ UNCHANGED <<fg, mainout, avail>> /\ pc[b] = "loop" /\ outbox[b] = <<>> /\ Take(b)
  BY DEF BlockReceive, Running, mainVars
<1>2. /\ pc \in [Blocks -> Pcs] /\ outbox \in [Blocks -> Seq(Sends)]
      /\ io \in [Blocks -> Ios] /\ infin \in [Blocks -> BOOLEAN] /\ k \in [Blocks -> Nat]
  BY DEF IndInv, TypeInv, TypesInv, KernelInv
<1>3. /\ io' = [io EXCEPT ![b].again = TRUE, ![b].finished = @ \/ h.fin \/ Stops(m)]
      /\ infin' = [infin EXCEPT ![b] = @ \/ m = "StreamInputDone"]
      /\ k' = [k EXCEPT ![b] = h.k]
      /\ outbox' = [outbox EXCEPT ![b] = Posts(b, h.posts, "Call") \o Answers(b, m)]
      /\ UNCHANGED pc
  BY Failing, Zenon DEF BlockReceive, Message, Reaction
<1>4. TakesOne(b)
  BY <1>1, Taking DEF TypesInv
<1>5. PICK s : s = Posts(b, h.posts, "Call") \o Answers(b, m)
  OBVIOUS
<1>6. outbox'[b] = s /\ \A c \in Blocks : c # b => outbox'[c] = outbox[c]
  BY <1>2, <1>3, <1>5
<1>7. /\ io'[b].finished = (io[b].finished \/ h.fin \/ Stops(m))
      /\ \A c \in Blocks : c # b => io'[c] = io[c]
  BY <1>2, <1>3 DEF Ios
<1>8. /\ infin'[b] = (infin[b] \/ m = "StreamInputDone") /\ k'[b] = h.k
      /\ \A c \in Blocks : c # b => infin'[c] = infin[c] /\ k'[c] = k[c]
  BY <1>2, <1>3
<1>9. Turn(b)
  BY <1>1, <1>3, <1>6, <1>7, <1>8 DEF Turn
<1> QED
  BY <1>1, <1>3, <1>4, <1>5, <1>6, <1>7, <1>8, <1>9, Zenon

\* BlockDrained and BlockTimer: the block shuts down, or works.
LEMMA Drains ==
  ASSUME IndInv, TypesInv, NEW b \in Blocks, BlockDrained(b) \/ BlockTimer(b)
  PROVE  /\ Turn(b) /\ UNCHANGED <<inbox, avail>> /\ pc[b] = "loop" /\ inbox[b].queue = <<>>
         /\ outbox[b] = <<>>
         /\ io'[b].finished = io[b].finished /\ infin'[b] = infin[b] /\ k'[b] = k[b]
         /\ \/ io[b].finished /\ pc'[b] = "shutdown" /\ outbox'[b] = Farewells(b)
            \/ ~io[b].finished /\ pc'[b] = "work" /\ outbox'[b] = <<>>
<1>1. /\ UNCHANGED <<fg, mainout, inbox, avail, infin, k>> /\ pc[b] = "loop" /\ outbox[b] = <<>>
      /\ inbox[b].queue = <<>>
  BY DEF BlockDrained, BlockTimer, Running, mainVars
<1>2. /\ pc \in [Blocks -> Pcs] /\ outbox \in [Blocks -> Seq(Sends)] /\ io \in [Blocks -> Ios]
  BY DEF IndInv, TypeInv, TypesInv, KernelInv
<1>3. PICK s : s = Farewells(b)
  OBVIOUS
<1>4. CASE io[b].finished /\ BlockDrained(b)
  <2>1. /\ pc' = [pc EXCEPT ![b] = "shutdown"] /\ UNCHANGED io
        /\ outbox' = [outbox EXCEPT ![b] = s]
    BY <1>3, <1>4, Zenon DEF BlockDrained
  <2>2. /\ pc'[b] = "shutdown" /\ outbox'[b] = s
        /\ \A c \in Blocks : c # b => pc'[c] = pc[c] /\ outbox'[c] = outbox[c]
    BY <1>2, <2>1
  <2> QED
    BY <1>1, <1>3, <1>4, <2>1, <2>2 DEF Turn
<1>5. CASE ~(io[b].finished /\ BlockDrained(b))
  <2>1. /\ pc' = [pc EXCEPT ![b] = "work"] /\ UNCHANGED outbox /\ ~io[b].finished
        /\ \/ io' = [io EXCEPT ![b].again = FALSE]
           \/ io' = [io EXCEPT ![b].timer = "fired"]
    BY <1>5 DEF BlockDrained, BlockTimer
  <2>2. /\ pc'[b] = "work" /\ io'[b].finished = io[b].finished
        /\ \A c \in Blocks : c # b => pc'[c] = pc[c] /\ io'[c] = io[c]
    BY <1>2, <2>1 DEF Ios
  <2> QED
    BY <1>1, <2>1, <2>2 DEF Turn
<1> QED
  BY <1>4, <1>5

\* BlockWork of a block that does not fail.
LEMMA Works ==
  ASSUME IndInv, TypesInv, NEW b \in Blocks, BlockWork(b), ~failed'[b]
  PROVE  /\ Turn(b) /\ pc[b] = "work" /\ pc'[b] = "loop" /\ outbox[b] = <<>>
         /\ infin'[b] = infin[b]
         /\ \E r \in Outcomes(b) :
              /\ k'[b] = r.k /\ avail' = Moved(b, r) /\ inbox' = Notified(b, r)
              /\ io'[b].finished = (io[b].finished \/ r.fin)
              /\ outbox'[b] = Posts(b, r.posts, "Call")
<1>1. UNCHANGED <<fg, mainout, infin>> /\ pc[b] = "work" /\ outbox[b] = <<>>
  BY DEF BlockWork, Running, mainVars
<1>2. /\ pc \in [Blocks -> Pcs] /\ outbox \in [Blocks -> Seq(Sends)]
      /\ io \in [Blocks -> Ios] /\ k \in [Blocks -> Nat]
  BY DEF IndInv, TypeInv, TypesInv, KernelInv
<1>3. /\ pc' = [pc EXCEPT ![b] = "loop"]
      /\ \E r \in Outcomes(b) :
           /\ k' = [k EXCEPT ![b] = r.k] /\ avail' = Moved(b, r) /\ inbox' = Notified(b, r)
           /\ io' = [io EXCEPT ![b].finished = @ \/ r.fin,
                               ![b].timer = IF r.timer \/ @ = "armed" THEN "armed" ELSE "none"]
           /\ outbox' = [outbox EXCEPT ![b] = Posts(b, r.posts, "Call")]
  BY Failing, Zenon DEF BlockWork
<1>4. PICK r \in Outcomes(b) :
           /\ k' = [k EXCEPT ![b] = r.k] /\ avail' = Moved(b, r) /\ inbox' = Notified(b, r)
           /\ io' = [io EXCEPT ![b].finished = @ \/ r.fin,
                               ![b].timer = IF r.timer \/ @ = "armed" THEN "armed" ELSE "none"]
           /\ outbox' = [outbox EXCEPT ![b] = Posts(b, r.posts, "Call")]
  BY <1>3, Zenon
<1>5. PICK s : s = Posts(b, r.posts, "Call")
  OBVIOUS
<1>6. /\ outbox'[b] = s /\ pc'[b] = "loop" /\ k'[b] = r.k
      /\ \A c \in Blocks : c # b => outbox'[c] = outbox[c] /\ pc'[c] = pc[c] /\ k'[c] = k[c]
  BY <1>2, <1>3, <1>4, <1>5
<1>7. /\ io'[b].finished = (io[b].finished \/ r.fin)
      /\ \A c \in Blocks : c # b => io'[c] = io[c]
  BY <1>2, <1>4 DEF Ios
<1>8. Turn(b) /\ infin'[b] = infin[b]
  BY <1>1, <1>6, <1>7 DEF Turn
<1>9. /\ k'[b] = r.k /\ avail' = Moved(b, r) /\ inbox' = Notified(b, r)
      /\ io'[b].finished = (io[b].finished \/ r.fin)
      /\ outbox'[b] = Posts(b, r.posts, "Call")
  BY <1>4, <1>5, <1>6, <1>7
<1> QED
  BY <1>1, <1>6, <1>8, <1>9, Zenon

\* BlockDeinit of a block that does not fail.
LEMMA Deinits ==
  ASSUME IndInv, TypesInv, NEW b \in Blocks, BlockDeinit(b), ~failed'[b]
  PROVE  /\ Turn(b) /\ UNCHANGED <<inbox, avail>> /\ pc[b] = "shutdown" /\ pc'[b] = "done"
         /\ io'[b] = io[b] /\ infin'[b] = infin[b] /\ k'[b] = k[b]
         /\ outbox'[b] = <<SendToMain("BlockDone", b)>>
<1>1. /\ UNCHANGED <<fg, mainout, inbox, avail, io, infin, k>> /\ pc[b] = "shutdown"
      /\ pc' = [pc EXCEPT ![b] = "done"]
      /\ outbox' = [outbox EXCEPT ![b] = <<SendToMain("BlockDone", b)>>]
  BY Failing DEF BlockDeinit, Running, mainVars
<1>2. pc \in [Blocks -> Pcs] /\ outbox \in [Blocks -> Seq(Sends)]
  BY DEF IndInv, TypeInv
<1>3. PICK s : s = <<SendToMain("BlockDone", b)>>
  OBVIOUS
<1>4. /\ pc'[b] = "done" /\ outbox'[b] = s
      /\ \A c \in Blocks : c # b => pc'[c] = pc[c] /\ outbox'[c] = outbox[c]
  BY <1>1, <1>2, <1>3
<1> QED
  BY <1>1, <1>3, <1>4 DEF Turn

\* BlockSend of a block that does not fail: the message is put into an inbox, or
\* the inboxes of the blocks stay as they are.
LEMMA SendMoves ==
  ASSUME IndInv, TypesInv, NEW b \in Blocks, BlockSend(b), ~failed'[b], NEW e, e = Head(outbox[b])
  PROVE  /\ Turn(b) /\ UNCHANGED <<pc, io, infin, k, avail, deferred>>
         /\ outbox[b] # <<>>
         /\ outbox'[b] = Tail(outbox[b]) \/ outbox'[b] = Marked(outbox[b])
         /\ \/ UNCHANGED inbox /\ (e.to \in Blocks => e.pushed /\ outbox'[b] = Tail(outbox[b]))
            \/ /\ e.to \in Blocks /\ ~e.pushed
               /\ inbox'[e.to].queue = Append(inbox[e.to].queue, e.msg)
               /\ \A c \in Blocks : c # e.to => inbox'[c] = inbox[c]
         /\ \/ UNCHANGED mainbox
            \/ e.to = Main /\ mainbox'.queue = Append(mainbox.queue, e.msg)
<1>1. /\ UNCHANGED <<fg, mainout, io, infin, k, avail, deferred>> /\ fg \in Flowgraphs
      /\ outbox[b] # <<>>
  BY DEF BlockSend, mainVars, IndInv, TypeInv
<1>2. N \in Nat /\ 0 # N + 1 /\ Main = 0 /\ Main \notin Blocks /\ N + 1 \notin Blocks
  BY <1>1, BlocksFinite DEF Main, Blocks
<1>3. outbox \in [Blocks -> Seq(Sends)] /\ DOMAIN inbox = Blocks
  BY DEF IndInv, TypeInv, TypesInv, PostInv, Boxes
<1>4. ~Fail(b)
  BY Failing
<1>5. UNCHANGED pc
  BY <1>4, Zenon DEF BlockSend
<1> DEFINE tail == Tail(outbox[b])
           marked == Marked(outbox[b])
           Becomes(s) == outbox' = [outbox EXCEPT ![b] = s]
<1>6. Becomes(tail) \/ Becomes(marked)
  <2>1. \/ Becomes(tail)
        \/ Becomes(IF IsParked(mainbox', e.via) THEN marked ELSE tail)
        \/ Becomes(IF IsParked(inbox'[e.to], e.via) THEN marked ELSE tail)
    BY <1>4, Zenon DEF BlockSend, Marked
  <2>2. CASE IsParked(mainbox', e.via) /\ IsParked(inbox'[e.to], e.via)
    BY <2>1, <2>2, Zenon
  <2>3. CASE IsParked(mainbox', e.via) /\ ~IsParked(inbox'[e.to], e.via)
    BY <2>1, <2>3, Zenon
  <2>4. CASE ~IsParked(mainbox', e.via) /\ IsParked(inbox'[e.to], e.via)
    BY <2>1, <2>4, Zenon
  <2>5. CASE ~IsParked(mainbox', e.via) /\ ~IsParked(inbox'[e.to], e.via)
    BY <2>1, <2>5, Zenon
  <2> QED
    BY <2>2, <2>3, <2>4, <2>5, Zenon
<1>7. /\ outbox'[b] = tail \/ outbox'[b] = marked
      /\ \A c \in Blocks : c # b => outbox'[c] = outbox[c]
      /\ Becomes(tail) => outbox'[b] = tail
  BY <1>3, <1>6
<1>8. \/ UNCHANGED inbox /\ (e.to \in Blocks => e.pushed /\ outbox'[b] = tail)
      \/ /\ e.to \in Blocks /\ ~e.pushed
         /\ inbox'[e.to].queue = Append(inbox[e.to].queue, e.msg)
         /\ \A c \in Blocks : c # e.to => inbox'[c] = inbox[c]
  <2>1. CASE e.to \notin Blocks
    BY <1>2, <2>1, Zenon DEF BlockSend
  <2>2. CASE e.to \in Blocks
    <3>1. e.to # Main /\ e.to # N + 1
      BY <1>2, <2>2
    <3>2. \/ UNCHANGED inbox /\ e.pushed /\ Becomes(tail)
          \/ ~e.pushed /\ inbox' = [inbox EXCEPT ![e.to] = Push(inbox[e.to], e.via, e.msg, QueueSize)]
      BY <2>2, <3>1, Zenon DEF BlockSend
    <3>3. CASE UNCHANGED inbox /\ e.pushed /\ Becomes(tail)
      BY <1>7, <3>3
    <3>4. CASE ~e.pushed /\ inbox' = [inbox EXCEPT ![e.to] = Push(inbox[e.to], e.via, e.msg, QueueSize)]
      <4>1. /\ inbox'[e.to] = Push(inbox[e.to], e.via, e.msg, QueueSize)
            /\ \A c \in Blocks : c # e.to => inbox'[c] = inbox[c]
        BY <1>3, <2>2, <3>4
      <4>2. \A ch, v, m, q : Push(ch, v, m, q).queue = Append(ch.queue, m)
        BY DEF Push
      <4>3. inbox'[e.to].queue = Append(inbox[e.to].queue, e.msg)
        BY <4>1, <4>2
      <4> QED
        BY <2>2, <3>4, <4>1, <4>3
    <3> QED
      BY <3>2, <3>3, <3>4
  <2> QED
    BY <2>1, <2>2
<1>9. \/ UNCHANGED mainbox
      \/ e.to = Main /\ mainbox'.queue = Append(mainbox.queue, e.msg)
  <2>1. \/ UNCHANGED mainbox
        \/ e.to = Main /\ mainbox' = Push(mainbox, e.via, e.msg, QueueSize)
    <3>1. CASE e.to = Main
      BY <3>1, Zenon DEF BlockSend
    <3>2. CASE e.to # Main
      BY <3>2, Zenon DEF BlockSend
    <3> QED
      BY <3>1, <3>2
  <2> QED
    BY <2>1 DEF Push
<1>10. Turn(b)
  BY <1>1, <1>5, <1>7 DEF Turn
<1> QED
  BY <1>1, <1>5, <1>7, <1>8, <1>9, <1>10

\* MainSend
LEMMA MainSendMoves ==
  ASSUME IndInv, TypesInv, MainSend, NEW e, e = Head(mainout)
  PROVE  /\ UNCHANGED <<blockVars, deferred>> /\ mainout # <<>>
         /\ mainout' = Tail(mainout) \/ mainout' = Marked(mainout)
         /\ \/ UNCHANGED inbox
            \/ /\ e.to # Main
               /\ e.to \in Blocks => inbox'[e.to].queue = Append(inbox[e.to].queue, e.msg)
               /\ \A c \in Blocks : c # e.to => inbox'[c] = inbox[c]
         /\ \/ UNCHANGED mainbox
            \/ e.to = Main /\ mainbox'.queue = Append(mainbox.queue, e.msg)
<1>1. UNCHANGED <<blockVars, deferred>> /\ mainout # <<>> /\ DOMAIN inbox = Blocks
  BY DEF MainSend, TypesInv, PostInv, Boxes
<1>2. \/ mainout' = Tail(mainout)
      \/ mainout' = IF IsParked(mainbox', e.via) THEN Marked(mainout) ELSE Tail(mainout)
      \/ mainout' = IF IsParked(inbox'[e.to], e.via) THEN Marked(mainout) ELSE Tail(mainout)
  BY Zenon DEF MainSend, Marked
<1>3. \/ UNCHANGED inbox
      \/ /\ e.to # Main
         /\ inbox' = [inbox EXCEPT ![e.to] = Push(inbox[e.to], e.via, e.msg, QueueSize)]
  <2>1. CASE e.to = Main
    BY <2>1, Zenon DEF MainSend
  <2>2. CASE e.to # Main
    BY <2>2, Zenon DEF MainSend
  <2> QED
    BY <2>1, <2>2
<1>4. \/ UNCHANGED mainbox
      \/ e.to = Main /\ mainbox' = Push(mainbox, e.via, e.msg, QueueSize)
  <2>1. CASE e.to = Main
    BY <2>1, Zenon DEF MainSend
  <2>2. CASE e.to # Main
    BY <2>2, Zenon DEF MainSend
  <2> QED
    BY <2>1, <2>2
<1>5. \/ UNCHANGED inbox
      \/ /\ e.to # Main
         /\ e.to \in Blocks => inbox'[e.to].queue = Append(inbox[e.to].queue, e.msg)
         /\ \A c \in Blocks : c # e.to => inbox'[c] = inbox[c]
  <2>1. CASE /\ e.to # Main
             /\ inbox' = [inbox EXCEPT ![e.to] = Push(inbox[e.to], e.via, e.msg, QueueSize)]
    <3>1. /\ e.to \in Blocks => inbox'[e.to] = Push(inbox[e.to], e.via, e.msg, QueueSize)
          /\ \A c \in Blocks : c # e.to => inbox'[c] = inbox[c]
      BY <1>1, <2>1
    <3> QED
      BY <2>1, <3>1 DEF Push
  <2> QED
    BY <1>3, <2>1
<1>6. \/ UNCHANGED mainbox
      \/ e.to = Main /\ mainbox'.queue = Append(mainbox.queue, e.msg)
  BY <1>4 DEF Push
<1>7. mainout' = Tail(mainout) \/ mainout' = Marked(mainout)
  BY <1>2
<1> QED
  BY <1>1, <1>5, <1>6, <1>7

\* The other steps are none of the blocks' business, until something is sent.
LEMMA Elsewhere ==
  ASSUME [Next]_vars, ~MainSend, \A b \in Blocks : ~BlockNext(b)
  PROVE  /\ UNCHANGED <<blockVars, inbox>>
         /\ \/ mainout' = mainout \/ mainout' = <<>> \/ mainout' = ToAll("Notify") \/ terminated'
            \/ mainout' = <<Send(Main, FromMain, ToMain("Terminate", 0))>>
            \/ \E x : mainout' = <<Send(x, FromMain, "BlockDescription")>>
            \/ \E x, msg : /\ msg \in {"Call", "Callback"}
                           /\ mainout' = <<Send(x, FromMain, msg)>>
                           /\ mainbox.queue # <<>>
                           /\ Head(mainbox.queue).type \in {"BlockCall", "BlockCallback"}
<1>1. ASSUME MainNext PROVE UNCHANGED <<blockVars, inbox>>
  BY <1>1 DEF MainNext, MainInitSent, MainWaitInit, MainNotifyAll, MainRequeue, MainStarted,
              MainReturn, MainLoop, MainAnswer
<1>2. CASE MainInitSent \/ MainWaitInit \/ MainRequeue \/ MainStarted \/ MainReturn \/ MainNotifyAll
  <2>1. MainNext
    BY <1>2 DEF MainNext
  <2>2. mainout' = mainout \/ mainout' = ToAll("Notify")
    BY <1>2 DEF MainInitSent, MainWaitInit, MainRequeue, MainStarted, MainReturn, MainNotifyAll
  <2> QED
    BY <1>1, <2>1, <2>2
<1>3. CASE MainLoop
  <2>1. MainNext
    BY <1>3 DEF MainNext
  <2>2. PICK m : m = MainMessage
    OBVIOUS
  <2>3. PICK msg : msg = CASE m.type = "BlockCall" -> "Call"
                           [] m.type = "BlockCallback" -> "Callback"
                           [] OTHER -> "BlockDescription"
    OBVIOUS
  <2>4. \/ mainout' = mainout
        \/ /\ m.type \in {"BlockCall", "BlockCallback", "BlockDescription"}
           /\ mainout' = <<Send(m.block, FromMain, msg)>>
        \/ mainout' = <<Send(1, FromMain, "BlockDescription")>>
        \/ mainout' = <<Send(Main, FromMain, ToMain("Terminate", 0))>>
        \/ terminated'
    BY <1>3, <2>2, <2>3, Zenon DEF MainLoop
  <2>5. \/ msg = "BlockDescription"
        \/ msg \in {"Call", "Callback"} /\ m.type \in {"BlockCall", "BlockCallback"}
    BY <2>3
  <2>6. mainbox.queue # <<>> /\ m = Head(mainbox.queue)
    BY <1>3, <2>2 DEF MainLoop, MainTake, MainMessage
  <2>7. PICK x : x = m.block
    OBVIOUS
  <2>8. CASE mainout' = <<Send(m.block, FromMain, msg)>>
    BY <1>1, <2>1, <2>5, <2>6, <2>7, <2>8
  <2> QED
    BY <1>1, <2>1, <2>4, <2>8
<1>4. CASE MainAnswer
  <2>1. MainNext
    BY <1>4 DEF MainNext
  <2>2. PICK x : x = Head(job.rest)
    OBVIOUS
  <2>3. mainout' = mainout \/ mainout' = <<Send(x, FromMain, "BlockDescription")>>
    BY <1>4, <2>2 DEF MainAnswer
  <2> QED
    BY <1>1, <2>1, <2>3
<1>5. ASSUME NEW d \in Clients, ClientNext(d) PROVE UNCHANGED <<blockVars, inbox, mainout>>
  BY <1>5 DEF ClientNext, ClientAsk, ClientFlushed, mainVars
<1>6. CASE Quiet \/ UNCHANGED vars
  BY <1>6 DEF Quiet, vars, mainVars
<1> QED
  BY <1>2, <1>3, <1>4, <1>5, <1>6 DEF Next, MainNext

-----------------------------------------------------------------------------
(* What the blocks send                                                    *)

\* The place of a message in its round.
LEMMA Modulo ==
  ASSUME NEW n \in Nat, NEW d \in Nat
  PROVE  n * d \in Nat /\ \A i \in 1..(n * d) : d # 0 /\ ((i - 1) % d) + 1 \in 1..d
<1>1. n * d \in Nat
  BY SMT
<1>2. ASSUME NEW i \in 1..(n * d) PROVE d # 0 /\ ((i - 1) % d) + 1 \in 1..d
  <2>1. d # 0
    BY SMT
  <2>2. i - 1 \in Nat
    BY <1>1, SMT
  <2>3. (i - 1) % d \in 0..(d - 1)
    BY <2>1, <2>2, SMT
  <2> QED
    BY <2>1, <2>3, SMT
<1> QED
  BY <1>1, <1>2

\* The outbox s holds n messages for each of the blocks in out, in turn.
Spread(s, n, out, msg) ==
    /\ Len(s) = n * Len(out)
    /\ \A i \in 1..(n * Len(out)) :
          /\ Len(out) # 0 /\ ((i - 1) % Len(out)) + 1 \in 1..Len(out)
          /\ s[i].to = out[((i - 1) % Len(out)) + 1]
          /\ s[i].msg = msg /\ ~s[i].pushed

\* mio.post(): n messages for every block that is connected.
LEMMA PostsAre ==
  ASSUME fg \in Flowgraphs, NEW b \in Blocks, NEW n \in Nat, NEW msg \in BlockMsgs
  PROVE  /\ MsgOut[b] \in Seq(Blocks) /\ Posts(b, n, msg) \in Seq(Sends)
         /\ Spread(Posts(b, n, msg), n, MsgOut[b], msg)
<1> PICK out : out = MsgOut[b]
  OBVIOUS
<1> PICK d : d = Len(out)
  OBVIOUS
<1> PICK s : s = Posts(b, n, msg)
  OBVIOUS
<1>1. WellFormed(fg) /\ N \in Nat
  BY RuntimeAssumption, BlocksFinite
<1>2. out \in Seq(Blocks)
  BY <1>1 DEF WellFormed, Blocks, N, Kind, MsgOut
<1>3. d \in Nat
  BY <1>2, LenProperties
<1>4. n * d \in Nat
  BY <1>3, SMT
<1>5. s \in Seq(Sends)
  BY PostsAway
<1>6. s = [i \in 1..(n * d) |-> Send(out[((i - 1) % d) + 1], <<"msg", b>>, msg)]
  BY DEF Posts
<1>7. Len(s) = n * d
  <2>1. DOMAIN s = 1..(n * d)
    BY <1>6
  <2> QED
    BY <1>4, <1>5, <2>1, LenProperties, SMT
<1>8. \A i \in 1..(n * d) : d # 0 /\ ((i - 1) % d) + 1 \in 1..d
  BY <1>3, Modulo
<1>9. \A i \in 1..(n * d) : /\ s[i].to = out[((i - 1) % d) + 1]
                            /\ s[i].msg = msg /\ ~s[i].pushed
  BY <1>6 DEF Send
<1> QED
  BY <1>2, <1>5, <1>7, <1>8, <1>9 DEF Spread

\* What a block sends when it shuts down.
LEMMA FarewellsAre ==
  ASSUME fg \in Flowgraphs, NEW b \in Blocks, Linked(fg, b),
         NEW out, out = MsgOut[b], NEW s, s = Farewells(b)
  PROVE  /\ s \in Seq(Sends)
         /\ \A i \in 1..Len(s) :
              \/ HasInput(b) /\ s[i].to = Up(b) /\ s[i].msg = "StreamOutputDone"
              \/ HasOutput(b) /\ s[i].to = Down[b] /\ s[i].msg = "StreamInputDone"
              \/ s[i].msg = "CallFinished" /\ \E j \in 1..Len(out) : s[i].to = out[j]
<1>1. s \in Seq(Sends)
  BY FarewellsAway
<1>2. PICK x : x = Up(b)
  OBVIOUS
<1>3. PICK y : y = Down[b]
  OBVIOUS
<1>6. PICK u : u = IF HasInput(b) THEN <<Send(x, <<"outdone", b>>, "StreamOutputDone")>> ELSE <<>>
  OBVIOUS
<1>7. PICK v : v = IF HasOutput(b) THEN <<Send(y, <<"indone", b>>, "StreamInputDone")>> ELSE <<>>
  OBVIOUS
<1>8. PICK p : p = Posts(b, 1, "CallFinished")
  OBVIOUS
<1>9. s = (u \o v) \o p
  BY <1>2, <1>3, <1>6, <1>7, <1>8 DEF Farewells
<1>10. /\ u \in Seq(Sends) /\ v \in Seq(Sends) /\ p \in Seq(Sends)
  <2>1. b \in Nat /\ N \in Nat /\ WellFormed(fg)
    BY BlocksFinite, RuntimeAssumption
  <2>2. ASSUME NEW z \in Blocks, NEW where \in {"indone", "outdone"}, NEW msg \in BlockMsgs
        PROVE  <<Send(z, <<where, b>>, msg)>> \in Seq(Sends)
    <3>1. z \in Nat \ {0}
      BY BlocksFinite
    <3>2. Send(z, <<where, b>>, msg) \in Letters
      BY <2>1, <3>1 DEF Send, Letters, Vias
    <3> QED
      BY <3>2, AwayOne
  <2>3. HasInput(b) => x \in Blocks
    BY <1>2, UpIsBlock
  <2>4. HasOutput(b) => y \in Blocks
    BY <1>3, <2>1 DEF Linked, HasOutput, StreamOutputs, Kind, Down, WellFormed, Blocks, N
  <2>5. "StreamOutputDone" \in BlockMsgs /\ "StreamInputDone" \in BlockMsgs
        /\ "CallFinished" \in BlockMsgs /\ 1 \in Nat
    BY DEF BlockMsgs
  <2>6. u \in Seq(Sends)
    <3>1. CASE HasInput(b)
      BY <1>6, <2>2, <2>3, <2>5, <3>1
    <3> QED
      BY <1>6, <3>1, AwayNone
  <2>7. v \in Seq(Sends)
    <3>1. CASE HasOutput(b)
      BY <1>7, <2>2, <2>4, <2>5, <3>1
    <3> QED
      BY <1>7, <3>1, AwayNone
  <2> QED
    BY <1>8, <2>5, <2>6, <2>7, PostsAway
<1>11. \A i \in 1..Len(u) : HasInput(b) /\ u[i].to = x /\ u[i].msg = "StreamOutputDone"
  BY <1>6 DEF Send
<1>12. \A i \in 1..Len(v) : HasOutput(b) /\ v[i].to = y /\ v[i].msg = "StreamInputDone"
  BY <1>7 DEF Send
<1>13. \A i \in 1..Len(p) : p[i].msg = "CallFinished" /\ \E j \in 1..Len(out) : p[i].to = out[j]
  <2>1. "CallFinished" \in BlockMsgs /\ 1 \in Nat
    BY DEF BlockMsgs
  <2>2. Spread(p, 1, out, "CallFinished")
    BY <1>8, <2>1, PostsAre
  <2> QED
    BY <2>2 DEF Spread
<1>14. ASSUME NEW i \in 1..Len(s)
       PROVE  \/ \E j \in 1..Len(u) : s[i] = u[j]
              \/ \E j \in 1..Len(v) : s[i] = v[j]
              \/ \E j \in 1..Len(p) : s[i] = p[j]
  <2>1. PICK uv : uv = u \o v
    OBVIOUS
  <2>2. s = uv \o p /\ uv \in Seq(Sends)
    BY <1>9, <1>10, <2>1, AwayConcat
  <2>3. \A j \in 1..Len(uv) : \/ \E l \in 1..Len(u) : uv[j] = u[l]
                              \/ \E l \in 1..Len(v) : uv[j] = v[l]
    <3>1. \A j \in 1..Len(uv) : \/ j \in 1..Len(u) /\ uv[j] = u[j]
                                \/ j - Len(u) \in 1..Len(v) /\ uv[j] = v[j - Len(u)]
      BY <1>10, <2>1
    <3> QED
      BY <3>1
  <2>4. \/ i \in 1..Len(uv) /\ s[i] = uv[i]
        \/ i - Len(uv) \in 1..Len(p) /\ s[i] = p[i - Len(uv)]
    BY <1>10, <2>1, <2>2
  <2> QED
    BY <2>3, <2>4
<1>15. ASSUME NEW i \in 1..Len(s)
       PROVE  \/ HasInput(b) /\ s[i].to = Up(b) /\ s[i].msg = "StreamOutputDone"
              \/ HasOutput(b) /\ s[i].to = Down[b] /\ s[i].msg = "StreamInputDone"
              \/ s[i].msg = "CallFinished" /\ \E j \in 1..Len(out) : s[i].to = out[j]
  <2>1. CASE \E j \in 1..Len(u) : s[i] = u[j]
    BY ONLY <1>2, <1>11, <2>1
  <2>2. CASE \E j \in 1..Len(v) : s[i] = v[j]
    BY ONLY <1>3, <1>12, <2>2
  <2>3. CASE \E j \in 1..Len(p) : s[i] = p[j]
    BY ONLY <1>13, <2>3
  <2> QED
    BY ONLY <1>14, <2>1, <2>2, <2>3
<1> QED
  BY ONLY <1>1, <1>15

\* What a handler posts and answers: the answers are for no block.
LEMMA AnswersAre ==
  ASSUME fg \in Flowgraphs, NEW b \in Blocks, NEW m, NEW u, u = Answers(b, m)
  PROVE  u \in Seq(Sends) /\ \A i \in 1..Len(u) : u[i].to = N + 1 /\ u[i].to \notin Blocks
<1>1. u = <<>> \/ u = <<Answer("ok")>> \/ u = <<Answer("err")>>
  BY DEF Answers
<1>2. N \in Nat
  BY BlocksFinite
<1>3. \A i \in 1..Len(u) : u[i].to = N + 1
  BY <1>1 DEF Answer
<1> QED
  BY <1>2, <1>3, AnswersAddressed DEF Blocks

-----------------------------------------------------------------------------
(* Every message is true                                                   *)

\* A step of block b's task.
LEMMA TurnMail ==
  ASSUME IndInv, IndInv', PhaseInv, TruthInv, NEW b \in Blocks, Turn(b),
         \A c \in Blocks : pc[c] \in Gone => pc'[c] \in Gone,
         pc'[b] = "work" => ~io'[b].finished, pc'[b] \in Gone => io'[b].finished,
         infin'[b] => \A u \in Blocks : Down[u] = b => pc[u] \in Gone,
         TruePost(fg, pc', outbox'[b]),
         \A c \in Blocks : TrueMail(fg, pc, inbox'[c].queue, c)
  PROVE  PhaseInv' /\ TruthInv'
<1>1. fg' = fg /\ mainout' = mainout /\ Blocks' = Blocks /\ Down' = Down
  BY DEF Turn, Blocks, N, Kind, Down
<1>2. DOMAIN pc = Blocks /\ DOMAIN pc' = Blocks
  BY <1>1 DEF IndInv, TypeInv
<1>3. PhaseInv'
  <2> SUFFICES ASSUME NEW c \in Blocks
               PROVE  /\ pc'[c] = "work" => ~io'[c].finished
                      /\ pc'[c] \in Gone => io'[c].finished
                      /\ infin'[c] => \A u \in Blocks : Down[u] = c => pc'[u] \in Gone
    BY <1>1 DEF PhaseInv
  <2>1. CASE c = b
    BY <2>1
  <2>2. CASE c # b
    BY <2>2 DEF PhaseInv, Turn
  <2> QED
    BY <2>1, <2>2
<1>4. TruthInv'
  <2>1. PICK P : P = pc
    OBVIOUS
  <2>2. PICK R : R = pc'
    OBVIOUS
  <2>3. /\ \A q, x : TrueMail(fg, P, q, x) => TrueMail(fg, R, q, x)
        /\ \A s : TruePost(fg, P, s) => TruePost(fg, R, s)
    BY <1>2, <2>1, <2>2, TruthStays
  <2>4. TruePost(fg, R, mainout)
    BY <2>1, <2>3 DEF TruthInv
  <2>5. ASSUME NEW c \in Blocks
        PROVE  TrueMail(fg, R, inbox'[c].queue, c) /\ TruePost(fg, R, outbox'[c])
    <3>1. TrueMail(fg, R, inbox'[c].queue, c)
      BY <2>1, <2>3
    <3>2. CASE c = b
      BY <2>2, <3>1, <3>2
    <3>3. CASE c # b
      <4>1. outbox'[c] = outbox[c] /\ TruePost(fg, P, outbox[c])
        BY <2>1, <3>3 DEF Turn, TruthInv
      <4> QED
        BY <2>3, <3>1, <4>1
    <3> QED
      BY <3>2, <3>3
  <2> QED
    BY <1>1, <2>2, <2>4, <2>5 DEF TruthInv
<1> QED
  BY <1>3, <1>4

\* What is not about a neighbour is true.
LEMMA PlainPosts ==
  ASSUME NEW g, NEW P, NEW s,
         \A i \in 1..Len(s) : s[i].to \in DOMAIN P =>
            s[i].msg \notin {"Terminate", "StreamInputDone", "StreamOutputDone"}
  PROVE  TruePost(g, P, s)
BY DEF TruePost, Truthful

\* mio.post(), and the answers behind it.
LEMMA PostsTrue ==
  ASSUME fg \in Flowgraphs, NEW b \in Blocks, NEW n \in Nat, NEW msg \in {"Call", "CallFinished"},
         NEW P, DOMAIN P = Blocks
  PROVE  /\ Posts(b, n, msg) \in Seq(Sends) /\ TruePost(fg, P, Posts(b, n, msg))
         /\ \A m : TruePost(fg, P, Posts(b, n, msg) \o Answers(b, m))
<1>1. PICK s : s = Posts(b, n, msg)
  OBVIOUS
<1>2. s \in Seq(Sends) /\ Spread(s, n, MsgOut[b], msg)
  BY <1>1, PostsAre DEF BlockMsgs
<1>3. TruePost(fg, P, s)
  BY <1>2, PlainPosts DEF Spread
<1>4. ASSUME NEW m PROVE TruePost(fg, P, s \o Answers(b, m))
  <2>1. PICK u : u = Answers(b, m)
    OBVIOUS
  <2>2. u \in Seq(Sends) /\ \A i \in 1..Len(u) : u[i].to \notin Blocks
    BY <2>1, AnswersAre
  <2>3. TruePost(fg, P, u)
    BY <2>2, PlainPosts
  <2> QED
    BY <1>2, <1>3, <2>1, <2>2, <2>3, PostConcat
<1> QED
  BY <1>1, <1>2, <1>3, <1>4

\* What a block tells its neighbours when it shuts down.
LEMMA FarewellsTrue ==
  ASSUME fg \in Flowgraphs, NEW b \in Blocks, Linked(fg, b), NEW P, DOMAIN P = Blocks, P[b] \in Gone
  PROVE  TruePost(fg, P, Farewells(b))
<1>1. PICK s : s = Farewells(b)
  OBVIOUS
<1>2. PICK out : out = MsgOut[b]
  OBVIOUS
<1>3. \A i \in 1..Len(s) :
        \/ HasInput(b) /\ s[i].to = Up(b) /\ s[i].msg = "StreamOutputDone"
        \/ HasOutput(b) /\ s[i].to = Down[b] /\ s[i].msg = "StreamInputDone"
        \/ s[i].msg = "CallFinished"
  BY <1>1, <1>2, FarewellsAre
<1>4. HasInput(b) => fg.down[Up(b)] = b
  BY UpIsBlock DEF Down
<1>5. \A u \in Blocks : fg.down[u] = fg.down[b] /\ fg.down[b] # 0 => u = b
  BY RuntimeAssumption DEF WellFormed, Blocks, N, Kind
<1>6. HasOutput(b) => fg.down[b] # 0
  BY DEF Linked, HasOutput, StreamOutputs, Kind
<1>7. ASSUME NEW i \in 1..Len(s), s[i].to \in Blocks PROVE Truthful(fg, P, s[i].to, s[i].msg)
  <2>1. CASE HasInput(b) /\ s[i].to = Up(b) /\ s[i].msg = "StreamOutputDone"
    BY <1>4, <2>1 DEF Truthful
  <2>2. CASE HasOutput(b) /\ s[i].to = Down[b] /\ s[i].msg = "StreamInputDone"
    BY <1>5, <1>6, <2>2 DEF Truthful, Down
  <2>3. CASE s[i].msg = "CallFinished"
    BY <2>3 DEF Truthful
  <2> QED
    BY <1>3, <2>1, <2>2, <2>3
<1> QED
  BY <1>1, <1>7 DEF TruePost

\* A message is taken from the inbox.
LEMMA TakingTrue ==
  ASSUME IndInv, TypesInv, TruthInv, NEW b \in Blocks, TakesOne(b)
  PROVE  /\ \A c \in Blocks : TrueMail(fg, pc, inbox'[c].queue, c)
         /\ Truthful(fg, pc, b, Head(inbox[b].queue))
<1>1. PICK q : q = inbox[b].queue
  OBVIOUS
<1>2. q \in Seq(BlockMsgs) /\ q # <<>> /\ inbox'[b].queue = Tail(q)
  BY <1>1 DEF TypesInv, PostInv, Boxes, TakesOne
<1>3. TrueMail(fg, pc, q, b)
  BY <1>1 DEF TruthInv
<1>4. Truthful(fg, pc, b, Head(q)) /\ TrueMail(fg, pc, Tail(q), b)
  BY <1>2, <1>3, MailMoves
<1>5. \A c \in Blocks : c # b => TrueMail(fg, pc, inbox'[c].queue, c)
  BY DEF TakesOne, TruthInv
<1> QED
  BY <1>1, <1>2, <1>4, <1>5

\* BlockSend: a message is put into an inbox.
LEMMA SendTrue ==
  ASSUME IndInv, IndInv', TypesInv, PhaseInv, TruthInv, NEW b \in Blocks, BlockSend(b), ~failed'[b]
  PROVE  PhaseInv' /\ TruthInv'
<1>1. PICK e : e = Head(outbox[b])
  OBVIOUS
<1>2. /\ Turn(b) /\ UNCHANGED <<pc, io, infin>> /\ outbox[b] # <<>>
      /\ outbox'[b] = Tail(outbox[b]) \/ outbox'[b] = Marked(outbox[b])
      /\ \/ UNCHANGED inbox
         \/ /\ e.to \in Blocks
            /\ inbox'[e.to].queue = Append(inbox[e.to].queue, e.msg)
            /\ \A c \in Blocks : c # e.to => inbox'[c] = inbox[c]
  BY <1>1, SendMoves
<1>3. PICK s : s = outbox[b]
  OBVIOUS
<1>4. /\ s \in Seq(Sends) /\ TruePost(fg, pc, s) /\ DOMAIN pc = Blocks /\ Addressed(s, N)
      /\ N \in Nat
  BY <1>3, BlocksFinite DEF IndInv, TypeInv, TruthInv, TypesInv, PostInv
<1>5. /\ TruePost(fg, pc, Tail(s)) /\ TruePost(fg, pc, Marked(s))
      /\ e.to \in Blocks => Truthful(fg, pc, e.to, e.msg)
  BY <1>1, <1>2, <1>3, <1>4, PostMoves
<1>6. e.to \in Blocks => e.msg \in BlockMsgs
  <2>1. Destined(e, N)
    BY <1>1, <1>2, <1>3, <1>4, AddressedMoves
  <2> QED
    BY <1>4, <2>1 DEF Destined, Main, Blocks
<1>7. \A c \in Blocks : TrueMail(fg, pc, inbox'[c].queue, c)
  <2>1. CASE UNCHANGED inbox
    BY <2>1 DEF TruthInv
  <2>2. CASE /\ e.to \in Blocks
             /\ inbox'[e.to].queue = Append(inbox[e.to].queue, e.msg)
             /\ \A c \in Blocks : c # e.to => inbox'[c] = inbox[c]
    <3>1. PICK q : q = inbox[e.to].queue
      OBVIOUS
    <3>2. q \in Seq(BlockMsgs) /\ TrueMail(fg, pc, q, e.to)
      BY <2>2, <3>1 DEF TypesInv, PostInv, Boxes, TruthInv
    <3>3. TrueMail(fg, pc, Append(q, e.msg), e.to)
      BY <1>5, <1>6, <2>2, <3>2, MailMoves
    <3> QED
      BY <2>2, <3>1, <3>3 DEF TruthInv
  <2> QED
    BY <1>2, <2>1, <2>2
<1>8. TruePost(fg, pc', outbox'[b])
  BY <1>2, <1>3, <1>5
<1> QED
  BY <1>2, <1>7, <1>8, TurnMail DEF PhaseInv

\* consume() and produce() notify the neighbours.
LEMMA NotifyTrue ==
  ASSUME TypesInv, TruthInv, NEW b \in Blocks, NEW r, NEW c \in Blocks
  PROVE  TrueMail(fg, pc, Notified(b, r)[c].queue, c)
<1>1. PICK q : q = inbox[c].queue
  OBVIOUS
<1>2. q \in Seq(BlockMsgs) /\ TrueMail(fg, pc, q, c)
  BY <1>1 DEF TypesInv, PostInv, Boxes, TruthInv
<1>3. "Notify" \in BlockMsgs /\ Truthful(fg, pc, c, "Notify")
  BY DEF BlockMsgs, Truthful
<1>4. TrueMail(fg, pc, Append(q, "Notify"), c)
  BY <1>2, <1>3, MailMoves
<1>5. Notified(b, r)[c].queue = q \/ Notified(b, r)[c].queue = Append(q, "Notify")
  <2>1. PICK ch : ch = inbox[c]
    OBVIOUS
  <2>2. PICK size : size = QueueSize
    OBVIOUS
  <2>3. PICK v : v = <<"notify", b>>
    OBVIOUS
  <2>4. Notified(b, r)[c] = ch \/ Notified(b, r)[c] = TrySend(ch, v, "Notify", size)
    BY <2>1, <2>2, <2>3 DEF Notified
  <2>5. TrySend(ch, v, "Notify", size).queue = ch.queue
          \/ TrySend(ch, v, "Notify", size).queue = Append(ch.queue, "Notify")
    BY DEF TrySend, Push
  <2> QED
    BY <1>1, <2>1, <2>4, <2>5
<1> QED
  BY <1>2, <1>4, <1>5

\* The tasks of the blocks.
LEMMA TaskTrue ==
  ASSUME IndInv, IndInv', TypesInv, PhaseInv, TruthInv, NEW b \in Blocks, BlockNext(b), ~failed'[b],
         \A c \in Blocks : pc[c] \in Gone => pc'[c] \in Gone
  PROVE  PhaseInv' /\ TruthInv'
<1>1. /\ fg \in Flowgraphs /\ DOMAIN pc = Blocks /\ DOMAIN pc' = Blocks /\ WellFormed(fg)
      /\ \A c \in Blocks : TrueMail(fg, pc, inbox[c].queue, c)
      /\ TruePost(fg, pc, outbox[b]) /\ TruePost(fg, pc, <<>>) /\ b \in Nat
      /\ infin[b] => \A u \in Blocks : Down[u] = b => pc[u] \in Gone
  <2>1. Blocks' = Blocks /\ fg' = fg
    BY Phases DEF Next
  <2>2. TruePost(fg, pc, <<>>)
    BY PlainPosts
  <2> QED
    BY <2>1, <2>2, RuntimeAssumption, BlocksFinite DEF IndInv, TypeInv, TruthInv, PhaseInv
<1>2. ASSUME NEW type, NEW P, DOMAIN P = Blocks
      PROVE  <<SendToMain(type, b)>> \in Seq(Sends) => TruePost(fg, P, <<SendToMain(type, b)>>)
  <2>1. 0 \notin Blocks
    BY <1>1, BlocksFinite
  <2>2. PICK e : e = SendToMain(type, b)
    OBVIOUS
  <2>3. e.to = 0
    BY <2>2 DEF SendToMain, Send, Main
  <2>4. \A i \in 1..Len(<<e>>) : <<e>>[i].to = 0
    BY <2>3
  <2> QED
    BY <1>2, <2>1, <2>2, <2>4, PlainPosts
<1>3. CASE BlockStart(b)
  <2>1. /\ Turn(b) /\ UNCHANGED inbox /\ pc'[b] = "setup" /\ outbox'[b] = <<>>
        /\ infin'[b] = infin[b]
    BY <1>3, Starts
  <2>2. TruePost(fg, pc', outbox'[b])
    BY <2>1, PlainPosts
  <2> QED
    BY <1>1, <2>1, <2>2, TurnMail DEF Gone
<1>4. CASE BlockSetup(b)
  <2>1. /\ Turn(b) /\ TakesOne(b) /\ io'[b] = io[b] /\ infin'[b] = infin[b]
        /\ \/ pc'[b] = "setup" /\ outbox'[b] = <<>>
           \/ /\ pc'[b] = "loop"
              /\ outbox'[b] = (IF InitPost[b] = "none" THEN <<>> ELSE Posts(b, 1, InitPost[b]))
                                \o <<SendToMain("Initialized", b)>>
    BY <1>4, SetsUp
  <2>2. TruePost(fg, pc', outbox'[b])
    <3>1. CASE outbox'[b] = <<>>
      BY <3>1, PlainPosts
    <3>2. CASE outbox'[b] = (IF InitPost[b] = "none" THEN <<>> ELSE Posts(b, 1, InitPost[b]))
                                \o <<SendToMain("Initialized", b)>>
      <4>1. PICK R : R = pc'
        OBVIOUS
      <4>2. PICK s : s = IF InitPost[b] = "none" THEN <<>> ELSE Posts(b, 1, InitPost[b])
        OBVIOUS
      <4>3. PICK u : u = <<SendToMain("Initialized", b)>>
        OBVIOUS
      <4>4. u \in Seq(Sends) /\ TruePost(fg, R, u)
        BY <1>1, <1>2, <4>1, <4>3, InitializedSent
      <4>5. s \in Seq(Sends) /\ TruePost(fg, R, s)
        <5>1. CASE InitPost[b] = "none"
          BY <4>2, <5>1, AwayNone, PlainPosts
        <5>2. CASE InitPost[b] # "none"
          <6>1. InitPost[b] \in {"Call", "CallFinished"} /\ 1 \in Nat
            BY <1>1, <5>2 DEF WellFormed, InitPost, Blocks, N, Kind
          <6> QED
            BY <1>1, <4>1, <4>2, <5>2, <6>1, PostsTrue
        <5> QED
          BY <5>1, <5>2
      <4> QED
        BY <3>2, <4>1, <4>2, <4>3, <4>4, <4>5, PostConcat
    <3> QED
      BY <2>1, <3>1, <3>2
  <2> QED
    BY <1>1, <2>1, <2>2, TakingTrue, TurnMail DEF Gone
<1>5. CASE BlockReceive(b)
  <2>1. PICK m : m = Head(inbox[b].queue)
    OBVIOUS
  <2>2. PICK h : h = Reaction(b, m)
    OBVIOUS
  <2>3. /\ Turn(b) /\ UNCHANGED pc /\ TakesOne(b) /\ pc[b] = "loop"
        /\ infin'[b] = (infin[b] \/ m = "StreamInputDone")
        /\ outbox'[b] = Posts(b, h.posts, "Call") \o Answers(b, m)
    BY <1>5, <2>1, <2>2, Receives
  <2>4. h.posts \in Nat
    <3>1. PICK last \in BOOLEAN : last = (m = "CallFinished")
      OBVIOUS
    <3>2. h = Handler(b, last) \/ h = Idle(k[b])
      BY <2>2, <3>1 DEF Reaction
    <3> QED
      BY <3>2, PostsCounted
  <2>5. TruePost(fg, pc', outbox'[b])
    BY <1>1, <2>3, <2>4, PostsTrue
  <2>6. m = "StreamInputDone" => \A u \in Blocks : Down[u] = b => pc[u] \in Gone
    BY <1>1, <2>1, <2>3, TakingTrue DEF Truthful, Down
  <2> QED
    BY <1>1, <2>3, <2>5, <2>6, TakingTrue, TurnMail DEF Gone
<1>6. CASE BlockDrained(b) \/ BlockTimer(b)
  <2>1. /\ Turn(b) /\ UNCHANGED inbox /\ pc[b] = "loop"
        /\ io'[b].finished = io[b].finished /\ infin'[b] = infin[b]
        /\ \/ io[b].finished /\ pc'[b] = "shutdown" /\ outbox'[b] = Farewells(b)
           \/ ~io[b].finished /\ pc'[b] = "work" /\ outbox'[b] = <<>>
    BY <1>6, Drains
  <2>2. TruePost(fg, pc', outbox'[b])
    <3>1. CASE pc'[b] = "shutdown" /\ outbox'[b] = Farewells(b)
      <4>1. PICK R : R = pc'
        OBVIOUS
      <4>2. Linked(fg, b) /\ R[b] \in Gone /\ DOMAIN R = Blocks
        BY <1>1, <2>1, <3>1, <4>1, RunningLinked DEF Gone
      <4>3. TruePost(fg, R, Farewells(b))
        BY <1>1, <4>2, FarewellsTrue
      <4> QED
        BY <3>1, <4>1, <4>3
    <3>2. CASE outbox'[b] = <<>>
      BY <3>2, PlainPosts
    <3> QED
      BY <2>1, <3>1, <3>2
  <2> QED
    BY <1>1, <2>1, <2>2, TurnMail DEF Gone
<1>7. CASE BlockWork(b)
  <2>1. /\ Turn(b) /\ pc'[b] = "loop" /\ infin'[b] = infin[b]
        /\ \E r \in Outcomes(b) :
             inbox' = Notified(b, r) /\ outbox'[b] = Posts(b, r.posts, "Call")
    BY <1>7, Works, Zenon
  <2>2. PICK r \in Outcomes(b) :
             inbox' = Notified(b, r) /\ outbox'[b] = Posts(b, r.posts, "Call")
    BY <2>1
  <2>3. r.posts \in Nat
    BY PostsCounted
  <2>4. TruePost(fg, pc', outbox'[b])
    BY <1>1, <2>2, <2>3, PostsTrue
  <2>5. \A c \in Blocks : TrueMail(fg, pc, inbox'[c].queue, c)
    BY <2>2, NotifyTrue
  <2> QED
    BY <1>1, <2>1, <2>4, <2>5, TurnMail DEF Gone
<1>8. CASE BlockDeinit(b)
  <2>1. /\ Turn(b) /\ UNCHANGED inbox /\ pc[b] = "shutdown" /\ pc'[b] = "done"
        /\ io'[b] = io[b] /\ infin'[b] = infin[b]
        /\ outbox'[b] = <<SendToMain("BlockDone", b)>>
    BY <1>8, Deinits
  <2>2. TruePost(fg, pc', outbox'[b])
    <3>1. <<SendToMain("BlockDone", b)>> \in Seq(Sends)
      <4>1. FALSE \in BOOLEAN /\ EndType(FALSE) = "BlockDone"
        BY DEF EndType
      <4> QED
        BY <1>1, <4>1, ReportIsLastWord
    <3> QED
      BY <1>1, <1>2, <2>1, <3>1
  <2>3. io[b].finished
    BY <2>1 DEF PhaseInv, Gone
  <2> QED
    BY <1>1, <2>1, <2>2, <2>3, TurnMail
<1>9. CASE BlockSend(b)
  BY <1>9, SendTrue
<1> QED
  BY <1>3, <1>4, <1>5, <1>6, <1>7, <1>8, <1>9 DEF BlockNext

\* run_flowgraph sends nothing that is not true while it is not asked to terminate.
LEMMA MainTrue ==
  ASSUME IndInv, TypesInv, PhaseInv, TruthInv, UNCHANGED blockVars,
         \A c \in Blocks : TrueMail(fg, pc, inbox'[c].queue, c), TruePost(fg, pc, mainout')
  PROVE  PhaseInv' /\ TruthInv'
<1>1. UNCHANGED <<fg, outbox, pc, io, infin>> /\ Blocks' = Blocks /\ Down' = Down
  BY DEF blockVars, Blocks, N, Kind, Down
<1> QED
  BY <1>1 DEF PhaseInv, TruthInv

\* Every step.
LEMMA MailStep ==
  ASSUME IndInv, IndInv', TypesInv, MailInv, [Next]_vars
  PROVE  MailInv'
<1> SUFFICES ASSUME Undisturbed' PROVE PhaseInv' /\ TruthInv'
  BY DEF MailInv
<1>1. /\ fg' = fg /\ Blocks' = Blocks /\ fg \in Flowgraphs
      /\ \A c \in Blocks : pc[c] \in Gone => pc'[c] \in Gone
      /\ PhaseInv /\ TruthInv
  BY Phases, OneWay DEF MailInv, IndInv, TypeInv
<1>2. ~terminated' /\ \A b \in Blocks : ~failed'[b]
  BY <1>1 DEF Undisturbed
<1>3. ASSUME NEW b \in Blocks, BlockNext(b) PROVE PhaseInv' /\ TruthInv'
  BY <1>1, <1>2, <1>3, TaskTrue
<1>4. CASE MainSend
  <2>1. PICK e : e = Head(mainout)
    OBVIOUS
  <2>2. /\ UNCHANGED blockVars /\ mainout # <<>>
        /\ mainout' = Tail(mainout) \/ mainout' = Marked(mainout)
        /\ \/ UNCHANGED inbox
           \/ /\ e.to # Main
              /\ e.to \in Blocks => inbox'[e.to].queue = Append(inbox[e.to].queue, e.msg)
              /\ \A c \in Blocks : c # e.to => inbox'[c] = inbox[c]
    BY <1>4, <2>1, MainSendMoves
  <2>3. PICK s : s = mainout
    OBVIOUS
  <2>4. s \in Seq(Sends) /\ TruePost(fg, pc, s) /\ DOMAIN pc = Blocks /\ Dispatched(s)
    BY <1>1, <2>3 DEF IndInv, TypeInv, TruthInv, TypesInv, PostInv
  <2>5. /\ TruePost(fg, pc, Tail(s)) /\ TruePost(fg, pc, Marked(s))
        /\ e.to \in Blocks => Truthful(fg, pc, e.to, e.msg)
    BY <2>1, <2>2, <2>3, <2>4, PostMoves
  <2>6. e.to # Main => e.msg \in BlockMsgs
    <3>1. 0 \in Nat
      OBVIOUS
    <3> QED
      BY <2>1, <2>2, <2>3, <2>4, <3>1, AddressedMoves
  <2>7. ASSUME NEW c \in Blocks PROVE TrueMail(fg, pc, inbox'[c].queue, c)
    <3>1. PICK q : q = inbox[c].queue
      OBVIOUS
    <3>2. q \in Seq(BlockMsgs) /\ TrueMail(fg, pc, q, c)
      BY <1>1, <3>1 DEF TypesInv, PostInv, Boxes, TruthInv
    <3>3. CASE inbox'[c] = inbox[c]
      BY <3>1, <3>2, <3>3
    <3>4. CASE inbox'[c].queue = Append(inbox[c].queue, e.msg) /\ c = e.to /\ e.to # Main
      BY <2>5, <2>6, <3>1, <3>2, <3>4, MailMoves
    <3> QED
      BY <2>2, <3>3, <3>4
  <2>8. TruePost(fg, pc, mainout')
    BY <2>2, <2>3, <2>5
  <2> QED
    BY <1>1, <2>2, <2>7, <2>8, MainTrue
<1>5. CASE ~MainSend /\ \A b \in Blocks : ~BlockNext(b)
  <2>1. /\ UNCHANGED <<blockVars, inbox>>
        /\ \/ mainout' = mainout \/ mainout' = <<>> \/ mainout' = ToAll("Notify")
           \/ mainout' = <<Send(Main, FromMain, ToMain("Terminate", 0))>>
           \/ \E x, msg : /\ msg \in {"Call", "Callback", "BlockDescription"}
                          /\ mainout' = <<Send(x, FromMain, msg)>>
    BY <1>2, <1>5, Elsewhere
  <2>2. TruePost(fg, pc, mainout')
    <3>1. CASE mainout' = mainout
      BY <1>1, <3>1 DEF TruthInv
    <3>2. CASE mainout' = <<>>
      BY <3>2, PlainPosts
    <3>3. CASE mainout' = ToAll("Notify")
      <4>1. PICK s : s = ToAll("Notify")
        OBVIOUS
      <4>2. s \in Seq(Sends) /\ N \in Nat
        BY <1>1, <4>1, ToAllAway, BlocksFinite DEF BlockMsgs
      <4>3. DOMAIN s = 1..N /\ \A i \in 1..N : s[i].msg = "Notify"
        BY <4>1 DEF ToAll, Send
      <4>4. Len(s) = N
        BY <4>2, <4>3, LenProperties, SMT
      <4>5. TruePost(fg, pc, s)
        BY <4>3, <4>4, PlainPosts
      <4> QED
        BY <3>3, <4>1, <4>5
    <3>4. CASE mainout' = <<Send(Main, FromMain, ToMain("Terminate", 0))>>
      <4>1. PICK e : e = Send(Main, FromMain, ToMain("Terminate", 0))
        OBVIOUS
      <4>2. e.to = 0 /\ 0 \notin DOMAIN pc
        BY <1>1, <4>1, BlocksFinite DEF Send, Main, IndInv, TypeInv
      <4>3. \A i \in 1..Len(<<e>>) : <<e>>[i].to = 0
        BY <4>2
      <4>4. TruePost(fg, pc, <<e>>)
        BY <4>2, <4>3, PlainPosts
      <4> QED
        BY <3>4, <4>1, <4>4
    <3>5. ASSUME NEW x, NEW msg \in {"Call", "Callback", "BlockDescription"},
                 mainout' = <<Send(x, FromMain, msg)>>
          PROVE  TruePost(fg, pc, mainout')
      <4>1. PICK e : e = Send(x, FromMain, msg)
        OBVIOUS
      <4>2. e.msg = msg
        BY <4>1 DEF Send
      <4>3. \A i \in 1..Len(<<e>>) : <<e>>[i].msg = msg
        BY <4>2
      <4>4. TruePost(fg, pc, <<e>>)
        BY <4>3, PlainPosts
      <4> QED
        BY <3>5, <4>1, <4>4
    <3> QED
      BY <2>1, <3>1, <3>2, <3>3, <3>4, <3>5
  <2>3. \A c \in Blocks : TrueMail(fg, pc, inbox'[c].queue, c)
    BY <1>1, <2>1 DEF TruthInv
  <2>4. UNCHANGED blockVars
    BY <2>1
  <2> QED
    BY <1>1, <2>2, <2>3, <2>4, MainTrue
<1> QED
  BY <1>3, <1>4, <1>5

\* Nobody has sent anything.
LEMMA InitMail == Init => MailInv
<1> SUFFICES ASSUME Init PROVE PhaseInv /\ TruthInv
  BY DEF MailInv
<1>1. /\ fg \in Flowgraphs /\ \A b \in Blocks : inbox[b] = EmptyChannel /\ outbox[b] = <<>>
      /\ \A b \in Blocks : pc[b] = "start" /\ infin[b] = FALSE
      /\ mainout = ToAll("Initialize")
  BY DEF Init
<1>2. PhaseInv
  BY <1>1 DEF PhaseInv, Gone
<1>3. \A b \in Blocks : TrueMail(fg, pc, inbox[b].queue, b) /\ TruePost(fg, pc, outbox[b])
  BY <1>1 DEF TrueMail, TruePost, EmptyChannel
<1>4. TruePost(fg, pc, mainout)
  <2>1. PICK s : s = ToAll("Initialize")
    OBVIOUS
  <2>2. s \in Seq(Sends) /\ N \in Nat
    BY <1>1, <2>1, ToAllAway, BlocksFinite DEF BlockMsgs
  <2>3. DOMAIN s = 1..N /\ \A i \in 1..N : s[i].msg = "Initialize"
    BY <2>1 DEF ToAll, Send
  <2>4. Len(s) = N
    BY <2>2, <2>3, LenProperties, SMT
  <2>5. TruePost(fg, pc, s)
    BY <2>3, <2>4, PlainPosts
  <2> QED
    BY <1>1, <2>1, <2>5
<1> QED
  BY <1>2, <1>3, <1>4 DEF TruthInv

-----------------------------------------------------------------------------
(* Streams                                                                 *)

StreamKinds == StreamInputs \cup StreamOutputs

\* Block b has made M[b] items and taken T[b] in the flowgraph g, if the counters of
\* the kernels are K and the buffers hold A.
Balanced(g, K, A, M, T) ==
    \A b \in 1..Len(g.kind) :
        /\ g.kind[b] = "source" => M[b] = K[b]
        /\ g.kind[b] = "head" => M[b] + K[b] = Items
        /\ g.kind[b] \in {"copy", "head"} => T[b] = M[b]
        /\ g.kind[b] = "sink" => K[b] = Least(T[b], MaxCount)
        /\ g.down[b] # 0 => M[b] = T[g.down[b]] + A[b]

\* Block b has read its input to the end, if I says which inputs have ended.
ReadOut(g, I, A, b) == I[b] /\ \A u \in 1..Len(g.kind) : g.down[u] = b => A[u] = 0

\* The reasons of block b to finish: it is through, or nobody reads its output any
\* more because of a Head.
Through(g, I, A, M, T, b) ==
    /\ g.kind[b] \in {"source", "copy", "head", "sink"}
    /\ g.kind[b] # "sink" => M[b] = Items
    /\ g.kind[b] = "sink" => T[b] = Items
    /\ g.kind[b] \in {"copy", "sink"} => ReadOut(g, I, A, b)
CutOff(g, P, b) ==
    /\ \E h \in 1..Len(g.kind) : g.kind[h] = "head"
    /\ g.down[b] # 0 /\ P[g.down[b]] \in Gone

Flows(M, T) ==
    /\ Balanced(fg, k, avail, M, T)
    /\ \A b \in Blocks : Kind[b] \in StreamKinds /\ io[b].finished =>
          Through(fg, infin, avail, M, T, b) \/ CutOff(fg, pc, b)

StreamInv == Undisturbed => /\ \A b \in Blocks : pc[b] # "start" => Linked(fg, b)
                            /\ \E M, T \in [Blocks -> Nat] : Flows(M, T)

\* What the kernels do to their counters, and when they finish.
LEMMA KernelsCount ==
  ASSUME NEW x \in Nat, NEW i \in Nat, NEW o \in Nat, NEW f \in BOOLEAN
  PROVE  /\ VectorSource(x, o).k = x + VectorSource(x, o).prod
         /\ VectorSource(x, o).fin => VectorSource(x, o).k = Items
         /\ ~NullSource(x, o).fin
         /\ Copy(x, i, o, f).cons = Copy(x, i, o, f).prod
         /\ Copy(x, i, o, f).fin => f /\ Copy(x, i, o, f).cons = i
         /\ HeadBlock(x, i, o).cons = HeadBlock(x, i, o).prod
         /\ HeadBlock(x, i, o).k = x - HeadBlock(x, i, o).prod
         /\ HeadBlock(x, i, o).fin => HeadBlock(x, i, o).k = 0
         /\ NullSink(x, i, f).k = Least(x + NullSink(x, i, f).cons, MaxCount)
         /\ NullSink(x, i, f).cons = i /\ (NullSink(x, i, f).fin => f)
<1>1. /\ VectorSource(x, o).k = x + VectorSource(x, o).prod
      /\ VectorSource(x, o).fin => VectorSource(x, o).k = Items
  <2>1. PICK n : n = Least(o, Items - x)
    OBVIOUS
  <2> QED
    BY <2>1 DEF VectorSource, Idle
<1>2. ~NullSource(x, o).fin
  BY DEF NullSource, Idle
<1>3. /\ Copy(x, i, o, f).cons = Copy(x, i, o, f).prod
      /\ Copy(x, i, o, f).fin => f /\ Copy(x, i, o, f).cons = i
  <2>1. PICK n : n = Least(i, o)
    OBVIOUS
  <2> QED
    BY <2>1 DEF Copy, Idle
<1>4. /\ HeadBlock(x, i, o).cons = HeadBlock(x, i, o).prod
      /\ HeadBlock(x, i, o).k = x - HeadBlock(x, i, o).prod
      /\ HeadBlock(x, i, o).fin => HeadBlock(x, i, o).k = 0
  <2>1. \A p, q \in Nat : Least(p, q) \in Nat
    BY DEF Least
  <2>2. PICK n \in Nat : n = Least(x, Least(i, o))
    BY <2>1
  <2>3. PICK h : h = HeadBlock(x, i, o)
    OBVIOUS
  <2>4. h.cons = n /\ h.prod = n /\ h.k = x - n /\ h.fin = (n > 0 /\ x = n)
    BY <2>2, <2>3, Zenon DEF HeadBlock, Idle
  <2>5. x = n => x - n = 0
    OBVIOUS
  <2>6. h.fin => h.k = 0
    BY <2>4, <2>5, Zenon
  <2> QED
    BY <2>3, <2>4, <2>6, Zenon
<1>5. /\ NullSink(x, i, f).k = Least(x + NullSink(x, i, f).cons, MaxCount)
      /\ NullSink(x, i, f).cons = i /\ (NullSink(x, i, f).fin => f)
  BY DEF NullSink, Idle
<1> QED
  BY <1>1, <1>2, <1>3, <1>4, <1>5

\* The counter of a sink is bounded.
LEMMA LeastAdds ==
  ASSUME NEW t \in Nat, NEW n \in Nat
  PROVE  Least(Least(t, MaxCount) + n, MaxCount) = Least(t + n, MaxCount)
BY KernelsAssumption, SMT DEF Least

\* Block b takes n items and makes m, and its counter is x then.
Moving(g, K, A, M, T, b, n, m, x, K2, A2, M2, T2) ==
    LET B == 1..Len(g.kind)
    IN  /\ g.kind[b] = "source" => x = K[b] + m
        /\ g.kind[b] = "head" => x = K[b] - m
        /\ g.kind[b] \in {"copy", "head"} => n = m
        /\ g.kind[b] = "sink" => x = Least(K[b] + n, MaxCount)
        /\ K2[b] = x /\ \A c \in B : c # b => K2[c] = K[c]
        /\ \A c \in B : A2[c] = A[c] + (IF c = b THEN m ELSE 0)
                                      - (IF g.down[c] = b THEN n ELSE 0)
        /\ M2 = [M EXCEPT ![b] = @ + m] /\ T2 = [T EXCEPT ![b] = @ + n]

\* The balance is kept.
LEMMA MoveBalanced ==
  ASSUME NEW g \in Flowgraphs, NEW B, B = 1..Len(g.kind), NEW M \in [B -> Nat], NEW T \in [B -> Nat],
         NEW K \in [B -> Nat], NEW A \in [B -> Nat], Balanced(g, K, A, M, T),
         NEW b \in B, NEW n \in Nat, NEW m \in Nat, NEW x \in Nat, NEW K2, NEW A2, NEW M2, NEW T2,
         Moving(g, K, A, M, T, b, n, m, x, K2, A2, M2, T2)
  PROVE  Balanced(g, K2, A2, M2, T2)
<1>0. /\ g.kind[b] = "source" => x = K[b] + m
      /\ g.kind[b] = "head" => x = K[b] - m
      /\ g.kind[b] \in {"copy", "head"} => n = m
      /\ g.kind[b] = "sink" => x = Least(K[b] + n, MaxCount)
      /\ K2[b] = x /\ \A c \in B : c # b => K2[c] = K[c]
      /\ \A c \in B : A2[c] = A[c] + (IF c = b THEN m ELSE 0)
                                    - (IF g.down[c] = b THEN n ELSE 0)
      /\ M2 = [M EXCEPT ![b] = @ + m] /\ T2 = [T EXCEPT ![b] = @ + n]
  BY Zenon DEF Moving
<1>1. /\ M2[b] = M[b] + m /\ T2[b] = T[b] + n
      /\ \A c \in B : c # b => M2[c] = M[c] /\ T2[c] = T[c]
      /\ \A c \in B : M[c] \in Nat /\ T[c] \in Nat /\ K[c] \in Nat /\ A[c] \in Nat
  BY <1>0
<1>2. \A c \in B : g.down[c] # 0 => g.down[c] \in B
  <2>1. WellFormed(g)
    BY RuntimeAssumption
  <2>2. PICK nb : nb = Len(g.kind)
    OBVIOUS
  <2>3. nb \in 1..MaxBlocks /\ \A c \in 1..nb : g.down[c] \in 0..nb
    BY <2>1, <2>2 DEF WellFormed
  <2> QED
    BY <2>2, <2>3, RuntimeAssumption
<1>3. ASSUME NEW c \in B, g.down[c] # 0 PROVE M2[c] = T2[g.down[c]] + A2[c]
  <2>1. PICK y \in B : y = g.down[c]
    BY <1>2, <1>3
  <2>2. M[c] = T[y] + A[c]
    BY <1>3, <2>1 DEF Balanced
  <2>3. M[c] \in Nat /\ T[y] \in Nat /\ A[c] \in Nat
    BY <1>1
  <2>4. PICK mm \in Nat : mm = IF c = b THEN m ELSE 0
    OBVIOUS
  <2>5. PICK nn \in Nat : nn = IF y = b THEN n ELSE 0
    OBVIOUS
  <2>6. M2[c] = M[c] + mm
    <3>1. CASE c = b
      BY <1>1, <2>4, <3>1
    <3>2. CASE c # b
      BY <1>1, <2>3, <2>4, <3>2
    <3> QED
      BY <3>1, <3>2
  <2>7. T2[y] = T[y] + nn
    <3>1. CASE y = b
      BY <1>1, <2>5, <3>1
    <3>2. CASE y # b
      BY <1>1, <2>3, <2>5, <3>2
    <3> QED
      BY <3>1, <3>2
  <2>8. A2[c] = A[c] + mm - nn
    BY <1>0, <2>1, <2>4, <2>5
  <2>9. M2[c] = T2[y] + A2[c]
    BY <2>2, <2>3, <2>6, <2>7, <2>8, SMT
  <2> QED
    BY <2>1, <2>9
<1>4. ASSUME NEW c \in B
      PROVE  /\ g.kind[c] = "source" => M2[c] = K2[c]
             /\ g.kind[c] = "head" => M2[c] + K2[c] = Items
             /\ g.kind[c] \in {"copy", "head"} => T2[c] = M2[c]
             /\ g.kind[c] = "sink" => K2[c] = Least(T2[c], MaxCount)
  <2>1. CASE c # b
    BY <1>0, <1>1, <2>1 DEF Balanced
  <2>2. CASE c = b
    <3>1. g.kind[b] = "source" => M2[b] = x
      BY <1>0, <1>1 DEF Balanced
    <3>2. g.kind[b] = "head" => M2[b] + x = Items
      <4>1. g.kind[b] = "head" => M[b] + K[b] = Items
        BY DEF Balanced
      <4> QED
        BY <1>0, <1>1, <4>1, KernelsAssumption
    <3>3. g.kind[b] \in {"copy", "head"} => T2[b] = M2[b]
      BY <1>0, <1>1 DEF Balanced
    <3>4. g.kind[b] = "sink" => x = Least(T2[b], MaxCount)
      <4>1. g.kind[b] = "sink" => K[b] = Least(T[b], MaxCount)
        BY DEF Balanced
      <4>2. Least(Least(T[b], MaxCount) + n, MaxCount) = Least(T[b] + n, MaxCount)
        BY <1>1, LeastAdds
      <4>3. T2[b] = T[b] + n
        BY <1>1
      <4> QED
        BY <1>0, <4>1, <4>2, <4>3, Zenon
    <3> QED
      BY <1>0, <2>2, <3>1, <3>2, <3>3, <3>4
  <2> QED
    BY <2>1, <2>2
<1> QED
  BY <1>3, <1>4 DEF Balanced

\* A step that moves no items; a block finishes only if it is cut off.
LEMMA StillFlows ==
  ASSUME fg' = fg, avail' = avail,
         \A c \in Blocks : pc[c] \in Gone => pc'[c] \in Gone,
         \A c \in Blocks : infin[c] => infin'[c],
         \A c \in Blocks : Kind[c] \in StreamKinds =>
            k'[c] = k[c] /\ (io'[c].finished => io[c].finished \/ CutOff(fg, pc, c)),
         \A c \in Blocks : Down[c] # 0 => Down[c] \in Blocks,
         NEW M, NEW T, Flows(M, T)
  PROVE  Flows(M, T)'
<1>1. Blocks' = Blocks /\ Kind' = Kind
  BY DEF Blocks, N, Kind
<1>2. Balanced(fg, k', avail, M, T)
  <2>1. PICK K : K = k
    OBVIOUS
  <2>2. PICK K2 : K2 = k'
    OBVIOUS
  <2>3. \A b \in 1..Len(fg.kind) : fg.kind[b] \in {"source", "head", "sink"} => K2[b] = K[b]
    BY <2>1, <2>2 DEF StreamKinds, StreamInputs, StreamOutputs, Blocks, N, Kind
  <2>4. Balanced(fg, K, avail, M, T)
    BY <2>1 DEF Flows
  <2>5. Balanced(fg, K2, avail, M, T)
    BY <2>3, <2>4 DEF Balanced
  <2> QED
    BY <2>2, <2>5
<1>3. ASSUME NEW b \in Blocks, Kind[b] \in StreamKinds, io'[b].finished
      PROVE  Through(fg, infin', avail, M, T, b) \/ CutOff(fg, pc', b)
  <2>1. Through(fg, infin, avail, M, T, b) \/ CutOff(fg, pc, b)
    BY <1>3 DEF Flows
  <2>2. CASE CutOff(fg, pc, b)
    BY <2>2 DEF CutOff, Down
  <2>3. CASE Through(fg, infin, avail, M, T, b)
    BY <2>3 DEF Through, ReadOut
  <2> QED
    BY <2>1, <2>2, <2>3
<1> QED
  BY <1>1, <1>2, <1>3 DEF Flows

\* Whom a block's streams connect.
LEMMA StreamEnds ==
  ASSUME fg \in Flowgraphs, NEW c \in Blocks, Down[c] # 0
  PROVE  /\ Down[c] \in Blocks /\ Kind[c] \in StreamOutputs /\ HasInput(Down[c])
         /\ \A u \in Blocks : Down[u] = Down[c] => u = c
<1>1. WellFormed(fg)
  BY RuntimeAssumption
<1>2. N \in Nat
  BY BlocksFinite
<1> QED
  BY <1>1, <1>2 DEF WellFormed, Blocks, N, Kind, Down, HasInput

\* A block that has read its input to the end has got all that there is.
LEMMA ReadsAll ==
  ASSUME IndInv, TypesInv, PhaseInv, NEW M \in [Blocks -> Nat], NEW T \in [Blocks -> Nat], Flows(M, T),
         NEW b \in Blocks, pc[b] = "work", infin[b], HasInput(b), NEW u, u = Up(b)
  PROVE  u \in Blocks /\ u # b /\ Down[u] = b /\ M[u] = Items /\ T[b] + avail[u] = Items
<1>1. fg \in Flowgraphs /\ Linked(fg, b)
  BY RunningLinked DEF IndInv, TypeInv
<1>2. u \in Blocks /\ Down[u] = b
  BY <1>1, UpIsBlock
<1>3. pc[u] \in Gone
  BY <1>2 DEF PhaseInv
<1>4. u # b
  BY <1>3 DEF Gone
<1>5. b # 0 /\ Kind[u] \in StreamOutputs
  BY <1>1, <1>2, BlocksFinite, StreamEnds
<1>6. io[u].finished /\ Kind[u] \in StreamKinds
  BY <1>2, <1>3, <1>5 DEF PhaseInv, StreamKinds
<1>7. ~CutOff(fg, pc, u)
  BY <1>2 DEF CutOff, Gone, Down
<1>8. Through(fg, infin, avail, M, T, u)
  BY <1>2, <1>6, <1>7 DEF Flows
<1>9. M[u] = Items
  BY <1>5, <1>8 DEF Through, StreamOutputs, Kind
<1>10. M[u] = T[b] + avail[u]
  BY <1>2, <1>5 DEF Flows, Balanced, Blocks, N, Kind, Down
<1> QED
  BY <1>2, <1>4, <1>9, <1>10

\* What a call of work() does to the counter of a stream block.
LEMMA OutcomesCount ==
  ASSUME TypesInv, StreamCap \in Nat, NEW b \in Blocks, Linked(fg, b), NEW r \in Outcomes(b),
         NEW i, i = IF HasInput(b) THEN avail[Up(b)] ELSE 0
  PROVE  /\ r.cons \in 0..i /\ r.prod \in Nat /\ r.k \in Nat
         /\ Kind[b] = "source" => r.k = k[b] + r.prod /\ (r.fin => r.k = Items)
         /\ Kind[b] = "null_source" => ~r.fin
         /\ Kind[b] = "copy" => r.cons = r.prod /\ (r.fin => infin[b] /\ r.cons = i)
         /\ Kind[b] = "head" => r.cons = r.prod /\ r.k = k[b] - r.prod /\ (r.fin => r.k = 0)
         /\ Kind[b] = "sink" => /\ r.k = Least(k[b] + r.cons, MaxCount)
                                /\ r.fin => infin[b] /\ r.cons = i
<1>1. KernelInv
  BY DEF TypesInv
<1>2. PICK o : o = StreamCap - avail[b]
  OBVIOUS
<1>3. i \in Nat /\ o \in Nat
  <2>1. avail \in [Blocks -> 0..StreamCap]
    BY <1>1 DEF KernelInv
  <2>2. HasInput(b) => Up(b) \in Blocks
    BY UpIsBlock
  <2>3. CASE HasInput(b)
    <3>1. avail[Up(b)] \in 0..StreamCap
      BY <2>1, <2>2, <2>3
    <3> QED
      BY <1>2, <2>1, <2>3, <3>1
  <2>4. CASE ~HasInput(b)
    BY <1>2, <2>1, <2>4
  <2> QED
    BY <2>3, <2>4
<1>4. Fits(r, i, o)
  BY <1>1, <1>2, OutcomesFit
<1>5. PICK x \in Nat : x = k[b]
  BY <1>1 DEF KernelInv
<1>6. PICK f \in BOOLEAN : f = infin[b]
  BY <1>1 DEF KernelInv
<1>7. /\ Kind[b] = "source" => r = VectorSource(x, o)
      /\ Kind[b] = "null_source" => r = NullSource(x, o)
      /\ Kind[b] = "copy" => r = Copy(x, i, o, f)
      /\ Kind[b] = "head" => r = HeadBlock(x, i, o)
      /\ Kind[b] = "sink" => r = NullSink(x, i, f)
  BY <1>2, <1>5, <1>6 DEF Outcomes
<1>8. r.cons \in 0..i /\ r.prod \in Nat /\ r.k \in Nat
  BY <1>3, <1>4 DEF Fits
<1>9. ASSUME Kind[b] = "source" PROVE r.k = x + r.prod /\ (r.fin => r.k = Items)
  BY <1>3, <1>7, <1>9, KernelsCount
<1>10. ASSUME Kind[b] = "null_source" PROVE ~r.fin
  BY <1>3, <1>7, <1>10, KernelsCount
<1>11. ASSUME Kind[b] = "copy" PROVE r.cons = r.prod /\ (r.fin => f /\ r.cons = i)
  BY <1>3, <1>7, <1>11, KernelsCount
<1>12. ASSUME Kind[b] = "head"
       PROVE  r.cons = r.prod /\ r.k = x - r.prod /\ (r.fin => r.k = 0)
  BY <1>3, <1>7, <1>12, KernelsCount
<1>13. ASSUME Kind[b] = "sink"
       PROVE  r.k = Least(x + r.cons, MaxCount) /\ (r.fin => f /\ r.cons = i)
  BY <1>3, <1>7, <1>13, KernelsCount
<1> QED
  BY <1>5, <1>6, <1>8, <1>9, <1>10, <1>11, <1>12, <1>13

\* BlockWork
LEMMA WorkFlows ==
  ASSUME IndInv, TypesInv, PhaseInv, NEW M \in [Blocks -> Nat], NEW T \in [Blocks -> Nat], Flows(M, T),
         NEW b \in Blocks, BlockWork(b), ~failed'[b],
         \A c \in Blocks : pc[c] \in Gone => pc'[c] \in Gone
  PROVE  \E M2, T2 \in [Blocks -> Nat] : Flows(M2, T2)'
<1>1. /\ Turn(b) /\ pc[b] = "work" /\ infin'[b] = infin[b]
      /\ \E r \in Outcomes(b) : /\ k'[b] = r.k /\ avail' = Moved(b, r)
                                /\ io'[b].finished = (io[b].finished \/ r.fin)
  BY Works, Zenon
<1>2. PICK r \in Outcomes(b) : /\ k'[b] = r.k /\ avail' = Moved(b, r)
                               /\ io'[b].finished = (io[b].finished \/ r.fin)
  BY <1>1
<1>3. fg \in Flowgraphs /\ Linked(fg, b) /\ fg' = fg /\ Blocks' = Blocks /\ Kind' = Kind /\ b # 0
  BY <1>1, RunningLinked, BlocksFinite DEF IndInv, TypeInv, Turn, Blocks, N, Kind
<1>4. PICK i : i = IF HasInput(b) THEN avail[Up(b)] ELSE 0
  OBVIOUS
<1>5. /\ r.cons \in 0..i /\ r.prod \in Nat /\ r.k \in Nat
      /\ Kind[b] = "source" => r.k = k[b] + r.prod /\ (r.fin => r.k = Items)
      /\ Kind[b] = "null_source" => ~r.fin
      /\ Kind[b] = "copy" => r.cons = r.prod /\ (r.fin => infin[b] /\ r.cons = i)
      /\ Kind[b] = "head" => r.cons = r.prod /\ r.k = k[b] - r.prod /\ (r.fin => r.k = 0)
      /\ Kind[b] = "sink" => /\ r.k = Least(k[b] + r.cons, MaxCount)
                             /\ r.fin => infin[b] /\ r.cons = i
  BY <1>3, <1>4, OutcomesCount, RuntimeAssumption
<1>6. /\ avail \in [Blocks -> 0..StreamCap] /\ k \in [Blocks -> Nat] /\ StreamCap \in Nat
      /\ avail \in [Blocks -> Nat]
  BY RuntimeAssumption DEF TypesInv, KernelInv
<1>7. \A c \in Blocks : Down[c] = b <=> HasInput(b) /\ c = Up(b)
  <2>1. HasInput(b) => Up(b) \in Blocks /\ Down[Up(b)] = b
    BY <1>3, UpIsBlock
  <2>2. ASSUME NEW c \in Blocks, Down[c] = b PROVE HasInput(b) /\ c = Up(b)
    <3>1. HasInput(b) /\ \A u \in Blocks : Down[u] = b => u = c
      BY <1>3, <2>2, StreamEnds
    <3> QED
      BY <2>1, <3>1
  <2> QED
    BY <2>1, <2>2
<1>8. r.cons \in Nat
  <2>1. i \in Nat
    <3>1. HasInput(b) => Up(b) \in Blocks
      BY <1>3, UpIsBlock
    <3> QED
      BY <1>4, <1>6, <3>1
  <2> QED
    BY <1>5, <2>1
<1>9. PICK n \in Nat : n = r.cons
  BY <1>8
<1>10. PICK m \in Nat : m = r.prod
  BY <1>5
<1>11. PICK x \in Nat : x = r.k
  BY <1>5
<1>12. PICK A2 : A2 = avail'
  OBVIOUS
<1>13. PICK K2 : K2 = k'
  OBVIOUS
<1>14. \A c \in Blocks : A2[c] = avail[c] + (IF c = b THEN m ELSE 0)
                                          - (IF Down[c] = b THEN n ELSE 0)
  BY <1>2, <1>7, <1>9, <1>10, <1>12 DEF Moved
<1>15. K2[b] = x /\ \A c \in Blocks : c # b => K2[c] = k[c]
  BY <1>1, <1>2, <1>11, <1>13 DEF Turn
<1>16. PICK M2 : M2 = [M EXCEPT ![b] = @ + m]
  OBVIOUS
<1>17. PICK T2 : T2 = [T EXCEPT ![b] = @ + n]
  OBVIOUS
<1>18. /\ M2 \in [Blocks -> Nat] /\ T2 \in [Blocks -> Nat]
       /\ M2[b] = M[b] + m /\ T2[b] = T[b] + n /\ M[b] \in Nat /\ T[b] \in Nat
       /\ \A c \in Blocks : c # b => M2[c] = M[c] /\ T2[c] = T[c]
  BY <1>16, <1>17
<1>19. Balanced(fg, K2, A2, M2, T2)
  <2>1. Balanced(fg, k, avail, M, T)
    BY DEF Flows
  <2>2. Blocks = 1..Len(fg.kind)
    BY DEF Blocks, N, Kind
  <2>3. \A c \in Blocks : A2[c] = avail[c] + (IF c = b THEN m ELSE 0)
                                           - (IF fg.down[c] = b THEN n ELSE 0)
    BY <1>14 DEF Down
  <2>4. /\ fg.kind[b] = "source" => x = k[b] + m
        /\ fg.kind[b] = "head" => x = k[b] - m
        /\ fg.kind[b] \in {"copy", "head"} => n = m
        /\ fg.kind[b] = "sink" => x = Least(k[b] + n, MaxCount)
    BY <1>5, <1>9, <1>10, <1>11 DEF Kind
  <2>5. Moving(fg, k, avail, M, T, b, n, m, x, K2, A2, M2, T2)
    BY <1>15, <1>16, <1>17, <2>2, <2>3, <2>4, Zenon DEF Moving
  <2> QED
    BY <1>3, <1>6, <2>1, <2>2, <2>5, MoveBalanced
<1>20. ASSUME Kind[b] \in StreamKinds, r.fin PROVE Through(fg, infin', avail', M2, T2, b)
  <2>1. Blocks = 1..Len(fg.kind) /\ b \in 1..Len(fg.kind)
    BY DEF Blocks, N, Kind
  <2>2. CASE Kind[b] = "source"
    <3>1. M2[b] = Items
      BY <1>5, <1>11, <1>15, <1>19, <1>20, <2>1, <2>2 DEF Balanced, Kind
    <3> QED
      BY <2>2, <3>1 DEF Through, Kind
  <2>3. CASE Kind[b] = "head"
    <3>1. M2[b] + x = Items /\ x = 0
      BY <1>5, <1>11, <1>15, <1>19, <1>20, <2>1, <2>3 DEF Balanced, Kind
    <3>2. M2[b] = Items
      BY <1>18, <3>1, KernelsAssumption
    <3> QED
      BY <2>3, <3>2 DEF Through, Kind
  <2>4. CASE Kind[b] \in {"copy", "sink"}
    <3>1. infin[b] /\ n = i /\ HasInput(b)
      BY <1>5, <1>9, <1>20, <2>4 DEF HasInput, StreamInputs
    <3>2. PICK u : u = Up(b)
      OBVIOUS
    <3>3. u \in Blocks /\ u # b /\ Down[u] = b /\ M[u] = Items /\ T[b] + avail[u] = Items
      BY <1>1, <3>1, <3>2, ReadsAll
    <3>4. n = avail[u]
      BY <1>4, <3>1, <3>2
    <3>5. T2[b] = Items
      BY <1>18, <3>3, <3>4
    <3>6. A2[u] = 0
      <4>1. A2[u] = avail[u] + 0 - n /\ avail[u] \in Nat
        BY <1>6, <1>14, <3>3
      <4> QED
        BY <3>4, <4>1
    <3>7. \A c \in Blocks : Down[c] = b => c = u
      BY <1>7, <3>2
    <3>8. ReadOut(fg, infin', avail', b)
      BY <1>1, <1>12, <2>1, <3>1, <3>6, <3>7 DEF ReadOut, Down
    <3>9. Kind[b] = "copy" => M2[b] = Items
      BY <1>19, <2>1, <3>5 DEF Balanced, Kind
    <3> QED
      BY <2>4, <3>5, <3>8, <3>9 DEF Through, Kind
  <2> QED
    BY <1>5, <1>20, <2>2, <2>3, <2>4 DEF StreamKinds, StreamInputs, StreamOutputs
<1>21. ASSUME NEW c \in Blocks, Kind[c] \in StreamKinds, io'[c].finished
       PROVE  Through(fg, infin', avail', M2, T2, c) \/ CutOff(fg, pc', c)
  <2>1. CASE c = b
    <3>1. ~io[b].finished
      BY <1>1 DEF PhaseInv
    <3> QED
      BY <1>2, <1>20, <1>21, <2>1, <3>1
  <2>2. CASE c # b
    <3>1. io[c].finished /\ infin'[c] = infin[c]
      BY <1>1, <1>21, <2>2 DEF Turn
    <3>2. Through(fg, infin, avail, M, T, c) \/ CutOff(fg, pc, c)
      BY <1>21, <3>1 DEF Flows
    <3>3. CASE CutOff(fg, pc, c)
      <4>1. Down[c] \in Blocks
        BY <1>3, <3>3, StreamEnds DEF CutOff, Down
      <4> QED
        BY <3>3, <4>1 DEF CutOff, Down
    <3>4. CASE Through(fg, infin, avail, M, T, c)
      <4>1. ASSUME ReadOut(fg, infin, avail, c) PROVE ReadOut(fg, infin', avail', c)
        <5>1. infin[c] /\ \A u \in Blocks : Down[u] = c => avail[u] = 0
          BY <4>1 DEF ReadOut, Blocks, N, Kind, Down
        <5>2. ASSUME NEW u \in Blocks, Down[u] = c PROVE avail'[u] = 0
          <6>1. pc[u] \in Gone
            BY <5>1, <5>2 DEF PhaseInv
          <6>2. u # b /\ Down[u] # b
            BY <1>1, <2>2, <5>2, <6>1 DEF Gone
          <6> QED
            BY <1>12, <1>14, <5>1, <5>2, <6>2
        <5> QED
          BY <3>1, <5>1, <5>2 DEF ReadOut, Blocks, N, Kind, Down
      <4> QED
        BY <1>18, <2>2, <3>4, <4>1 DEF Through
    <3> QED
      BY <3>2, <3>3, <3>4
  <2> QED
    BY <2>1, <2>2
<1>22. Flows(M2, T2)'
  BY <1>3, <1>12, <1>13, <1>19, <1>21 DEF Flows
<1> QED
  BY <1>18, <1>22

\* A StreamOutputDone is true: the reader is gone, which means a Head.
LEMMA ReaderGone ==
  ASSUME IndInv, TypesInv, PhaseInv, NEW M, NEW T, Flows(M, T),
         NEW b \in Blocks, pc[b] = "loop", Truthful(fg, pc, b, "StreamOutputDone")
  PROVE  CutOff(fg, pc, b)
<1>1. fg \in Flowgraphs /\ DOMAIN pc = Blocks /\ 0 \notin Blocks
  BY BlocksFinite DEF IndInv, TypeInv
<1>2. PICK d : d = Down[b]
  OBVIOUS
<1>3. d \in Blocks /\ pc[d] \in Gone /\ d # 0
  BY <1>1, <1>2 DEF Truthful, Down
<1>4. HasInput(d)
  BY <1>1, <1>2, <1>3, StreamEnds
<1>5. io[d].finished /\ Kind[d] \in StreamKinds
  BY <1>3, <1>4 DEF PhaseInv, HasInput, StreamKinds
<1>6. Through(fg, infin, avail, M, T, d) \/ CutOff(fg, pc, d)
  BY <1>3, <1>5 DEF Flows
<1>7. \E h \in 1..Len(fg.kind) : fg.kind[h] = "head"
  <2>1. CASE CutOff(fg, pc, d)
    BY <2>1 DEF CutOff
  <2>2. CASE Kind[d] = "head"
    BY <1>3, <2>2 DEF Blocks, N, Kind
  <2>3. CASE Through(fg, infin, avail, M, T, d) /\ Kind[d] # "head"
    <3>1. infin[d]
      BY <1>4, <2>3 DEF Through, ReadOut, HasInput, StreamInputs, Kind
    <3>2. pc[b] \in Gone
      BY <1>2, <1>3, <3>1 DEF PhaseInv
    <3> QED
      BY <3>2 DEF Gone
  <2> QED
    BY <1>6, <2>1, <2>2, <2>3
<1> QED
  BY <1>2, <1>3, <1>7 DEF CutOff, Down

\* A step of block b's task in which no items move.
LEMMA TurnFlows ==
  ASSUME IndInv, NEW M, NEW T, Flows(M, T), NEW b \in Blocks, Turn(b), avail' = avail,
         \A c \in Blocks : pc[c] \in Gone => pc'[c] \in Gone,
         infin[b] => infin'[b],
         Kind[b] \in StreamKinds =>
            k'[b] = k[b] /\ (io'[b].finished => io[b].finished \/ CutOff(fg, pc, b))
  PROVE  Flows(M, T)'
<1>1. fg' = fg /\ fg \in Flowgraphs
  BY DEF Turn, IndInv, TypeInv
<1>2. \A c \in Blocks : Down[c] # 0 => Down[c] \in Blocks
  BY <1>1, StreamEnds
<1>3. /\ \A c \in Blocks : infin[c] => infin'[c]
      /\ \A c \in Blocks : Kind[c] \in StreamKinds =>
            k'[c] = k[c] /\ (io'[c].finished => io[c].finished \/ CutOff(fg, pc, c))
  BY DEF Turn
<1> QED
  BY <1>1, <1>2, <1>3, StillFlows

\* Steps of a task in which no items move.
LEMMA TaskFlows ==
  ASSUME IndInv, TypesInv, PhaseInv, TruthInv, NEW M, NEW T, Flows(M, T),
         NEW b \in Blocks, BlockNext(b), ~BlockWork(b), ~failed'[b],
         \A c \in Blocks : pc[c] \in Gone => pc'[c] \in Gone
  PROVE  Flows(M, T)'
<1>1. CASE BlockStart(b)
  <2>1. Turn(b) /\ avail' = avail /\ io'[b] = io[b] /\ infin'[b] = infin[b] /\ k'[b] = k[b]
    BY <1>1, Starts
  <2> QED
    BY <2>1, TurnFlows
<1>2. CASE BlockSetup(b)
  <2>1. Turn(b) /\ avail' = avail /\ io'[b] = io[b] /\ infin'[b] = infin[b] /\ k'[b] = k[b]
    BY <1>2, SetsUp
  <2> QED
    BY <2>1, TurnFlows
<1>3. CASE BlockReceive(b)
  <2>1. PICK m : m = Head(inbox[b].queue)
    OBVIOUS
  <2>2. PICK h : h = Reaction(b, m)
    OBVIOUS
  <2>3. /\ Turn(b) /\ avail' = avail /\ TakesOne(b) /\ pc[b] = "loop"
        /\ io'[b].finished = (io[b].finished \/ h.fin \/ Stops(m))
        /\ infin'[b] = (infin[b] \/ m = "StreamInputDone")
        /\ k'[b] = h.k
    BY <1>3, <2>1, <2>2, Receives
  <2>4. Kind[b] \in StreamKinds => h.k = k[b] /\ ~h.fin
    <3>1. Kind[b] \in StreamKinds => h = Idle(k[b])
      BY <2>2 DEF Reaction, Handler, StreamKinds, StreamInputs, StreamOutputs
    <3> QED
      BY <3>1 DEF Idle
  <2>5. Truthful(fg, pc, b, m)
    BY <2>1, <2>3, TakingTrue
  <2>6. Stops(m) => CutOff(fg, pc, b)
    BY <2>3, <2>5, ReaderGone DEF Stops, Truthful
  <2>7. /\ infin[b] => infin'[b]
        /\ Kind[b] \in StreamKinds =>
             k'[b] = k[b] /\ (io'[b].finished => io[b].finished \/ CutOff(fg, pc, b))
    BY <2>3, <2>4, <2>6
  <2> QED
    BY <2>3, <2>7, TurnFlows
<1>4. CASE BlockDrained(b) \/ BlockTimer(b)
  <2>1. /\ Turn(b) /\ avail' = avail
        /\ io'[b].finished = io[b].finished /\ infin'[b] = infin[b] /\ k'[b] = k[b]
    BY <1>4, Drains
  <2> QED
    BY <2>1, TurnFlows
<1>5. CASE BlockDeinit(b)
  <2>1. Turn(b) /\ avail' = avail /\ io'[b] = io[b] /\ infin'[b] = infin[b] /\ k'[b] = k[b]
    BY <1>5, Deinits
  <2> QED
    BY <2>1, TurnFlows
<1>6. CASE BlockSend(b)
  <2>1. PICK e : e = Head(outbox[b])
    OBVIOUS
  <2>2. Turn(b) /\ UNCHANGED <<pc, io, infin, k, avail>>
    BY <1>6, <2>1, SendMoves
  <2> QED
    BY <2>2, TurnFlows
<1> QED
  BY <1>1, <1>2, <1>3, <1>4, <1>5, <1>6 DEF BlockNext

\* A block that ends without an error has passed stream_ports_validate().
LEMMA Validated ==
  ASSUME IndInv, TypesInv, [Next]_vars, NEW b \in Blocks, ~failed'[b], pc[b] = "start"
  PROVE  pc'[b] # "done"
<1>1. pc \in [Blocks -> Pcs] /\ Blocks' = Blocks
  BY Phases DEF IndInv, TypeInv
<1>2. ASSUME NEW c \in Blocks, BlockNext(c) PROVE pc'[b] # "done"
  <2>1. CASE c # b
    <3>1. pc' = pc \/ \E p : pc' = [pc EXCEPT ![c] = p]
      BY <1>2 DEF BlockNext, BlockStart, BlockSetup, BlockReceive, BlockDrained, BlockTimer,
                  BlockWork, BlockDeinit, BlockSend, Fail
    <3> QED
      BY <1>1, <2>1, <3>1
  <2>2. CASE c = b
    <3>1. BlockStart(b) \/ BlockSend(b)
      BY <1>2, <2>2 DEF BlockNext, BlockSetup, BlockReceive, BlockDrained, BlockTimer,
                        BlockWork, BlockDeinit, Running
    <3>2. CASE BlockStart(b)
      BY <3>2, Starts
    <3>3. CASE BlockSend(b)
      <4>1. PICK e : e = Head(outbox[b])
        OBVIOUS
      <4>2. pc' = pc
        BY <3>3, <4>1, SendMoves
      <4> QED
        BY <4>2
    <3> QED
      BY <3>1, <3>2, <3>3
  <2> QED
    BY <2>1, <2>2
<1>3. CASE MainSend
  BY <1>3 DEF MainSend, blockVars
<1>4. CASE ~MainSend /\ \A c \in Blocks : ~BlockNext(c)
  BY <1>4, Elsewhere DEF blockVars
<1> QED
  BY <1>2, <1>3, <1>4

\* Every step.
LEMMA StreamStep ==
  ASSUME IndInv, IndInv', TypesInv, MailInv, StreamInv, [Next]_vars
  PROVE  StreamInv'
<1> SUFFICES ASSUME Undisturbed'
             PROVE  /\ (\A b \in Blocks : pc[b] # "start" => Linked(fg, b))'
                    /\ (\E M, T \in [Blocks -> Nat] : Flows(M, T))'
  BY DEF StreamInv
<1>1. /\ fg' = fg /\ Blocks' = Blocks /\ fg \in Flowgraphs
      /\ \A c \in Blocks : pc[c] \in Gone => pc'[c] \in Gone
      /\ PhaseInv /\ TruthInv
      /\ \A b \in Blocks : pc[b] # "start" => Linked(fg, b)
      /\ \E M, T \in [Blocks -> Nat] : Flows(M, T)
  BY Phases, OneWay DEF MailInv, StreamInv, IndInv, TypeInv
<1>2. \A b \in Blocks : ~failed'[b]
  BY <1>1 DEF Undisturbed
<1>3. ASSUME NEW b \in Blocks, pc'[b] # "start" PROVE Linked(fg, b)
  <2>1. CASE pc[b] # "start"
    BY <1>1, <2>1
  <2>2. CASE pc[b] = "start"
    <3>1. pc'[b] # "done"
      BY <1>2, <2>2, Validated
    <3> QED
      BY <1>1, <1>3, <3>1 DEF IndInv, TypeInv
  <2> QED
    BY <2>1, <2>2
<1>4. PICK M \in [Blocks -> Nat], T \in [Blocks -> Nat] : Flows(M, T)
  BY <1>1
<1>5. ASSUME UNCHANGED blockVars PROVE Flows(M, T)'
  <2>1. UNCHANGED <<fg, avail, pc, infin, k, io>>
    BY <1>5 DEF blockVars
  <2>2. \A c \in Blocks : Down[c] # 0 => Down[c] \in Blocks
    BY <1>1, StreamEnds
  <2> QED
    BY <1>4, <2>1, <2>2, StillFlows
<1>6. \E M2, T2 \in [Blocks -> Nat] : Flows(M2, T2)'
  <2>1. ASSUME NEW b \in Blocks, BlockWork(b) PROVE \E M2, T2 \in [Blocks -> Nat] : Flows(M2, T2)'
    BY <1>1, <1>2, <1>4, <2>1, WorkFlows
  <2>2. ASSUME NEW b \in Blocks, BlockNext(b), ~BlockWork(b) PROVE Flows(M, T)'
    BY <1>1, <1>2, <1>4, <2>2, TaskFlows
  <2>3. ASSUME MainSend PROVE Flows(M, T)'
    BY <1>5, <2>3 DEF MainSend
  <2>4. ASSUME ~MainSend, \A b \in Blocks : ~BlockNext(b) PROVE Flows(M, T)'
    <3>1. UNCHANGED blockVars
      BY <2>4, Elsewhere
    <3> QED
      BY <1>5, <3>1
  <2> QED
    BY <1>4, <2>1, <2>2, <2>3, <2>4
<1> QED
  BY <1>1, <1>3, <1>6

\* Nobody has made or taken anything.
LEMMA InitStream == Init => StreamInv
<1> SUFFICES ASSUME Init
             PROVE  /\ \A b \in Blocks : pc[b] # "start" => Linked(fg, b)
                    /\ \E M, T \in [Blocks -> Nat] : Flows(M, T)
  BY DEF StreamInv
<1>1. /\ fg \in Flowgraphs /\ \A b \in Blocks : pc[b] = "start" /\ io[b] = FreshIo /\ avail[b] = 0
      /\ \A b \in Blocks : k[b] = IF Kind[b] = "head" THEN Items ELSE 0
  BY DEF Init
<1>2. PICK Z : Z = [b \in Blocks |-> 0]
  OBVIOUS
<1>3. Z \in [Blocks -> Nat] /\ \A b \in Blocks : Z[b] = 0
  BY <1>2
<1>4. Items \in Nat /\ MaxCount \in Nat /\ Least(0, MaxCount) = 0
  BY KernelsAssumption DEF Least
<1>5. \A b \in Blocks : Down[b] # 0 => Down[b] \in Blocks
  BY <1>1, StreamEnds
<1>6. Balanced(fg, k, avail, Z, Z)
  <2> SUFFICES ASSUME NEW b \in Blocks
               PROVE  /\ fg.kind[b] = "source" => Z[b] = k[b]
                      /\ fg.kind[b] = "head" => Z[b] + k[b] = Items
                      /\ fg.kind[b] = "sink" => k[b] = Least(Z[b], MaxCount)
                      /\ fg.down[b] # 0 => Z[b] = Z[fg.down[b]] + avail[b]
    BY DEF Balanced, Blocks, N, Kind
  <2>1. Z[b] = 0 /\ avail[b] = 0 /\ (fg.down[b] # 0 => Z[fg.down[b]] = 0)
    BY <1>1, <1>3, <1>5 DEF Down
  <2>2. k[b] = IF fg.kind[b] = "head" THEN Items ELSE 0
    BY <1>1 DEF Kind
  <2> QED
    BY <1>4, <2>1, <2>2
<1>7. \A b \in Blocks : ~io[b].finished
  BY <1>1 DEF FreshIo
<1>8. Flows(Z, Z)
  BY <1>6, <1>7 DEF Flows
<1> QED
  BY <1>1, <1>3, <1>8

\* What the invariant says of a block that has ended by itself.
LEMMA StreamsEnd ==
  ASSUME IndInv, TypesInv, MailInv, StreamInv, Undisturbed, NEW b \in Blocks, pc[b] = "done"
  PROVE  /\ HasInput(b) /\ (\A h \in Blocks : Kind[h] # "head") => avail[Up(b)] = 0
         /\ Kind[b] = "sink" => k[b] = Items
<1>1. fg \in Flowgraphs /\ Linked(fg, b) /\ io[b].finished
  BY DEF IndInv, TypeInv, MailInv, PhaseInv, StreamInv, Gone
<1>2. PICK M \in [Blocks -> Nat], T \in [Blocks -> Nat] : Flows(M, T)
  BY DEF StreamInv
<1>3. ASSUME HasInput(b)
      PROVE  Through(fg, infin, avail, M, T, b) \/ CutOff(fg, pc, b)
  BY <1>1, <1>2, <1>3 DEF Flows, HasInput, StreamKinds
<1>4. ASSUME HasInput(b), \A h \in Blocks : Kind[h] # "head" PROVE avail[Up(b)] = 0
  <2>1. Through(fg, infin, avail, M, T, b)
    BY <1>3, <1>4 DEF CutOff, Blocks, N, Kind
  <2>2. ReadOut(fg, infin, avail, b)
    BY <1>4, <2>1 DEF Through, HasInput, StreamInputs, Kind
  <2>3. PICK u : u = Up(b)
    OBVIOUS
  <2>4. u \in Blocks /\ Down[u] = b
    BY <1>1, <1>4, <2>3, UpIsBlock
  <2> QED
    BY <2>2, <2>3, <2>4 DEF ReadOut, Blocks, N, Kind, Down
<1>5. ASSUME Kind[b] = "sink" PROVE k[b] = Items
  <2>1. Down[b] = 0
    BY <1>1, <1>5, StreamEnds DEF StreamOutputs
  <2>2. Through(fg, infin, avail, M, T, b)
    BY <1>3, <1>5, <2>1 DEF CutOff, Down, HasInput, StreamInputs
  <2>3. T[b] = Items /\ k[b] = Least(T[b], MaxCount)
    BY <1>2, <1>5, <2>2 DEF Through, Flows, Balanced, Blocks, N, Kind
  <2> QED
    BY <2>3, KernelsAssumption DEF Least
<1> QED
  BY <1>4, <1>5

-----------------------------------------------------------------------------
(* Nobody calls a handler from outside                                     *)

Asks == {"BlockCall", "BlockCallback"}
CallMsgs == {"Call", "CallFinished", "Callback"}
Polite(q) == \A i \in 1..Len(q) : q[i].type \notin Asks
Uncalling(s) == \A i \in 1..Len(s) : s[i].to # Main => s[i].msg \notin CallMsgs

\* run_flowgraph is not asked to call a handler, and calls none.
AskInv ==
    Undisturbed /\ Uncalled => Polite(mainbox.queue) /\ Polite(deferred) /\ Uncalling(mainout)

\* Messages are taken from a queue of run_flowgraph, or put into it.
LEMMA PoliteMoves ==
  ASSUME NEW q \in Seq(MainMsgs), Polite(q)
  PROVE  /\ q # <<>> => Head(q) \in MainMsgs /\ Head(q).type \notin Asks /\ Polite(Tail(q))
         /\ \A m \in MainMsgs : m.type \notin Asks => Polite(Append(q, m))
<1>1. ASSUME q # <<>> PROVE Head(q) \in MainMsgs /\ Head(q).type \notin Asks /\ Polite(Tail(q))
  <2>1. PICK t : t = Tail(q)
    OBVIOUS
  <2>2. Head(q) = q[1] /\ 1 \in 1..Len(q) /\ Head(q) \in MainMsgs
    BY <1>1
  <2>3. \A i \in 1..Len(t) : i + 1 \in 1..Len(q) /\ t[i] = q[i + 1]
    BY <1>1, <2>1
  <2> QED
    BY <2>1, <2>2, <2>3 DEF Polite
<1>2. ASSUME NEW m \in MainMsgs, m.type \notin Asks PROVE Polite(Append(q, m))
  <2>1. PICK t : t = Append(q, m)
    OBVIOUS
  <2>2. \A i \in 1..Len(t) : (i \in 1..Len(q) /\ t[i] = q[i]) \/ t[i] = m
    BY <2>1
  <2> QED
    BY <1>2, <2>1, <2>2 DEF Polite
<1> QED
  BY <1>1, <1>2

\* The outbox of run_flowgraph.
LEMMA UncallingMoves ==
  ASSUME NEW s \in Seq(Sends), s # <<>>, Uncalling(s)
  PROVE  /\ Uncalling(Tail(s)) /\ Uncalling(Marked(s))
         /\ Head(s).to # Main => Head(s).msg \notin CallMsgs
<1>1. PICK t : t = Tail(s)
  OBVIOUS
<1>2. PICK u : u = Marked(s)
  OBVIOUS
<1>3. /\ Head(s) = s[1] /\ 1 \in 1..Len(s)
      /\ \A i \in 1..Len(t) : t[i] = s[i + 1] /\ i + 1 \in 1..Len(s)
      /\ Len(u) = Len(s) /\ u[1].to = s[1].to /\ u[1].msg = s[1].msg
      /\ \A i \in 1..Len(s) : i # 1 => u[i] = s[i]
  BY <1>1, <1>2, MovedOutbox
<1> QED
  BY <1>1, <1>2, <1>3 DEF Uncalling

\* The queues of run_flowgraph, when it does not send itself.
LEMMA MainQueues ==
  ASSUME IndInv, Uncalled, [Next]_vars, ~MainSend, \A b \in Blocks : ~BlockNext(b)
  PROVE  /\ \/ mainbox'.queue = mainbox.queue
            \/ mainbox.queue # <<>> /\ mainbox'.queue = Tail(mainbox.queue)
            \/ deferred # <<>> /\ mainbox'.queue = Append(mainbox.queue, Head(deferred))
            \/ \E m \in MainMsgs : m.type \notin Asks /\ mainbox'.queue = Append(mainbox.queue, m)
         /\ \/ deferred' = deferred
            \/ deferred # <<>> /\ deferred' = Tail(deferred)
            \/ mainbox.queue # <<>> /\ deferred' = Append(deferred, Head(mainbox.queue))
<1>1. fg \in Flowgraphs
  BY DEF IndInv, TypeInv
<1>2. CASE MainInitSent \/ MainNotifyAll \/ MainReturn \/ MainAnswer
  BY <1>2 DEF MainInitSent, MainNotifyAll, MainReturn, MainAnswer
<1>3. CASE MainWaitInit \/ MainLoop
  <2>1. MainTake
    BY <1>3 DEF MainWaitInit, MainLoop
  <2>2. deferred' = deferred \/ deferred' = Append(deferred, Head(mainbox.queue))
    BY <1>3 DEF MainWaitInit, MainLoop, MainMessage
  <2>3. mainbox.queue # <<>> /\ mainbox'.queue = Tail(mainbox.queue)
    BY <2>1 DEF MainTake, Pop
  <2> QED
    BY <2>2, <2>3
<1>4. CASE MainRequeue
  <2>1. deferred # <<>> /\ deferred' = Tail(deferred)
    BY <1>4 DEF MainRequeue
  <2>2. mainbox' = mainbox \/ mainbox' = Push(mainbox, FromMain, Head(deferred), QueueSize)
    BY <1>4 DEF MainRequeue, MainTrySend
  <2> QED
    BY <2>1, <2>2 DEF Push
<1>5. CASE MainStarted
  <2>1. PICK m : m = ToMain("Terminate", 0)
    OBVIOUS
  <2>2. m \in MainMsgs /\ m.type \notin Asks
    BY <2>1 DEF ToMain, MainMsgs, RequestTypes, Asks
  <2>3. deferred' = deferred
    BY <1>5 DEF MainStarted
  <2>4. mainbox' = mainbox \/ mainbox' = Push(mainbox, FromMain, m, QueueSize)
    BY <1>5, <2>1 DEF MainStarted
  <2> QED
    BY <2>2, <2>3, <2>4 DEF Push
<1>6. ASSUME NEW c \in Clients, NEW r \in Requests[c], ClientAsk(c, r)
      PROVE  /\ deferred' = deferred
             /\ \/ mainbox'.queue = mainbox.queue
                \/ \E m \in MainMsgs :
                     m.type \notin Asks /\ mainbox'.queue = Append(mainbox.queue, m)
  <2>1. PICK m : m = [type |-> r[1], block |-> r[2], client |-> c]
    OBVIOUS
  <2>2. r \in RequestTypes \X Nat
    BY <1>1, RuntimeAssumption DEF WellFormed, Requests
  <2>3. r[1] \in RequestTypes /\ r[2] \in Nat /\ r[1] \notin Asks
    BY <2>2 DEF Uncalled, Asks
  <2>4. m \in MainMsgs /\ m.type \notin Asks
    BY <2>1, <2>3 DEF MainMsgs
  <2>5. deferred' = deferred
    BY <1>6 DEF ClientAsk, mainVars
  <2>6. mainbox' = mainbox \/ mainbox' = Push(mainbox, Via(c), m, QueueSize)
    BY <1>6, <2>1 DEF ClientAsk
  <2> QED
    BY <2>4, <2>5, <2>6 DEF Push
<1>7. ASSUME NEW c \in Clients, ClientFlushed(c) PROVE UNCHANGED <<mainbox, deferred>>
  BY <1>7 DEF ClientFlushed, mainVars
<1>8. ASSUME Quiet \/ UNCHANGED vars PROVE UNCHANGED <<mainbox, deferred>>
  BY <1>8 DEF Quiet, vars, mainVars
<1> QED
  BY <1>2, <1>3, <1>4, <1>5, <1>6, <1>7, <1>8 DEF Next, MainNext, ClientNext

\* What a block sends to run_flowgraph is about itself.
LEMMA ReportsPolite ==
  ASSUME IndInv, NEW b \in Blocks, outbox[b] # <<>>, NEW e, e = Head(outbox[b]), e.to = Main
  PROVE  e.msg \in MainMsgs /\ e.msg.type \notin Asks
<1>1. PICK s \in Seq(Sends) : s = outbox[b]
  BY DEF IndInv, TypeInv
<1>2. e = s[1] /\ 1 \in 1..Len(s) /\ e \in Sends
  BY <1>1
<1>3. e.msg \in MainMsgs
  BY <1>2 DEF Sends, Letters, Main
<1>4. NoLastWord(s) \/ \E f : LastWord(s, b, f)
  BY <1>1 DEF IndInv, TokenInv, Token
<1>5. e.msg.type = "Initialized" \/ \E f : e.msg = ToMain(EndType(f), b)
  BY <1>2, <1>4 DEF NoLastWord, LastWord
<1>6. e.msg.type \in {"Initialized", "BlockDone", "BlockError"}
  <2>1. ASSUME NEW f, e.msg = ToMain(EndType(f), b) PROVE e.msg.type \in {"BlockDone", "BlockError"}
    <3>1. e.msg.type = EndType(f)
      BY <2>1 DEF ToMain
    <3> QED
      BY <3>1 DEF EndType
  <2> QED
    BY <1>5, <2>1
<1> QED
  BY <1>3, <1>6 DEF Asks

\* Every step.
LEMMA AskStep ==
  ASSUME IndInv, TypesInv, AskInv, [Next]_vars
  PROVE  AskInv'
<1> SUFFICES ASSUME Undisturbed', Uncalled'
             PROVE  Polite(mainbox.queue)' /\ Polite(deferred)' /\ Uncalling(mainout)'
  BY DEF AskInv
<1>1. /\ fg' = fg /\ Blocks' = Blocks /\ Undisturbed
  BY Phases, OneWay
<1>2. ~terminated' /\ \A b \in Blocks : ~failed'[b]
  BY <1>1 DEF Undisturbed
<1>3. Uncalled
  BY <1>1 DEF Uncalled, Requests
<1>4. Polite(mainbox.queue) /\ Polite(deferred) /\ Uncalling(mainout)
  BY <1>1, <1>3 DEF AskInv
<1>5. mainbox.queue \in Seq(MainMsgs) /\ deferred \in Seq(MainMsgs) /\ mainout \in Seq(Sends)
  BY DEF IndInv, TypeInv
<1>6. ASSUME NEW b \in Blocks, BlockNext(b)
      PROVE  Polite(mainbox'.queue) /\ deferred' = deferred /\ mainout' = mainout
  <2>1. UNCHANGED mainVars
    BY <1>6 DEF BlockNext, BlockStart, BlockSetup, BlockReceive, BlockDrained, BlockTimer,
                BlockWork, BlockDeinit, BlockSend
  <2>2. deferred' = deferred /\ mainout' = mainout
    BY <2>1 DEF mainVars
  <2>3. CASE ~BlockSend(b)
    <3>1. mainbox' = mainbox
      BY <1>6, <2>3 DEF BlockNext, BlockStart, BlockSetup, BlockReceive, BlockDrained, BlockTimer,
                        BlockWork, BlockDeinit
    <3> QED
      BY <1>4, <2>2, <3>1
  <2>4. CASE BlockSend(b)
    <3>1. PICK e : e = Head(outbox[b])
      OBVIOUS
    <3>2. /\ outbox[b] # <<>>
          /\ \/ UNCHANGED mainbox
             \/ e.to = Main /\ mainbox'.queue = Append(mainbox.queue, e.msg)
      BY <1>2, <2>4, <3>1, SendMoves
    <3>3. e.to = Main => e.msg \in MainMsgs /\ e.msg.type \notin Asks
      BY <3>1, <3>2, ReportsPolite
    <3> QED
      BY <1>4, <1>5, <2>2, <3>2, <3>3, PoliteMoves
  <2> QED
    BY <2>3, <2>4
<1>7. ASSUME MainSend
      PROVE  Polite(mainbox'.queue) /\ deferred' = deferred /\ Uncalling(mainout')
  <2>1. PICK e : e = Head(mainout)
    OBVIOUS
  <2>2. /\ mainout # <<>> /\ deferred' = deferred
        /\ mainout' = Tail(mainout) \/ mainout' = Marked(mainout)
        /\ \/ UNCHANGED mainbox
           \/ e.to = Main /\ mainbox'.queue = Append(mainbox.queue, e.msg)
    BY <1>7, <2>1, MainSendMoves
  <2>3. e.to = Main => e.msg \in MainMsgs /\ e.msg.type \notin Asks
    <3>1. PICK s \in Seq(Sends) : s = mainout
      BY <1>5
    <3>2. e = s[1] /\ 1 \in 1..Len(s) /\ Orders(s)
      BY <2>1, <2>2, <3>1 DEF IndInv, TypeInv
    <3>3. e.to = Main => e.msg = ToMain("Terminate", 0)
      BY <3>2 DEF Orders
    <3> QED
      BY <3>3 DEF ToMain, MainMsgs, RequestTypes, Asks
  <2>4. Uncalling(mainout')
    BY <1>4, <1>5, <2>2, UncallingMoves
  <2> QED
    BY <1>4, <1>5, <2>2, <2>3, <2>4, PoliteMoves
<1>8. ASSUME ~MainSend, \A b \in Blocks : ~BlockNext(b)
      PROVE  Polite(mainbox'.queue) /\ Polite(deferred') /\ Uncalling(mainout')
  <2>1. Polite(mainbox'.queue) /\ Polite(deferred')
    BY <1>3, <1>4, <1>5, <1>8, MainQueues, PoliteMoves
  <2>2. ASSUME mainbox.queue # <<>> PROVE Head(mainbox.queue).type \notin Asks
    BY <1>4, <1>5, <2>2, PoliteMoves
  <2>3. \/ mainout' = mainout \/ mainout' = <<>> \/ mainout' = ToAll("Notify")
        \/ mainout' = <<Send(Main, FromMain, ToMain("Terminate", 0))>>
        \/ \E x : mainout' = <<Send(x, FromMain, "BlockDescription")>>
    BY <1>2, <1>8, <2>2, Elsewhere DEF Asks
  <2>4. Uncalling(mainout')
    <3>1. CASE mainout' = mainout
      BY <1>4, <3>1
    <3>2. CASE mainout' = <<>>
      BY <3>2 DEF Uncalling
    <3>3. CASE mainout' = ToAll("Notify")
      <4>1. PICK s : s = ToAll("Notify")
        OBVIOUS
      <4>2. s \in Seq(Sends) /\ N \in Nat
        BY <4>1, ToAllAway, BlocksFinite DEF BlockMsgs, IndInv, TypeInv
      <4>3. DOMAIN s = 1..N /\ \A i \in 1..N : s[i].msg = "Notify"
        BY <4>1 DEF ToAll, Send
      <4>4. Len(s) = N
        BY <4>2, <4>3, LenProperties, SMT
      <4>5. Uncalling(s)
        BY <4>3, <4>4 DEF Uncalling, CallMsgs
      <4> QED
        BY <3>3, <4>1, <4>5
    <3>4. CASE mainout' = <<Send(Main, FromMain, ToMain("Terminate", 0))>>
      <4>1. PICK e : e = Send(Main, FromMain, ToMain("Terminate", 0))
        OBVIOUS
      <4>2. e.to = Main
        BY <4>1 DEF Send
      <4>3. \A i \in 1..Len(<<e>>) : <<e>>[i].to = Main
        BY <4>2
      <4> QED
        BY <3>4, <4>1, <4>3 DEF Uncalling
    <3>5. ASSUME NEW x, mainout' = <<Send(x, FromMain, "BlockDescription")>>
          PROVE  Uncalling(mainout')
      <4>1. PICK e : e = Send(x, FromMain, "BlockDescription")
        OBVIOUS
      <4>2. e.msg = "BlockDescription"
        BY <4>1 DEF Send
      <4>3. \A i \in 1..Len(<<e>>) : <<e>>[i].msg = "BlockDescription"
        BY <4>2
      <4> QED
        BY <3>5, <4>1, <4>3 DEF Uncalling, CallMsgs
    <3> QED
      BY <2>3, <3>1, <3>2, <3>3, <3>4, <3>5
  <2> QED
    BY <2>1, <2>4
<1> QED
  BY <1>4, <1>6, <1>7, <1>8

\* Nobody has been asked anything.
LEMMA InitAsk == Init => AskInv
<1> SUFFICES ASSUME Init PROVE Polite(mainbox.queue) /\ Polite(deferred) /\ Uncalling(mainout)
  BY DEF AskInv
<1>1. /\ fg \in Flowgraphs /\ mainbox = EmptyChannel /\ deferred = <<>>
      /\ mainout = ToAll("Initialize")
  BY DEF Init
<1>2. Polite(mainbox.queue) /\ Polite(deferred)
  BY <1>1 DEF Polite, EmptyChannel
<1>3. PICK s : s = ToAll("Initialize")
  OBVIOUS
<1>4. s \in Seq(Sends) /\ N \in Nat
  BY <1>1, <1>3, ToAllAway, BlocksFinite DEF BlockMsgs
<1>5. DOMAIN s = 1..N /\ \A i \in 1..N : s[i].msg = "Initialize"
  BY <1>3 DEF ToAll, Send
<1>6. Len(s) = N
  BY <1>4, <1>5, LenProperties, SMT
<1>7. Uncalling(s)
  BY <1>5, <1>6 DEF Uncalling, CallMsgs
<1> QED
  BY <1>1, <1>2, <1>3, <1>7

-----------------------------------------------------------------------------
(* Counting messages                                                       *)

\* The outbox entry e is a message for block x that has not been pushed.
Owed(e, x) == e.to = x /\ e.msg = "Call" /\ ~e.pushed

\* Block x was sent w messages, and p when the outbox s of length n is empty: c
\* numbers the messages in s.
SendTally(c, n, s, x, w, p) ==
    /\ c \in [0..n -> 0..p] /\ c[0] = w /\ c[n] = p
    /\ \A i \in 1..n : c[i] = c[i - 1] + (IF Owed(s[i], x) THEN 1 ELSE 0)
Sending(s, x, w, p) == \E c : SendTally(c, Len(s), s, x, w, p)

\* A block has got g messages, and w when its inbox q of length n is empty; no
\* message comes behind the last one.
WaitTally(c, n, q, g, w) ==
    /\ c \in [0..n -> 0..w] /\ c[0] = g /\ c[n] = w
    /\ \A i \in 1..n : /\ c[i] = c[i - 1] + (IF q[i] = "Call" THEN 1 ELSE 0)
                       /\ q[i] = "CallFinished" => c[i] = w
Waiting(q, g, w) == \E c : WaitTally(c, Len(q), q, g, w)

\* An outbox without messages for block x.
LEMMA SendingNothing ==
  ASSUME NEW x, NEW w \in Nat
  PROVE  /\ \A s \in Seq(Sends) : (\A i \in 1..Len(s) : ~Owed(s[i], x)) => Sending(s, x, w, w)
         /\ \A p \in Nat : Sending(<<>>, x, w, p) => w = p
<1>1. ASSUME NEW s \in Seq(Sends), \A i \in 1..Len(s) : ~Owed(s[i], x) PROVE Sending(s, x, w, w)
  <2>1. PICK c : c = [i \in 0..Len(s) |-> w]
    OBVIOUS
  <2>2. Len(s) \in Nat
    OBVIOUS
  <2>3. c \in [0..Len(s) -> 0..w] /\ \A i \in 0..Len(s) : c[i] = w
    BY <2>1
  <2>4. c[0] = w /\ c[Len(s)] = w /\ \A i \in 1..Len(s) : c[i] = w /\ c[i - 1] = w
    BY <2>2, <2>3
  <2>5. SendTally(c, Len(s), s, x, w, w)
    BY <1>1, <2>3, <2>4 DEF SendTally
  <2> QED
    BY <2>5 DEF Sending
<1>2. ASSUME NEW p \in Nat, Sending(<<>>, x, w, p) PROVE w = p
  <2>1. Len(<<>>) = 0
    OBVIOUS
  <2> QED
    BY <1>2, <2>1 DEF Sending, SendTally
<1> QED
  BY <1>1, <1>2

\* The first message of an outbox is pushed, or flushed.
LEMMA SendingMoves ==
  ASSUME NEW s \in Seq(Sends), s # <<>>, NEW x, NEW w \in Nat, NEW p \in Nat, Sending(s, x, w, p),
         NEW v, v = IF Owed(Head(s), x) THEN w + 1 ELSE w
  PROVE  v \in Nat /\ Sending(Tail(s), x, v, p) /\ Sending(Marked(s), x, v, p)
<1>1. PICK c : SendTally(c, Len(s), s, x, w, p)
  BY DEF Sending
<1>2. PICK n \in Nat \ {0} : n = Len(s)
  BY MovedOutbox
<1>10. /\ c \in [0..n -> 0..p] /\ c[0] = w /\ c[n] = p
       /\ \A i \in 1..n : c[i] = c[i - 1] + (IF Owed(s[i], x) THEN 1 ELSE 0)
  BY <1>1, <1>2 DEF SendTally
<1>3. PICK t : t = Tail(s)
  OBVIOUS
<1>4. PICK u : u = Marked(s)
  OBVIOUS
<1>5. /\ Head(s) = s[1] /\ Len(t) = n - 1 /\ \A i \in 1..(n - 1) : t[i] = s[i + 1]
      /\ Len(u) = n /\ u[1].pushed /\ \A i \in 1..n : i # 1 => u[i] = s[i]
  BY <1>2, <1>3, <1>4, MovedOutbox
<1>6. c[1] = v /\ v \in 0..p
  <2>1. 1 \in 1..n /\ 1 - 1 = 0 /\ 1 \in 0..n
    BY <1>2
  <2>2. c[1] = c[0] + (IF Owed(s[1], x) THEN 1 ELSE 0) /\ c[1] \in 0..p
    BY <1>10, <2>1
  <2> QED
    BY <1>5, <1>10, <2>2
<1>7. Sending(t, x, v, p)
  <2>1. PICK d : d = [i \in 0..(n - 1) |-> c[i + 1]]
    OBVIOUS
  <2>2. /\ \A i \in 0..(n - 1) : i + 1 \in 0..n /\ d[i] = c[i + 1]
        /\ 0 \in 0..(n - 1) /\ n - 1 \in 0..(n - 1) /\ (n - 1) + 1 = n /\ 0 + 1 = 1
    BY <1>2, <2>1
  <2>3. d \in [0..(n - 1) -> 0..p] /\ d[0] = v /\ d[n - 1] = p
    BY <1>6, <1>10, <2>1, <2>2
  <2>4. ASSUME NEW i \in 1..(n - 1) PROVE d[i] = d[i - 1] + (IF Owed(t[i], x) THEN 1 ELSE 0)
    <3>1. i + 1 \in 1..n /\ (i + 1) - 1 = i /\ i \in 0..(n - 1) /\ i - 1 \in 0..(n - 1) /\ (i - 1) + 1 = i
      BY <1>2
    <3>2. c[i + 1] = c[i] + (IF Owed(s[i + 1], x) THEN 1 ELSE 0)
      BY <1>10, <3>1
    <3>3. d[i] = c[i + 1] /\ d[i - 1] = c[i]
      BY <2>2, <3>1
    <3> QED
      BY <1>5, <3>2, <3>3
  <2>5. SendTally(d, n - 1, t, x, v, p)
    BY <2>3, <2>4 DEF SendTally
  <2> QED
    BY <1>5, <2>5 DEF Sending
<1>8. Sending(u, x, v, p)
  <2>1. PICK d : d = [c EXCEPT ![0] = v]
    OBVIOUS
  <2>2. /\ 0 \in 0..n /\ n \in 0..n /\ n # 0
        /\ \A i \in 1..n : i \in 0..n /\ i # 0 /\ i - 1 \in 0..n /\ (i - 1 = 0 <=> i = 1)
    BY <1>2
  <2>3. /\ d \in [0..n -> 0..p] /\ d[0] = v /\ \A i \in 0..n : i # 0 => d[i] = c[i]
    BY <1>6, <1>10, <2>1, <2>2
  <2>4. ASSUME NEW i \in 1..n PROVE d[i] = d[i - 1] + (IF Owed(u[i], x) THEN 1 ELSE 0)
    <3>1. CASE i = 1
      <4>1. ~Owed(u[1], x) /\ d[1] = v /\ d[0] = v /\ 1 - 1 = 0
        BY <1>5, <1>6, <2>2, <2>3, <3>1 DEF Owed
      <4> QED
        BY <1>6, <3>1, <4>1
    <3>2. CASE i # 1
      <4>1. d[i] = c[i] /\ d[i - 1] = c[i - 1] /\ u[i] = s[i]
        BY <1>5, <2>2, <2>3, <3>2
      <4>2. c[i] = c[i - 1] + (IF Owed(s[i], x) THEN 1 ELSE 0)
        BY <1>10
      <4> QED
        BY <4>1, <4>2
    <3> QED
      BY <3>1, <3>2
  <2>5. d[n] = p
    BY <1>10, <2>2, <2>3
  <2>6. SendTally(d, n, u, x, v, p)
    BY <2>3, <2>4, <2>5 DEF SendTally
  <2> QED
    BY <1>5, <2>6 DEF Sending
<1>9. v \in Nat
  OBVIOUS
<1> QED
  BY <1>3, <1>4, <1>7, <1>8, <1>9

\* An outbox with something behind that is not for block x.
LEMMA SendingMore ==
  ASSUME NEW s \in Seq(Sends), NEW t \in Seq(Sends), NEW x, NEW w \in Nat, NEW p \in Nat,
         Sending(s, x, w, p), \A i \in 1..Len(t) : ~Owed(t[i], x)
  PROVE  Sending(s \o t, x, w, p)
<1>1. PICK c : SendTally(c, Len(s), s, x, w, p)
  BY DEF Sending
<1>2. PICK n \in Nat : n = Len(s)
  OBVIOUS
<1>12. /\ c \in [0..n -> 0..p] /\ c[0] = w /\ c[n] = p
       /\ \A i \in 1..n : c[i] = c[i - 1] + (IF Owed(s[i], x) THEN 1 ELSE 0)
  BY <1>1, <1>2 DEF SendTally
<1>3. PICK m \in Nat : m = Len(t)
  OBVIOUS
<1>4. PICK u : u = s \o t
  OBVIOUS
<1>5. /\ Len(u) = n + m /\ \A i \in 1..n : u[i] = s[i]
      /\ \A i \in 1..(n + m) : i \notin 1..n => u[i] = t[i - n] /\ i - n \in 1..m
  BY <1>2, <1>3, <1>4
<1>6. PICK d : d = [i \in 0..(n + m) |-> IF i <= n THEN c[i] ELSE p]
  OBVIOUS
<1>7. /\ \A i \in 0..(n + m) : i <= n => i \in 0..n /\ d[i] = c[i]
      /\ \A i \in 0..(n + m) : ~(i <= n) => d[i] = p
      /\ 0 \in 0..(n + m) /\ 0 <= n
  BY <1>6
<1>8. d \in [0..(n + m) -> 0..p] /\ d[0] = w
  <2>1. ASSUME NEW i \in 0..(n + m) PROVE d[i] \in 0..p
    <3>1. CASE i <= n
      <4>1. i \in 0..n /\ d[i] = c[i]
        BY <1>7, <3>1
      <4> QED
        BY <1>12, <4>1
    <3>2. CASE ~(i <= n)
      BY <1>7, <3>2
    <3> QED
      BY <3>1, <3>2
  <2>2. d[0] = w
    BY <1>7, <1>12
  <2> QED
    BY <1>6, <2>1, <2>2
<1>9. \A i \in 0..(n + m) : i >= n => d[i] = p
  BY <1>7, <1>12
<1>10. ASSUME NEW i \in 1..(n + m) PROVE d[i] = d[i - 1] + (IF Owed(u[i], x) THEN 1 ELSE 0)
  <2>1. i \in 0..(n + m) /\ i - 1 \in 0..(n + m)
    OBVIOUS
  <2>2. CASE i <= n
    <3>1. i \in 1..n /\ d[i] = c[i] /\ d[i - 1] = c[i - 1]
      BY <1>7, <2>1, <2>2
    <3> QED
      BY <1>5, <1>12, <3>1
  <2>3. CASE ~(i <= n)
    <3>1. d[i] = p /\ d[i - 1] = p /\ i \notin 1..n
      BY <1>9, <2>1, <2>3
    <3>2. ~Owed(u[i], x)
      BY <1>3, <1>5, <3>1
    <3> QED
      BY <3>1, <3>2
  <2> QED
    BY <2>2, <2>3
<1>11. d[n + m] = p
  BY <1>9
<1>13. SendTally(d, n + m, u, x, w, p)
  BY <1>8, <1>10, <1>11 DEF SendTally
<1> QED
  BY <1>4, <1>5, <1>13 DEF Sending

\* Quotient and remainder of a division by a positive number.
LEMMA Dividing ==
  ASSUME NEW d \in Nat \ {0}, NEW a \in Nat
  PROVE  a \div d \in Nat /\ a % d \in 0..(d - 1) /\ a = d * (a \div d) + (a % d)
BY SMT

\* There are no others.
LEMMA Quotients ==
  ASSUME NEW d \in Nat \ {0}, NEW x \in Nat, NEW y \in Nat, NEW r \in 0..(d - 1), NEW t \in 0..(d - 1),
         d * x + r = d * y + t
  PROVE  x = y /\ r = t
<1>1. ASSUME NEW u \in Nat, NEW v \in Nat, NEW e \in 0..(d - 1), NEW f \in 0..(d - 1), u < v
      PROVE  d * u + e # d * v + f
  <2>1. PICK z \in Nat : v = u + 1 + z
    <3>1. v - u - 1 \in Nat /\ v = u + 1 + (v - u - 1)
      BY <1>1
    <3> QED
      BY <3>1
  <2>2. d * v = d * u + d + d * z
    BY <2>1, SMT
  <2>3. d * u \in Nat /\ d * z \in Nat
    BY SMT
  <2> QED
    BY <2>2, <2>3
<1>2. x = y
  BY <1>1
<1>3. d * x \in Nat
  BY SMT
<1> QED
  BY <1>2, <1>3

\* c[i] of the first i of l messages, in n rounds, are for the j-th of d blocks.
Rounded(c, l, d, j, n) ==
    /\ c \in [0..l -> 0..n] /\ c[0] = 0 /\ c[l] = n
    /\ \A i \in 1..l : c[i] = c[i - 1] + (IF ((i - 1) % d) + 1 = j THEN 1 ELSE 0)

\* There are such numbers.
LEMMA Rounds ==
  ASSUME NEW d \in Nat \ {0}, NEW j \in 1..d, NEW n \in Nat, NEW l, l = n * d
  PROVE  \E c : Rounded(c, l, d, j, n)
<1>1. l \in Nat /\ l = n * d
  BY SMT
<1>2. PICK c : c = [i \in 0..l |-> (i \div d) + (IF i % d >= j THEN 1 ELSE 0)]
  OBVIOUS
<1>3. ASSUME NEW x \in Nat, NEW r \in 0..(d - 1), NEW i \in 0..l, i = d * x + r
      PROVE  c[i] = x + (IF r >= j THEN 1 ELSE 0)
  <2>1. PICK y : y = i \div d
    OBVIOUS
  <2>2. PICK t : t = i % d
    OBVIOUS
  <2>3. i \in Nat
    OBVIOUS
  <2>4. y \in Nat /\ t \in 0..(d - 1) /\ i = d * y + t
    BY <2>1, <2>2, <2>3, Dividing, Zenon
  <2>5. y = x /\ t = r
    BY <1>3, <2>4, Quotients
  <2>6. c[i] = y + (IF t >= j THEN 1 ELSE 0)
    BY <1>2, <2>1, <2>2
  <2> QED
    BY <2>5, <2>6
<1>4. ASSUME NEW i \in 0..l PROVE \E x \in Nat : \E r \in 0..(d - 1) : i = d * x + r
  <2>1. i \in Nat
    OBVIOUS
  <2> QED
    BY <2>1, Dividing, Zenon
<1>5. c[0] = 0 /\ c[l] = n
  <2>1. d * 0 + 0 = 0 /\ d * n + 0 = l
    BY <1>1, SMT
  <2>2. 0 \in 0..(d - 1) /\ 0 \in 0..l /\ l \in 0..l /\ ~(0 >= j)
    BY <1>1
  <2>3. c[0] = 0 + (IF 0 >= j THEN 1 ELSE 0)
    BY <1>3, <2>1, <2>2
  <2>4. c[l] = n + (IF 0 >= j THEN 1 ELSE 0)
    BY <1>3, <2>1, <2>2
  <2> QED
    BY <2>2, <2>3, <2>4
<1>6. ASSUME NEW i \in 0..l PROVE c[i] \in 0..n
  <2>1. PICK x \in Nat, r \in 0..(d - 1) : i = d * x + r
    BY <1>4
  <2>2. c[i] = x + (IF r >= j THEN 1 ELSE 0)
    BY <1>3, <2>1
  <2>3. CASE x < n
    BY <2>2, <2>3
  <2>4. CASE ~(x < n)
    <3>1. PICK z \in Nat : x = n + z
      <4>1. x - n \in Nat /\ x = n + (x - n)
        BY <2>4
      <4> QED
        BY <4>1
    <3>2. d * x = l + d * z /\ d * z \in Nat
      BY <1>1, <3>1, SMT
    <3>3. d * z = 0 /\ r = 0
      BY <1>1, <2>1, <3>2
    <3>4. z = 0
      <4>1. d * z + 0 = d * 0 + 0 /\ 0 \in 0..(d - 1)
        BY <3>3, SMT
      <4> QED
        BY <4>1, Quotients
    <3> QED
      BY <2>2, <3>1, <3>3, <3>4
  <2> QED
    BY <2>3, <2>4
<1>7. ASSUME NEW i \in 1..l
      PROVE  c[i] = c[i - 1] + (IF ((i - 1) % d) + 1 = j THEN 1 ELSE 0)
  <2>1. i \in 0..l /\ i - 1 \in 0..l /\ i - 1 \in Nat
    BY <1>1
  <2>2. PICK r : r = (i - 1) % d
    OBVIOUS
  <2>3. PICK x : x = (i - 1) \div d
    OBVIOUS
  <2>4. x \in Nat /\ r \in 0..(d - 1) /\ i - 1 = d * x + r
    BY <2>1, <2>2, <2>3, Dividing, Zenon
  <2>5. c[i - 1] = x + (IF r >= j THEN 1 ELSE 0)
    BY <1>3, <2>1, <2>4
  <2>6. CASE r = d - 1
    <3>1. i = d * (x + 1) + 0
      <4>1. d * (x + 1) = d * x + d /\ d * x \in Nat
        BY <2>4, SMT
      <4> QED
        BY <2>1, <2>4, <2>6, <4>1
    <3>2. c[i] = (x + 1) + (IF 0 >= j THEN 1 ELSE 0)
      <4>1. 0 \in 0..(d - 1) /\ x + 1 \in Nat
        BY <2>4
      <4> QED
        BY <1>3, <2>1, <3>1, <4>1
    <3>3. c[i] = c[i - 1] + (IF r + 1 = j THEN 1 ELSE 0)
      BY <2>4, <2>5, <2>6, <3>2
    <3> QED
      BY <2>2, <3>3
  <2>7. CASE r # d - 1
    <3>1. i = d * x + (r + 1) /\ r + 1 \in 0..(d - 1)
      <4>1. d * x \in Nat
        BY <2>4, SMT
      <4> QED
        BY <2>1, <2>4, <2>7, <4>1
    <3>2. c[i] = x + (IF r + 1 >= j THEN 1 ELSE 0)
      BY <1>3, <2>1, <2>4, <3>1
    <3>3. c[i] = c[i - 1] + (IF r + 1 = j THEN 1 ELSE 0)
      BY <2>4, <2>5, <2>7, <3>2
    <3> QED
      BY <2>2, <3>3
  <2> QED
    BY <2>6, <2>7
<1>8. c \in [0..l -> 0..n]
  BY <1>2, <1>6
<1>9. Rounded(c, l, d, j, n)
  BY <1>5, <1>7, <1>8 DEF Rounded
<1> QED
  BY <1>9

\* mio.post() of n messages.
LEMMA SendingSpread ==
  ASSUME NEW out, NEW d \in Nat, d = Len(out), NEW s, NEW n \in Nat, Spread(s, n, out, "Call"),
         NEW j \in 1..d, \A i \in 1..d : out[i] = out[j] => i = j, NEW w \in Nat
  PROVE  Sending(s, out[j], w, w + n)
<1>1. d \in Nat \ {0}
  OBVIOUS
<1>2. PICK l : l = n * d
  OBVIOUS
<1>3. l \in Nat
  BY <1>2, SMT
<1>10. PICK c : Rounded(c, l, d, j, n)
  BY <1>1, <1>2, Rounds
<1>4. /\ c \in [0..l -> 0..n] /\ c[0] = 0 /\ c[l] = n
      /\ \A i \in 1..l : c[i] = c[i - 1] + (IF ((i - 1) % d) + 1 = j THEN 1 ELSE 0)
  BY <1>10 DEF Rounded
<1>5. /\ Len(s) = l
      /\ \A i \in 1..l : /\ ((i - 1) % d) + 1 \in 1..d
                         /\ s[i].to = out[((i - 1) % d) + 1]
                         /\ s[i].msg = "Call" /\ ~s[i].pushed
  BY <1>2 DEF Spread
<1>6. PICK e : e = [i \in 0..l |-> w + c[i]]
  OBVIOUS
<1>7. ASSUME NEW i \in 1..l PROVE e[i] = e[i - 1] + (IF Owed(s[i], out[j]) THEN 1 ELSE 0)
  <2>1. PICK m : m = ((i - 1) % d) + 1
    OBVIOUS
  <2>2. m \in 1..d /\ s[i].to = out[m] /\ s[i].msg = "Call" /\ ~s[i].pushed
    BY <1>5, <2>1
  <2>3. Owed(s[i], out[j]) <=> m = j
    BY <2>2 DEF Owed
  <2>4. c[i] = c[i - 1] + (IF m = j THEN 1 ELSE 0)
    BY <1>4, <2>1
  <2>5. i \in 0..l /\ i - 1 \in 0..l
    BY <1>3
  <2>6. e[i] = w + c[i] /\ e[i - 1] = w + c[i - 1] /\ c[i] \in 0..n /\ c[i - 1] \in 0..n
    BY <1>4, <1>6, <2>5
  <2>7. CASE m = j
    BY <2>3, <2>4, <2>6, <2>7
  <2>8. CASE m # j
    BY <2>3, <2>4, <2>6, <2>8
  <2> QED
    BY <2>7, <2>8
<1>8. e \in [0..l -> 0..(w + n)] /\ e[0] = w /\ e[l] = w + n
  <2>1. 0 \in 0..l /\ l \in 0..l
    BY <1>3
  <2>2. ASSUME NEW i \in 0..l PROVE w + c[i] \in 0..(w + n)
    <3>1. c[i] \in 0..n
      BY <1>4
    <3> QED
      BY <3>1
  <2> QED
    BY <1>4, <1>6, <2>1, <2>2
<1>9. SendTally(e, l, s, out[j], w, w + n)
  BY <1>7, <1>8 DEF SendTally
<1> QED
  BY <1>5, <1>9 DEF Sending

\* A message is taken from the inbox.
LEMMA WaitingTail ==
  ASSUME NEW q \in Seq(BlockMsgs), q # <<>>, NEW g \in Nat, NEW w \in Nat, Waiting(q, g, w),
         NEW h, h = IF Head(q) = "Call" THEN g + 1 ELSE g
  PROVE  /\ h \in Nat /\ Waiting(Tail(q), h, w)
         /\ Head(q) = "Call" => g < w
         /\ Head(q) = "CallFinished" => g = w
<1>1. PICK n \in Nat \ {0} : n = Len(q)
  <2>1. Len(q) \in Nat \ {0}
    OBVIOUS
  <2> QED
    BY <2>1
<1>2. PICK c : WaitTally(c, Len(q), q, g, w)
  BY DEF Waiting
<1>3. /\ c \in [0..n -> 0..w] /\ c[0] = g /\ c[n] = w
      /\ \A i \in 1..n : /\ c[i] = c[i - 1] + (IF q[i] = "Call" THEN 1 ELSE 0)
                         /\ q[i] = "CallFinished" => c[i] = w
  BY <1>1, <1>2 DEF WaitTally
<1>4. PICK t : t = Tail(q)
  OBVIOUS
<1>5. Head(q) = q[1] /\ Len(t) = n - 1 /\ \A i \in 1..(n - 1) : t[i] = q[i + 1]
  BY <1>1, <1>4
<1>6. c[1] = h /\ h \in 0..w /\ (q[1] = "CallFinished" => h = w)
  <2>1. 1 \in 1..n /\ 1 - 1 = 0 /\ 1 \in 0..n
    BY <1>1
  <2>2. c[1] = c[0] + (IF q[1] = "Call" THEN 1 ELSE 0) /\ c[1] \in 0..w /\ (q[1] = "CallFinished" => c[1] = w)
    BY <1>3, <2>1
  <2> QED
    BY <1>3, <1>5, <2>2
<1>7. PICK d : d = [i \in 0..(n - 1) |-> c[i + 1]]
  OBVIOUS
<1>8. /\ \A i \in 0..(n - 1) : i + 1 \in 0..n /\ d[i] = c[i + 1]
      /\ 0 \in 0..(n - 1) /\ n - 1 \in 0..(n - 1) /\ (n - 1) + 1 = n /\ 0 + 1 = 1
  BY <1>1, <1>7
<1>9. d \in [0..(n - 1) -> 0..w] /\ d[0] = h /\ d[n - 1] = w
  BY <1>3, <1>6, <1>7, <1>8
<1>10. ASSUME NEW i \in 1..(n - 1)
       PROVE  /\ d[i] = d[i - 1] + (IF t[i] = "Call" THEN 1 ELSE 0)
              /\ t[i] = "CallFinished" => d[i] = w
  <2>1. i + 1 \in 1..n /\ (i + 1) - 1 = i /\ i \in 0..(n - 1) /\ i - 1 \in 0..(n - 1) /\ (i - 1) + 1 = i
    BY <1>1
  <2>2. /\ c[i + 1] = c[i] + (IF q[i + 1] = "Call" THEN 1 ELSE 0)
        /\ q[i + 1] = "CallFinished" => c[i + 1] = w
    BY <1>3, <2>1
  <2>3. d[i] = c[i + 1] /\ d[i - 1] = c[i]
    BY <1>8, <2>1
  <2> QED
    BY <1>5, <2>2, <2>3
<1>11. WaitTally(d, n - 1, t, h, w)
  BY <1>9, <1>10 DEF WaitTally
<1>12. Waiting(Tail(q), h, w)
  BY <1>4, <1>5, <1>11 DEF Waiting
<1> QED
  BY <1>5, <1>6, <1>12

\* A message is put into the inbox.
LEMMA WaitingAppend ==
  ASSUME NEW q \in Seq(BlockMsgs), NEW g \in Nat, NEW w \in Nat, Waiting(q, g, w),
         NEW m \in BlockMsgs, m = "Call" => \A i \in 1..Len(q) : q[i] # "CallFinished",
         NEW v, v = IF m = "Call" THEN w + 1 ELSE w
  PROVE  v \in Nat /\ Waiting(Append(q, m), g, v)
<1>1. PICK n \in Nat : n = Len(q)
  OBVIOUS
<1>2. PICK c : WaitTally(c, Len(q), q, g, w)
  BY DEF Waiting
<1>3. /\ c \in [0..n -> 0..w] /\ c[0] = g /\ c[n] = w
      /\ \A i \in 1..n : /\ c[i] = c[i - 1] + (IF q[i] = "Call" THEN 1 ELSE 0)
                         /\ q[i] = "CallFinished" => c[i] = w
  BY <1>1, <1>2 DEF WaitTally
<1>4. PICK t : t = Append(q, m)
  OBVIOUS
<1>5. Len(t) = n + 1 /\ t[n + 1] = m /\ \A i \in 1..n : t[i] = q[i]
  BY <1>1, <1>4
<1>6. PICK d : d = [i \in 0..(n + 1) |-> IF i <= n THEN c[i] ELSE v]
  OBVIOUS
<1>7. v \in Nat /\ w <= v
  OBVIOUS
<1>8. /\ \A i \in 0..n : i \in 0..(n + 1) /\ d[i] = c[i]
      /\ d[n + 1] = v /\ n \in 0..n /\ 0 \in 0..n
  BY <1>6
<1>9. d \in [0..(n + 1) -> 0..v]
  <2>1. ASSUME NEW i \in 0..(n + 1) PROVE d[i] \in 0..v
    <3>1. CASE i \in 0..n
      <4>1. d[i] = c[i] /\ c[i] \in 0..w
        BY <1>3, <1>8, <3>1
      <4> QED
        BY <1>7, <4>1
    <3>2. CASE i = n + 1
      BY <1>7, <1>8, <3>2
    <3> QED
      BY <3>1, <3>2
  <2> QED
    BY <1>6, <2>1
<1>10. ASSUME NEW i \in 1..(n + 1)
       PROVE  /\ d[i] = d[i - 1] + (IF t[i] = "Call" THEN 1 ELSE 0)
              /\ t[i] = "CallFinished" => d[i] = v
  <2>1. CASE i \in 1..n
    <3>1. i \in 0..n /\ i - 1 \in 0..n
      BY <2>1
    <3>2. d[i] = c[i] /\ d[i - 1] = c[i - 1] /\ t[i] = q[i]
      BY <1>5, <1>8, <2>1, <3>1
    <3>3. /\ c[i] = c[i - 1] + (IF q[i] = "Call" THEN 1 ELSE 0)
          /\ q[i] = "CallFinished" => c[i] = w /\ v = w
      BY <1>1, <1>3, <2>1
    <3> QED
      BY <3>2, <3>3
  <2>2. CASE i = n + 1
    <3>1. d[i] = v /\ d[i - 1] = w /\ t[i] = m
      <4>1. i - 1 = n
        BY <2>2
      <4> QED
        BY <1>3, <1>5, <1>8, <2>2, <4>1
    <3> QED
      BY <3>1
  <2> QED
    BY <2>1, <2>2
<1>11. d[0] = g /\ d[n + 1] = v
  BY <1>3, <1>8
<1>12. WaitTally(d, n + 1, t, g, v)
  BY <1>9, <1>10, <1>11 DEF WaitTally
<1> QED
  BY <1>4, <1>5, <1>7, <1>12 DEF Waiting

\* An empty inbox.
LEMMA WaitingNothing ==
  ASSUME NEW g \in Nat
  PROVE  Waiting(<<>>, g, g)
<1>1. PICK c : c = [i \in 0..0 |-> g]
  OBVIOUS
<1>2. WaitTally(c, 0, <<>>, g, g)
  BY <1>1 DEF WaitTally
<1>3. Len(<<>>) = 0
  OBVIOUS
<1> QED
  BY <1>2, <1>3 DEF Waiting

-----------------------------------------------------------------------------
(* Who calls whom                                                          *)

\* The entry e of an outbox goes to one of the blocks in out, if it is a message
\* for a handler; the last one, and only that, is sent when the block, at p, is gone.
Tells(e, out, p, B) ==
    e.to \in B => /\ e.msg # "Callback"
                  /\ e.msg \in {"Call", "CallFinished"} => \E j \in 1..Len(out) : e.to = out[j]
                  /\ e.msg = "Call" => p \notin Gone
                  /\ e.msg = "CallFinished" => p \in Gone
Proper(s, out, p, B) == \A i \in 1..Len(s) : Tells(s[i], out, p, B)

\* The message m in the inbox of block x, if it is one for a handler, comes from a
\* block that posts to x, and x has been initialized.
Heard(g, P, x, m) ==
    /\ m # "Callback"
    /\ m \in {"Call", "CallFinished"} =>
         /\ P[x] \notin Setup
         /\ \E u \in DOMAIN P : /\ m = "CallFinished" => P[u] \in Gone
                                /\ \E j \in 1..Len(g.msgOut[u]) : x = g.msgOut[u][j]
HeardAll(g, P, q, x) == \A i \in 1..Len(q) : Heard(g, P, x, q[i])

Calling == \A b \in Blocks : /\ Proper(outbox[b], MsgOut[b], pc[b], Blocks)
                             /\ HeardAll(fg, pc, inbox[b].queue, b)
CallInv == Undisturbed /\ NoEarlyPosts /\ Uncalled => Calling

\* What was heard stays so while no block comes back.
LEMMA HeardStays ==
  ASSUME NEW g, NEW P, NEW R, DOMAIN R = DOMAIN P, \A c \in DOMAIN P : P[c] \in Gone => R[c] \in Gone,
         \A c \in DOMAIN P : P[c] \notin Setup => R[c] \notin Setup, NEW x \in DOMAIN P
  PROVE  \A q : HeardAll(g, P, q, x) => HeardAll(g, R, q, x)
<1>1. ASSUME NEW m, Heard(g, P, x, m) PROVE Heard(g, R, x, m)
  <2>1. CASE m \in {"Call", "CallFinished"}
    <3>1. PICK u \in DOMAIN P : /\ m = "CallFinished" => P[u] \in Gone
                                /\ \E j \in 1..Len(g.msgOut[u]) : x = g.msgOut[u][j]
      BY <1>1, <2>1 DEF Heard
    <3> QED
      BY <1>1, <2>1, <3>1 DEF Heard
  <2>2. CASE m \notin {"Call", "CallFinished"}
    BY <1>1, <2>2 DEF Heard
  <2> QED
    BY <2>1, <2>2
<1> QED
  BY <1>1 DEF HeardAll

\* A message is taken from an inbox, or put into it.
LEMMA HeardMoves ==
  ASSUME NEW g, NEW P, NEW x, NEW q \in Seq(BlockMsgs), HeardAll(g, P, q, x)
  PROVE  /\ q # <<>> => Heard(g, P, x, Head(q)) /\ HeardAll(g, P, Tail(q), x)
         /\ \A m \in BlockMsgs : Heard(g, P, x, m) => HeardAll(g, P, Append(q, m), x)
<1>1. ASSUME q # <<>> PROVE Heard(g, P, x, Head(q)) /\ HeardAll(g, P, Tail(q), x)
  <2>1. PICK t : t = Tail(q)
    OBVIOUS
  <2>2. Head(q) = q[1] /\ 1 \in 1..Len(q)
    BY <1>1
  <2>3. \A i \in 1..Len(t) : i + 1 \in 1..Len(q) /\ t[i] = q[i + 1]
    BY <1>1, <2>1
  <2> QED
    BY <2>1, <2>2, <2>3 DEF HeardAll
<1>2. ASSUME NEW m \in BlockMsgs, Heard(g, P, x, m) PROVE HeardAll(g, P, Append(q, m), x)
  <2>1. PICK t : t = Append(q, m)
    OBVIOUS
  <2>2. \A i \in 1..Len(t) : (i \in 1..Len(q) /\ t[i] = q[i]) \/ t[i] = m
    BY <2>1
  <2> QED
    BY <1>2, <2>1, <2>2 DEF HeardAll
<1> QED
  BY <1>1, <1>2

\* The first message of an outbox is pushed, or flushed.
LEMMA ProperMoves ==
  ASSUME NEW s \in Seq(Sends), s # <<>>, NEW out, NEW p, NEW B, Proper(s, out, p, B)
  PROVE  Proper(Tail(s), out, p, B) /\ Proper(Marked(s), out, p, B) /\ Tells(Head(s), out, p, B)
<1>1. PICK t : t = Tail(s)
  OBVIOUS
<1>2. PICK u : u = Marked(s)
  OBVIOUS
<1>3. /\ Head(s) = s[1] /\ 1 \in 1..Len(s)
      /\ \A i \in 1..Len(t) : t[i] = s[i + 1] /\ i + 1 \in 1..Len(s)
      /\ Len(u) = Len(s) /\ u[1].to = s[1].to /\ u[1].msg = s[1].msg
      /\ \A i \in 1..Len(s) : i # 1 => u[i] = s[i]
  BY <1>1, <1>2, MovedOutbox
<1>4. Proper(t, out, p, B) /\ Tells(s[1], out, p, B)
  BY <1>3 DEF Proper
<1>5. Tells(u[1], out, p, B)
  BY <1>3, <1>4 DEF Tells
<1>6. Proper(u, out, p, B)
  BY <1>3, <1>5 DEF Proper
<1> QED
  BY <1>1, <1>2, <1>3, <1>4, <1>6

\* What a block posts, with answers behind, before it is gone.
LEMMA PostsProper ==
  ASSUME fg \in Flowgraphs, NEW b \in Blocks, NEW n \in Nat, NEW p, p \notin Gone, NEW u \in Seq(Sends),
         \A i \in 1..Len(u) : u[i].to \notin Blocks
  PROVE  /\ Proper(Posts(b, n, "Call"), MsgOut[b], p, Blocks)
         /\ Proper(Posts(b, n, "Call") \o u, MsgOut[b], p, Blocks)
<1>1. PICK s : s = Posts(b, n, "Call")
  OBVIOUS
<1>2. PICK out : out = MsgOut[b]
  OBVIOUS
<1>3. s \in Seq(Sends) /\ Spread(s, n, out, "Call")
  BY <1>1, <1>2, PostsAre DEF BlockMsgs
<1>4. ASSUME NEW i \in 1..Len(s) PROVE Tells(s[i], out, p, Blocks)
  <2>1. PICK j : j = ((i - 1) % Len(out)) + 1
    OBVIOUS
  <2>2. j \in 1..Len(out) /\ s[i].to = out[j] /\ s[i].msg = "Call"
    BY <1>3, <2>1 DEF Spread
  <2> QED
    BY <2>2 DEF Tells
<1>5. ASSUME NEW i \in 1..Len(u) PROVE Tells(u[i], out, p, Blocks)
  BY DEF Tells
<1>6. PICK t : t = s \o u
  OBVIOUS
<1>7. \A i \in 1..Len(t) : \/ i \in 1..Len(s) /\ t[i] = s[i]
                           \/ i - Len(s) \in 1..Len(u) /\ t[i] = u[i - Len(s)]
  BY <1>3, <1>6
<1> QED
  BY <1>1, <1>2, <1>4, <1>5, <1>6, <1>7 DEF Proper

\* What a block sends when it shuts down.
LEMMA FarewellsProper ==
  ASSUME fg \in Flowgraphs, NEW b \in Blocks, Linked(fg, b), NEW p, p \in Gone
  PROVE  /\ Proper(Farewells(b), MsgOut[b], p, Blocks) /\ Farewells(b) \in Seq(Sends)
         /\ \A i \in 1..Len(Farewells(b)) : Farewells(b)[i].msg # "Call"
<1>1. PICK s : s = Farewells(b)
  OBVIOUS
<1>2. PICK out : out = MsgOut[b]
  OBVIOUS
<1>3. /\ s \in Seq(Sends)
      /\ \A i \in 1..Len(s) :
           \/ s[i].msg \in {"StreamOutputDone", "StreamInputDone"}
           \/ s[i].msg = "CallFinished" /\ \E j \in 1..Len(out) : s[i].to = out[j]
  BY <1>1, <1>2, FarewellsAre
<1>4. Proper(s, out, p, Blocks)
  BY <1>3 DEF Proper, Tells
<1> QED
  BY <1>1, <1>2, <1>3, <1>4

\* A step of block b's task.
LEMMA TurnCalls ==
  ASSUME IndInv, IndInv', Calling, NEW b \in Blocks, Turn(b),
         \A c \in Blocks : pc[c] \in Gone => pc'[c] \in Gone,
         \A c \in Blocks : pc[c] \notin Setup => pc'[c] \notin Setup,
         Proper(outbox'[b], MsgOut[b], pc'[b], Blocks),
         \A c \in Blocks : HeardAll(fg, pc, inbox'[c].queue, c)
  PROVE  Calling'
<1>1. fg' = fg /\ Blocks' = Blocks /\ MsgOut' = MsgOut
  BY DEF Turn, Blocks, N, Kind, MsgOut
<1>2. DOMAIN pc = Blocks /\ DOMAIN pc' = Blocks
  BY <1>1 DEF IndInv, TypeInv
<1>3. PICK P : P = pc
  OBVIOUS
<1>4. PICK R : R = pc'
  OBVIOUS
<1>5. ASSUME NEW c \in Blocks PROVE HeardAll(fg, R, inbox'[c].queue, c)
  <2>1. PICK q : q = inbox'[c].queue
    OBVIOUS
  <2>2. HeardAll(fg, P, q, c)
    BY <1>3, <2>1
  <2>3. HeardAll(fg, R, q, c)
    BY <1>2, <1>3, <1>4, <2>2, HeardStays
  <2> QED
    BY <2>1, <2>3
<1>6. ASSUME NEW c \in Blocks PROVE Proper(outbox'[c], MsgOut[c], R[c], Blocks)
  <2>1. CASE c = b
    BY <1>4, <2>1
  <2>2. CASE c # b
    <3>1. outbox'[c] = outbox[c] /\ R[c] = pc[c]
      BY <1>4, <2>2 DEF Turn
    <3> QED
      BY <3>1 DEF Calling
  <2> QED
    BY <2>1, <2>2
<1> QED
  BY <1>1, <1>4, <1>5, <1>6 DEF Calling

\* A message is taken from the inbox.
LEMMA TakingHeard ==
  ASSUME TypesInv, Calling, NEW b \in Blocks, TakesOne(b)
  PROVE  /\ \A c \in Blocks : HeardAll(fg, pc, inbox'[c].queue, c)
         /\ Heard(fg, pc, b, Head(inbox[b].queue))
<1>1. PICK q : q = inbox[b].queue
  OBVIOUS
<1>2. q \in Seq(BlockMsgs) /\ q # <<>> /\ inbox'[b].queue = Tail(q)
  BY <1>1 DEF TypesInv, PostInv, Boxes, TakesOne
<1>3. HeardAll(fg, pc, q, b)
  BY <1>1 DEF Calling
<1>4. Heard(fg, pc, b, Head(q)) /\ HeardAll(fg, pc, Tail(q), b)
  BY <1>2, <1>3, HeardMoves
<1>5. \A c \in Blocks : c # b => HeardAll(fg, pc, inbox'[c].queue, c)
  BY DEF TakesOne, Calling
<1> QED
  BY <1>1, <1>2, <1>4, <1>5

\* consume() and produce() notify the neighbours.
LEMMA NotifiedQueue ==
  ASSUME NEW b \in Blocks, NEW r, NEW c \in Blocks
  PROVE  \/ Notified(b, r)[c].queue = inbox[c].queue
         \/ Notified(b, r)[c].queue = Append(inbox[c].queue, "Notify")
<1>1. PICK ch : ch = inbox[c]
  OBVIOUS
<1>2. PICK size : size = QueueSize
  OBVIOUS
<1>3. PICK v : v = <<"notify", b>>
  OBVIOUS
<1>4. Notified(b, r)[c] = ch \/ Notified(b, r)[c] = TrySend(ch, v, "Notify", size)
  BY <1>1, <1>2, <1>3 DEF Notified
<1>5. TrySend(ch, v, "Notify", size).queue = ch.queue
        \/ TrySend(ch, v, "Notify", size).queue = Append(ch.queue, "Notify")
  BY DEF TrySend, Push
<1> QED
  BY <1>1, <1>4, <1>5

\* A message that is not for a handler is put into an inbox.
LEMMA PlainHeard ==
  ASSUME TypesInv, Calling, NEW c \in Blocks, NEW m \in BlockMsgs, m \notin CallMsgs
  PROVE  HeardAll(fg, pc, Append(inbox[c].queue, m), c)
<1>1. PICK q : q = inbox[c].queue
  OBVIOUS
<1>2. q \in Seq(BlockMsgs) /\ HeardAll(fg, pc, q, c)
  BY <1>1 DEF TypesInv, PostInv, Boxes, Calling
<1>3. Heard(fg, pc, c, m)
  BY DEF Heard, CallMsgs
<1> QED
  BY <1>1, <1>2, <1>3, HeardMoves

\* Nothing goes to a block before run_flowgraph has started all of them.
LEMMA SendsLate ==
  ASSUME IndInv, BeginInv, NoEarlyPosts, NEW b \in Blocks, outbox[b] # <<>>,
         NEW e, e = Head(outbox[b]), e.to \in Blocks
  PROVE  \A c \in Blocks : pc[c] \notin Setup
<1>1. ~Initializing
  <2> SUFFICES ASSUME Initializing PROVE FALSE
    OBVIOUS
  <2>1. PICK s \in Seq(Sends) : s = outbox[b]
    BY DEF IndInv, TypeInv
  <2>2. e = s[1] /\ 1 \in 1..Len(s)
    BY <2>1
  <2>3. e.to = Main
    BY <2>1, <2>2 DEF BeginInv, CalmInv, AllCalm, Calm
  <2> QED
    BY <2>3, BlocksFinite DEF Main, IndInv, TypeInv
<1> QED
  BY <1>1 DEF BeginInv, StartInv, Settled

\* BlockSend: a message is put into an inbox.
LEMMA SendCalls ==
  ASSUME IndInv, IndInv', TypesInv, BeginInv, NoEarlyPosts, Calling, NEW b \in Blocks, BlockSend(b), ~failed'[b]
  PROVE  Calling'
<1>1. PICK e : e = Head(outbox[b])
  OBVIOUS
<1>2. /\ Turn(b) /\ UNCHANGED <<pc, io, infin>> /\ outbox[b] # <<>>
      /\ outbox'[b] = Tail(outbox[b]) \/ outbox'[b] = Marked(outbox[b])
      /\ \/ UNCHANGED inbox
         \/ /\ e.to \in Blocks
            /\ inbox'[e.to].queue = Append(inbox[e.to].queue, e.msg)
            /\ \A c \in Blocks : c # e.to => inbox'[c] = inbox[c]
  BY <1>1, SendMoves
<1>3. PICK s : s = outbox[b]
  OBVIOUS
<1>4. /\ s \in Seq(Sends) /\ Proper(s, MsgOut[b], pc[b], Blocks) /\ DOMAIN pc = Blocks /\ Addressed(s, N)
      /\ N \in Nat
  BY <1>3, BlocksFinite DEF IndInv, TypeInv, Calling, TypesInv, PostInv
<1>9. s # <<>> /\ e = Head(s)
  BY <1>1, <1>2, <1>3, Zenon
<1>5. /\ Proper(Tail(s), MsgOut[b], pc[b], Blocks) /\ Proper(Marked(s), MsgOut[b], pc[b], Blocks)
      /\ Tells(e, MsgOut[b], pc[b], Blocks)
  BY <1>4, <1>9, ProperMoves
<1>6. e.to \in Blocks => e.msg \in BlockMsgs
  <2>1. Destined(e, N)
    BY <1>4, <1>9, AddressedMoves
  <2> QED
    BY <1>4, <2>1 DEF Destined, Main, Blocks
<1>7. \A c \in Blocks : HeardAll(fg, pc, inbox'[c].queue, c)
  <2>1. CASE UNCHANGED inbox
    BY <2>1 DEF Calling
  <2>2. CASE /\ e.to \in Blocks
             /\ inbox'[e.to].queue = Append(inbox[e.to].queue, e.msg)
             /\ \A c \in Blocks : c # e.to => inbox'[c] = inbox[c]
    <3>1. PICK q : q = inbox[e.to].queue
      OBVIOUS
    <3>2. q \in Seq(BlockMsgs) /\ HeardAll(fg, pc, q, e.to)
      BY <2>2, <3>1 DEF TypesInv, PostInv, Boxes, Calling
    <3>3. pc[e.to] \notin Setup
      BY <1>1, <1>2, <2>2, SendsLate
    <3>4. Heard(fg, pc, e.to, e.msg)
      BY <1>4, <1>5, <2>2, <3>3 DEF Heard, Tells, MsgOut
    <3>5. HeardAll(fg, pc, Append(q, e.msg), e.to)
      BY <1>6, <2>2, <3>2, <3>4, HeardMoves
    <3> QED
      BY <2>2, <3>1, <3>5 DEF Calling
  <2> QED
    BY <1>2, <2>1, <2>2
<1>8. Proper(outbox'[b], MsgOut[b], pc'[b], Blocks)
  BY <1>2, <1>3, <1>5
<1> QED
  BY <1>2, <1>7, <1>8, TurnCalls

\* The tasks of the blocks.
LEMMA TaskCalls ==
  ASSUME IndInv, IndInv', TypesInv, BeginInv, NoEarlyPosts, Calling, NEW b \in Blocks, BlockNext(b),
         ~failed'[b],
         \A c \in Blocks : pc[c] \in Gone => pc'[c] \in Gone,
         \A c \in Blocks : pc[c] \notin Setup => pc'[c] \notin Setup
  PROVE  Calling'
<1>1. fg \in Flowgraphs /\ b \in Nat /\ 0 \notin Blocks
  BY BlocksFinite DEF IndInv, TypeInv
<1>2. \A c \in Blocks : HeardAll(fg, pc, inbox[c].queue, c)
  BY DEF Calling
<1>3. ASSUME NEW p PROVE Proper(<<>>, MsgOut[b], p, Blocks)
  BY DEF Proper
<1>4. ASSUME NEW type, NEW p PROVE Proper(<<SendToMain(type, b)>>, MsgOut[b], p, Blocks)
  <2>1. PICK e : e = SendToMain(type, b)
    OBVIOUS
  <2>2. e.to = 0
    BY <2>1 DEF SendToMain, Send, Main
  <2>3. \A i \in 1..Len(<<e>>) : <<e>>[i].to = 0
    BY <2>2
  <2> QED
    BY <1>1, <2>1, <2>3 DEF Proper, Tells
<1>5. CASE BlockStart(b)
  <2>1. Turn(b) /\ UNCHANGED inbox /\ outbox'[b] = <<>>
    BY <1>5, Starts
  <2> QED
    BY <1>2, <1>3, <2>1, TurnCalls
<1>6. CASE BlockSetup(b)
  <2>1. /\ Turn(b) /\ TakesOne(b)
        /\ \/ outbox'[b] = <<>>
           \/ outbox'[b] = (IF InitPost[b] = "none" THEN <<>> ELSE Posts(b, 1, InitPost[b]))
                                \o <<SendToMain("Initialized", b)>>
    BY <1>6, SetsUp
  <2>2. outbox'[b] = <<>> \/ outbox'[b] = <<SendToMain("Initialized", b)>>
    <3>1. PICK u : u = <<SendToMain("Initialized", b)>>
      OBVIOUS
    <3>2. u \in Seq(Sends)
      BY <1>1, <3>1, InitializedSent
    <3>3. InitPost[b] = "none"
      BY DEF NoEarlyPosts
    <3>4. <<>> \o u = u
      BY <3>2
    <3> QED
      BY <2>1, <3>1, <3>3, <3>4
  <2>3. Proper(outbox'[b], MsgOut[b], pc'[b], Blocks)
    BY <1>3, <1>4, <2>2
  <2> QED
    BY <2>1, <2>3, TakingHeard, TurnCalls
<1>7. CASE BlockReceive(b)
  <2>1. PICK m : m = Head(inbox[b].queue)
    OBVIOUS
  <2>2. PICK h : h = Reaction(b, m)
    OBVIOUS
  <2>3. /\ Turn(b) /\ UNCHANGED pc /\ TakesOne(b) /\ pc[b] = "loop"
        /\ infin'[b] = (infin[b] \/ m = "StreamInputDone")
        /\ outbox'[b] = Posts(b, h.posts, "Call") \o Answers(b, m)
    BY <1>7, <2>1, <2>2, Receives
  <2>4. h.posts \in Nat
    <3>1. PICK last \in BOOLEAN : last = (m = "CallFinished")
      OBVIOUS
    <3>2. h = Handler(b, last) \/ h = Idle(k[b])
      BY <2>2, <3>1 DEF Reaction
    <3> QED
      BY <3>2, PostsCounted
  <2>5. PICK u : u = Answers(b, m)
    OBVIOUS
  <2>6. u \in Seq(Sends) /\ \A i \in 1..Len(u) : u[i].to \notin Blocks
    BY <1>1, <2>5, AnswersAre
  <2>7. pc'[b] \notin Gone /\ pc'[b] = "loop"
    BY <2>3 DEF Gone
  <2>8. PICK p : p = pc'[b]
    OBVIOUS
  <2>9. Proper(Posts(b, h.posts, "Call") \o u, MsgOut[b], p, Blocks)
    BY <1>1, <2>4, <2>6, <2>7, <2>8, PostsProper
  <2>10. Proper(outbox'[b], MsgOut[b], pc'[b], Blocks)
    BY <2>3, <2>5, <2>8, <2>9
  <2> QED
    BY <2>3, <2>10, TakingHeard, TurnCalls
<1>8. CASE BlockDrained(b) \/ BlockTimer(b)
  <2>1. /\ Turn(b) /\ UNCHANGED inbox /\ pc[b] = "loop"
        /\ \/ pc'[b] = "shutdown" /\ outbox'[b] = Farewells(b)
           \/ outbox'[b] = <<>>
    BY <1>8, Drains
  <2>2. Linked(fg, b)
    BY <2>1, RunningLinked DEF IndInv
  <2>3. Proper(outbox'[b], MsgOut[b], pc'[b], Blocks)
    <3>1. CASE pc'[b] = "shutdown" /\ outbox'[b] = Farewells(b)
      <4>1. PICK p : p = pc'[b]
        OBVIOUS
      <4>2. p \in Gone
        BY <3>1, <4>1 DEF Gone
      <4> QED
        BY <1>1, <2>2, <3>1, <4>1, <4>2, FarewellsProper
    <3>2. CASE outbox'[b] = <<>>
      BY <1>3, <3>2
    <3> QED
      BY <2>1, <3>1, <3>2
  <2> QED
    BY <1>2, <2>1, <2>3, TurnCalls
<1>9. CASE BlockWork(b)
  <2>1. /\ Turn(b) /\ pc'[b] = "loop"
        /\ \E r \in Outcomes(b) :
             inbox' = Notified(b, r) /\ outbox'[b] = Posts(b, r.posts, "Call")
    BY <1>9, Works, Zenon
  <2>2. PICK r \in Outcomes(b) :
             inbox' = Notified(b, r) /\ outbox'[b] = Posts(b, r.posts, "Call")
    BY <2>1
  <2>3. r.posts \in Nat
    BY PostsCounted
  <2>4. PICK p : p = pc'[b]
    OBVIOUS
  <2>5. p \notin Gone
    BY <2>1, <2>4 DEF Gone
  <2>6. <<>> \in Seq(Sends) /\ \A i \in 1..Len(<<>>) : <<>>[i].to \notin Blocks
    OBVIOUS
  <2>7. Proper(Posts(b, r.posts, "Call"), MsgOut[b], p, Blocks)
    BY <1>1, <2>3, <2>5, <2>6, PostsProper
  <2>8. Proper(outbox'[b], MsgOut[b], pc'[b], Blocks)
    BY <2>2, <2>4, <2>7
  <2>9. ASSUME NEW c \in Blocks PROVE HeardAll(fg, pc, inbox'[c].queue, c)
    <3>1. "Notify" \in BlockMsgs /\ "Notify" \notin CallMsgs
      BY DEF BlockMsgs, CallMsgs
    <3>2. inbox'[c].queue = inbox[c].queue \/ inbox'[c].queue = Append(inbox[c].queue, "Notify")
      BY <2>2, NotifiedQueue
    <3> QED
      BY <1>2, <3>1, <3>2, PlainHeard
  <2> QED
    BY <2>1, <2>8, <2>9, TurnCalls
<1>10. CASE BlockDeinit(b)
  <2>1. /\ Turn(b) /\ UNCHANGED inbox /\ outbox'[b] = <<SendToMain("BlockDone", b)>>
    BY <1>10, Deinits
  <2>2. Proper(outbox'[b], MsgOut[b], pc'[b], Blocks)
    BY <1>4, <2>1
  <2> QED
    BY <1>2, <2>1, <2>2, TurnCalls
<1>11. CASE BlockSend(b)
  BY <1>11, SendCalls
<1> QED
  BY <1>5, <1>6, <1>7, <1>8, <1>9, <1>10, <1>11 DEF BlockNext

\* Every step.
LEMMA CallStep ==
  ASSUME IndInv, IndInv', TypesInv, BeginInv, AskInv, CallInv, [Next]_vars
  PROVE  CallInv'
<1> SUFFICES ASSUME Undisturbed', NoEarlyPosts', Uncalled' PROVE Calling'
  BY DEF CallInv
<1>1. /\ fg' = fg /\ Blocks' = Blocks /\ fg \in Flowgraphs /\ NoEarlyPosts /\ Undisturbed
      /\ \A c \in Blocks : pc[c] \in Gone => pc'[c] \in Gone
      /\ \A c \in Blocks : pc[c] \notin Setup => pc'[c] \notin Setup
  BY Phases, OneWay, NoReturn DEF IndInv, TypeInv
<1>2. Uncalled
  BY <1>1 DEF Uncalled, Requests
<1>3. Calling /\ Uncalling(mainout)
  BY <1>1, <1>2 DEF CallInv, AskInv
<1>4. \A b \in Blocks : ~failed'[b]
  BY <1>1 DEF Undisturbed
<1>5. ASSUME NEW b \in Blocks, BlockNext(b) PROVE Calling'
  BY <1>1, <1>3, <1>4, <1>5, TaskCalls
<1>6. ASSUME UNCHANGED blockVars, \A c \in Blocks : HeardAll(fg, pc, inbox'[c].queue, c) PROVE Calling'
  <2>1. UNCHANGED <<fg, outbox, pc>> /\ MsgOut' = MsgOut
    BY <1>6 DEF blockVars, MsgOut
  <2> QED
    BY <1>1, <1>3, <1>6, <2>1 DEF Calling
<1>7. CASE MainSend
  <2>1. PICK e : e = Head(mainout)
    OBVIOUS
  <2>2. /\ UNCHANGED blockVars /\ mainout # <<>>
        /\ \/ UNCHANGED inbox
           \/ /\ e.to # Main
              /\ e.to \in Blocks => inbox'[e.to].queue = Append(inbox[e.to].queue, e.msg)
              /\ \A c \in Blocks : c # e.to => inbox'[c] = inbox[c]
    BY <1>7, <2>1, MainSendMoves
  <2>3. e.to # Main => e.msg \in BlockMsgs /\ e.msg \notin CallMsgs
    <3>1. mainout \in Seq(Sends) /\ Dispatched(mainout) /\ 0 \in Nat
      BY DEF IndInv, TypeInv, TypesInv, PostInv
    <3>2. e.to # Main => e.msg \in BlockMsgs
      BY <2>1, <2>2, <3>1, AddressedMoves
    <3>3. e.to # Main => e.msg \notin CallMsgs
      BY <1>3, <2>1, <2>2, <3>1, UncallingMoves
    <3> QED
      BY <3>2, <3>3
  <2>4. ASSUME NEW c \in Blocks PROVE HeardAll(fg, pc, inbox'[c].queue, c)
    <3>1. CASE inbox'[c] = inbox[c]
      BY <1>3, <3>1 DEF Calling
    <3>2. CASE inbox'[c].queue = Append(inbox[c].queue, e.msg) /\ e.to # Main
      BY <1>3, <2>3, <3>2, PlainHeard
    <3> QED
      BY <2>2, <3>1, <3>2
  <2> QED
    BY <1>6, <2>2, <2>4
<1>8. CASE ~MainSend /\ \A b \in Blocks : ~BlockNext(b)
  <2>1. UNCHANGED <<blockVars, inbox>>
    BY <1>8, Elsewhere
  <2>2. UNCHANGED blockVars /\ UNCHANGED inbox
    BY <2>1
  <2> QED
    BY <1>3, <1>6, <2>2 DEF Calling
<1> QED
  BY <1>5, <1>7, <1>8

\* Nobody has called anybody.
LEMMA InitCall == Init => CallInv
<1> SUFFICES ASSUME Init PROVE Calling
  BY DEF CallInv
<1>1. \A b \in Blocks : inbox[b] = EmptyChannel /\ outbox[b] = <<>>
  BY DEF Init
<1> QED
  BY <1>1 DEF Calling, Proper, HeardAll, EmptyChannel

-----------------------------------------------------------------------------
(* Messages                                                                *)

\* A kernel with the counter n has posted p messages and got g; f: it has finished.
Keeps(kind, n, f, p, g) ==
    /\ kind = "ticker" => p = n
    /\ kind = "burst" /\ ~f => p = 0
    /\ kind = "msg_copy" => p = g
    /\ kind = "msg_sink" => n = Least(g, MaxCount)
    /\ kind \in MessageOutputs /\ f => p = Burst
    /\ kind = "msg_sink" /\ f => g = Burst

\* A block that is at l and has posted p messages, some of them in its outbox s, is
\* connected to block x, which has got g of them; others are in its inbox q.
Line(q, s, x, g, p, l) ==
    \E w \in Nat : Waiting(q, g, w) /\ Sending(s, x, w, p) /\ (l \in Gone => w = p)
Lines(f, I, S, L, P, G) ==
    \A u \in 1..Len(f.kind) : \A j \in 1..Len(f.msgOut[u]) :
        Line(I[f.msgOut[u][j]].queue, S[u], f.msgOut[u][j], G[f.msgOut[u][j]], P[u], L[u])

\* Who sends messages to a block that was told it is the last one is gone.
Released ==
    \A b \in Blocks : HasMsgIn(b) /\ io[b].finished =>
        \A u \in Blocks : \A j \in 1..Len(MsgOut[u]) : MsgOut[u][j] = b => pc[u] \in Gone

Passes(P, G) ==
    /\ \A b \in Blocks : Keeps(Kind[b], k[b], io[b].finished, P[b], G[b])
    /\ Lines(fg, inbox, outbox, pc, P, G)

MessageInv == Undisturbed /\ NoEarlyPosts /\ SingleFed /\ Uncalled =>
                 Released /\ \E P, G \in [Blocks -> Nat] : Passes(P, G)

\* What a step does to an inbox, and to an outbox.
Receiving(q, g, q2, g2) == \A w \in Nat : Waiting(q, g, w) => Waiting(q2, g2, w)
Posting(s, x, p, l, s2, p2, l2) ==
    \A w \in Nat : Sending(s, x, w, p) /\ (l \in Gone => w = p) =>
                      Sending(s2, x, w, p2) /\ (l2 \in Gone => w = p2)

\* Together they keep the count.
LEMMA LinesStay ==
  ASSUME NEW f, NEW I, NEW S, NEW L, NEW P, NEW G, NEW J, NEW U, NEW M, NEW Q, NEW H,
         Lines(f, I, S, L, P, G),
         \A u \in 1..Len(f.kind) : \A j \in 1..Len(f.msgOut[u]) : f.msgOut[u][j] \in 1..Len(f.kind),
         \A x \in 1..Len(f.kind) : Receiving(I[x].queue, G[x], J[x].queue, H[x]),
         \A u \in 1..Len(f.kind) : \A j \in 1..Len(f.msgOut[u]) :
            Posting(S[u], f.msgOut[u][j], P[u], L[u], U[u], Q[u], M[u])
  PROVE  Lines(f, J, U, M, Q, H)
<1> SUFFICES ASSUME NEW u \in 1..Len(f.kind), NEW j \in 1..Len(f.msgOut[u]),
                    NEW x, x = f.msgOut[u][j]
             PROVE  Line(J[x].queue, U[u], x, H[x], Q[u], M[u])
  BY DEF Lines
<1>1. Line(I[x].queue, S[u], x, G[x], P[u], L[u])
  BY DEF Lines
<1>2. PICK w \in Nat : Waiting(I[x].queue, G[x], w) /\ Sending(S[u], x, w, P[u]) /\ (L[u] \in Gone => w = P[u])
  BY <1>1 DEF Line
<1>3. Receiving(I[x].queue, G[x], J[x].queue, H[x]) /\ Posting(S[u], x, P[u], L[u], U[u], Q[u], M[u])
  OBVIOUS
<1>4. Waiting(J[x].queue, H[x], w)
  BY <1>2, <1>3 DEF Receiving
<1>5. Sending(U[u], x, w, Q[u]) /\ (M[u] \in Gone => w = Q[u])
  BY <1>2, <1>3 DEF Posting
<1> QED
  BY <1>4, <1>5 DEF Line

\* Messages are taken from an inbox, or other ones put into it.
LEMMA ReceivingOne ==
  ASSUME NEW q \in Seq(BlockMsgs), NEW g \in Nat
  PROVE  /\ Receiving(q, g, q, g)
         /\ Receiving(q, g, Append(q, "Notify"), g)
         /\ q # <<>> /\ Head(q) = "Call" => Receiving(q, g, Tail(q), g + 1)
         /\ q # <<>> /\ Head(q) # "Call" => Receiving(q, g, Tail(q), g)
<1>1. Receiving(q, g, q, g)
  BY DEF Receiving
<1>2. ASSUME NEW w \in Nat, Waiting(q, g, w) PROVE Waiting(Append(q, "Notify"), g, w)
  <2>1. "Notify" \in BlockMsgs
    BY DEF BlockMsgs
  <2> QED
    BY <1>2, <2>1, WaitingAppend
<1>3. ASSUME NEW w \in Nat, Waiting(q, g, w), q # <<>>, NEW h, h = IF Head(q) = "Call" THEN g + 1 ELSE g
      PROVE  Waiting(Tail(q), h, w)
  BY <1>3, WaitingTail
<1> QED
  BY <1>1, <1>2, <1>3 DEF Receiving

\* n messages are posted by a block that has nothing else to send; or it sends none.
LEMMA PostingMore ==
  ASSUME NEW p \in Nat, NEW l, NEW l2, NEW x
  PROVE  /\ l = l2 => \A s : Posting(s, x, p, l, s, p, l2)
         /\ \A s \in Seq(Sends) : (\A i \in 1..Len(s) : ~Owed(s[i], x)) => Posting(<<>>, x, p, l, s, p, l2)
         /\ \A s \in Seq(Sends), n \in Nat :
              l2 \notin Gone /\ (\A w \in Nat : Sending(s, x, w, w + n)) => Posting(<<>>, x, p, l, s, p + n, l2)
<1>1. \A w \in Nat : Sending(<<>>, x, w, p) => w = p
  BY SendingNothing
<1>2. ASSUME NEW s \in Seq(Sends), \A i \in 1..Len(s) : ~Owed(s[i], x), NEW w \in Nat, Sending(<<>>, x, w, p)
      PROVE  Sending(s, x, w, p) /\ w = p
  BY <1>1, <1>2, SendingNothing
<1>3. ASSUME NEW s \in Seq(Sends), NEW n \in Nat, \A w \in Nat : Sending(s, x, w, w + n),
             NEW w \in Nat, Sending(<<>>, x, w, p)
      PROVE  Sending(s, x, w, p + n)
  BY <1>1, <1>3
<1> QED
  BY <1>2, <1>3 DEF Posting

\* Whom a block's messages go to.
LEMMA PostEnds ==
  ASSUME fg \in Flowgraphs, NEW u \in Blocks
  PROVE  /\ MsgOut[u] \in Seq(Blocks)
         /\ \A j \in 1..Len(MsgOut[u]) : MsgOut[u][j] \in Blocks /\ Kind[u] \in MessageOutputs
<1>1. WellFormed(fg) /\ N \in Nat
  BY RuntimeAssumption, BlocksFinite
<1>2. PICK out : out = MsgOut[u]
  OBVIOUS
<1>3. out \in Seq(Blocks) /\ (out # <<>> => Kind[u] \in MessageOutputs)
  BY <1>1, <1>2 DEF WellFormed, Blocks, N, Kind, MsgOut
<1>4. \A j \in 1..Len(out) : out[j] \in Blocks /\ out # <<>>
  BY <1>3
<1> QED
  BY <1>2, <1>3, <1>4

\* A step of block b's task.
LEMMA TurnPasses ==
  ASSUME IndInv, IndInv', Released, NEW P \in [Blocks -> Nat], NEW G \in [Blocks -> Nat], Passes(P, G),
         NEW b \in Blocks, Turn(b), \A c \in Blocks : pc[c] \in Gone => pc'[c] \in Gone,
         NEW p \in Nat, NEW g \in Nat,
         Keeps(Kind[b], k'[b], io'[b].finished, p, g),
         HasMsgIn(b) /\ io'[b].finished /\ ~io[b].finished =>
            \A u \in Blocks : \A j \in 1..Len(MsgOut[u]) : MsgOut[u][j] = b => pc[u] \in Gone,
         Receiving(inbox[b].queue, G[b], inbox'[b].queue, g),
         \A c \in Blocks : c # b => Receiving(inbox[c].queue, G[c], inbox'[c].queue, G[c]),
         \A j \in 1..Len(MsgOut[b]) :
            Posting(outbox[b], MsgOut[b][j], P[b], pc[b], outbox'[b], p, pc'[b])
  PROVE  Released' /\ \E Q, H \in [Blocks -> Nat] : Passes(Q, H)'
<1>1. /\ fg' = fg /\ Blocks' = Blocks /\ Kind' = Kind /\ MsgOut' = MsgOut /\ fg \in Flowgraphs
      /\ \A c \in Blocks : HasMsgIn(c)' = HasMsgIn(c)
  BY DEF Turn, Blocks, N, Kind, MsgOut, HasMsgIn, IndInv, TypeInv
<1>2. Released'
  <2> SUFFICES ASSUME NEW c \in Blocks, HasMsgIn(c), io'[c].finished,
                      NEW u \in Blocks, NEW j \in 1..Len(MsgOut[u]), MsgOut[u][j] = c
               PROVE  pc'[u] \in Gone
    BY <1>1 DEF Released
  <2>1. CASE io[c].finished
    BY <2>1 DEF Released
  <2>2. CASE ~io[c].finished
    <3>1. c = b
      BY <2>2 DEF Turn
    <3> QED
      BY <2>2, <3>1
  <2> QED
    BY <2>1, <2>2
<1>3. PICK Q : Q = [P EXCEPT ![b] = p]
  OBVIOUS
<1>4. PICK H : H = [G EXCEPT ![b] = g]
  OBVIOUS
<1>5. /\ Q \in [Blocks -> Nat] /\ Q[b] = p /\ \A c \in Blocks : c # b => Q[c] = P[c]
      /\ H \in [Blocks -> Nat] /\ H[b] = g /\ \A c \in Blocks : c # b => H[c] = G[c]
  BY <1>3, <1>4
<1>6. ASSUME NEW c \in Blocks PROVE Keeps(Kind[c], k'[c], io'[c].finished, Q[c], H[c])
  <2>1. CASE c = b
    BY <1>5, <2>1
  <2>2. CASE c # b
    <3>1. k'[c] = k[c] /\ io'[c] = io[c] /\ Q[c] = P[c] /\ H[c] = G[c]
      BY <1>5, <2>2 DEF Turn
    <3> QED
      BY <3>1 DEF Passes
  <2> QED
    BY <2>1, <2>2
<1>7. Lines(fg, inbox', outbox', pc', Q, H)
  <2>1. PICK I : I = inbox
    OBVIOUS
  <2>2. PICK J : J = inbox'
    OBVIOUS
  <2>3. PICK S : S = outbox
    OBVIOUS
  <2>4. PICK U : U = outbox'
    OBVIOUS
  <2>5. PICK R : R = pc
    OBVIOUS
  <2>6. PICK M : M = pc'
    OBVIOUS
  <2>7. Lines(fg, I, S, R, P, G)
    BY <2>1, <2>3, <2>5 DEF Passes
  <2>8. \A u \in Blocks : \A j \in 1..Len(fg.msgOut[u]) : fg.msgOut[u][j] \in Blocks
    BY <1>1, PostEnds DEF MsgOut
  <2>9. ASSUME NEW x \in Blocks PROVE Receiving(I[x].queue, G[x], J[x].queue, H[x])
    BY <1>5, <2>1, <2>2
  <2>10. ASSUME NEW u \in Blocks, NEW j \in 1..Len(fg.msgOut[u])
         PROVE  Posting(S[u], fg.msgOut[u][j], P[u], R[u], U[u], Q[u], M[u])
    <3>1. CASE u = b
      BY <1>5, <2>3, <2>4, <2>5, <2>6, <3>1 DEF MsgOut
    <3>2. CASE u # b
      <4>1. U[u] = S[u] /\ M[u] = R[u] /\ Q[u] = P[u] /\ P[u] \in Nat
        BY <1>5, <2>3, <2>4, <2>5, <2>6, <3>2 DEF Turn
      <4> QED
        BY <4>1, PostingMore
    <3> QED
      BY <3>1, <3>2
  <2>11. Blocks = 1..Len(fg.kind)
    BY DEF Blocks, N, Kind
  <2>12. Lines(fg, J, U, M, Q, H)
    BY <2>7, <2>8, <2>9, <2>10, <2>11, LinesStay
  <2> QED
    BY <2>2, <2>4, <2>6, <2>12
<1>8. Passes(Q, H)'
  BY <1>1, <1>6, <1>7 DEF Passes
<1> QED
  BY <1>2, <1>5, <1>8

\* A block's messages come from one block only.
LEMMA OneFeeder ==
  ASSUME fg \in Flowgraphs, SingleFed, NEW u \in Blocks, NEW j \in 1..Len(MsgOut[u])
  PROVE  \A v \in Blocks : \A i \in 1..Len(MsgOut[v]) : MsgOut[v][i] = MsgOut[u][j] => v = u
<1>1. \A v \in Blocks : MsgOut[v] \in Seq(Blocks)
  BY PostEnds
<1>2. ASSUME NEW v \in Blocks PROVE DOMAIN MsgOut[v] = 1..Len(MsgOut[v])
  <2>1. PICK out \in Seq(Blocks) : out = MsgOut[v]
    BY <1>1
  <2>2. DOMAIN out = 1..Len(out)
    OBVIOUS
  <2> QED
    BY <2>1, <2>2
<1> QED
  BY <1>2 DEF SingleFed

\* Every message that came before the last one has been taken before it, and none
\* comes behind it.
LEMMA LastMessage ==
  ASSUME IndInv, TypesInv, PhaseInv, Calling, SingleFed, Released,
         NEW P \in [Blocks -> Nat], NEW G \in [Blocks -> Nat], Passes(P, G),
         NEW b \in Blocks, HasMsgIn(b), inbox[b].queue # <<>>, NEW m, m = Head(inbox[b].queue)
  PROVE  /\ m = "Call" => ~io[b].finished
         /\ m = "CallFinished" =>
              /\ G[b] = Burst
              /\ \A u \in Blocks : \A j \in 1..Len(MsgOut[u]) : MsgOut[u][j] = b => pc[u] \in Gone
<1> SUFFICES ASSUME m \in {"Call", "CallFinished"}, m = "Call" => io[b].finished
             PROVE  /\ m = "CallFinished"
                    /\ G[b] = Burst
                    /\ \A u \in Blocks : \A j \in 1..Len(MsgOut[u]) : MsgOut[u][j] = b => pc[u] \in Gone
  OBVIOUS
<1>1. PICK q : q = inbox[b].queue
  OBVIOUS
<1>2. /\ q \in Seq(BlockMsgs) /\ q # <<>> /\ m = Head(q) /\ HeardAll(fg, pc, q, b)
      /\ fg \in Flowgraphs /\ DOMAIN pc = Blocks
  BY <1>1 DEF TypesInv, PostInv, Boxes, Calling, IndInv, TypeInv
<1>3. Heard(fg, pc, b, m)
  BY <1>2, HeardMoves
<1>4. PICK u \in Blocks : /\ m = "CallFinished" => pc[u] \in Gone
                          /\ \E j \in 1..Len(MsgOut[u]) : b = MsgOut[u][j]
  BY <1>2, <1>3 DEF Heard, MsgOut
<1>5. PICK j \in 1..Len(MsgOut[u]) : b = MsgOut[u][j]
  BY <1>4
<1>6. pc[u] \in Gone
  BY <1>4, <1>5 DEF Released
<1>7. \A v \in Blocks : \A i \in 1..Len(MsgOut[v]) : MsgOut[v][i] = b => v = u
  BY <1>2, <1>5, OneFeeder
<1>8. Kind[u] \in MessageOutputs /\ io[u].finished
  BY <1>2, <1>5, <1>6, PostEnds DEF PhaseInv
<1>9. P[u] = Burst
  <2>1. Keeps(Kind[u], k[u], io[u].finished, P[u], G[u])
    BY DEF Passes
  <2> QED
    BY <1>8, <2>1 DEF Keeps
<1>10. Line(q, outbox[u], b, G[b], P[u], pc[u])
  BY <1>1, <1>5 DEF Passes, Lines, Blocks, N, Kind, MsgOut
<1>11. PICK w \in Nat : Waiting(q, G[b], w) /\ w = P[u]
  BY <1>6, <1>10 DEF Line
<1>12. (m = "Call" => G[b] < Burst) /\ (m = "CallFinished" => G[b] = Burst)
  <2>1. PICK g \in Nat : g = G[b]
    OBVIOUS
  <2>2. (m = "Call" => g < w) /\ (m = "CallFinished" => g = w)
    BY <1>2, <1>11, <2>1, WaitingTail
  <2> QED
    BY <1>9, <1>11, <2>1, <2>2
<1>13. m = "CallFinished"
  <2> SUFFICES ASSUME m = "Call" PROVE FALSE
    OBVIOUS
  <2>1. Keeps(Kind[b], k[b], io[b].finished, P[b], G[b])
    BY DEF Passes
  <2>2. G[b] = Burst
    BY <2>1 DEF Keeps, HasMsgIn, MessageOutputs
  <2> QED
    BY <1>12, <2>2, KernelsAssumption
<1> QED
  BY <1>6, <1>7, <1>12, <1>13

\* What a handler of the kernel does with the message m; n is its counter.
Handled(kind, m, n, h) ==
    \/ /\ kind = "msg_sink" /\ m = "Call"
       /\ h.k = Least(n + 1, MaxCount) /\ h.fin = FALSE /\ h.posts = 0
    \/ /\ kind = "msg_copy" /\ m = "Call"
       /\ h.k = n /\ h.fin = FALSE /\ h.posts = 1
    \/ /\ kind \in {"msg_copy", "msg_sink"} /\ m = "CallFinished"
       /\ h.k = n /\ h.fin = TRUE /\ h.posts = 0
    \/ /\ kind \notin {"msg_copy", "msg_sink"} \/ m \notin {"Call", "CallFinished"}
       /\ h.k = n /\ h.fin = FALSE /\ h.posts = 0

\* The handlers do it.
LEMMA HandlersCount ==
  ASSUME NEW b \in Blocks, NEW n, n = k[b]
  PROVE  /\ Handled(Kind[b], "Call", n, Handler(b, FALSE))
         /\ Handled(Kind[b], "CallFinished", n, Handler(b, TRUE))
         /\ \A m : m \notin {"Call", "CallFinished"} => Handled(Kind[b], m, n, Idle(n))
<1>1. PICK kind : kind = Kind[b]
  OBVIOUS
<1>2. PICK h : h = Handler(b, FALSE)
  OBVIOUS
<1>3. PICK l : l = Handler(b, TRUE)
  OBVIOUS
<1>4. Idle(n).k = n /\ Idle(n).fin = FALSE /\ Idle(n).posts = 0
  BY DEF Idle
<1>5. Handled(kind, "Call", n, h)
  <2>1. CASE kind = "msg_sink"
    <3>1. h = MessageSinkHandler(n, FALSE)
      BY <1>1, <1>2, <2>1 DEF Handler
    <3>2. h.k = Least(n + 1, MaxCount) /\ h.fin = FALSE /\ h.posts = 0
      BY <3>1 DEF MessageSinkHandler, Idle
    <3> QED
      BY <2>1, <3>2 DEF Handled
  <2>2. CASE kind = "msg_copy"
    <3>1. h = MessageCopyHandler(n, FALSE)
      BY <1>1, <1>2, <2>2 DEF Handler
    <3>2. h.k = n /\ h.fin = FALSE /\ h.posts = 1
      BY <3>1 DEF MessageCopyHandler, Idle
    <3> QED
      BY <2>2, <3>2 DEF Handled
  <2>3. CASE kind \notin {"msg_copy", "msg_sink"}
    <3>1. h = Idle(n)
      BY <1>1, <1>2, <2>3 DEF Handler
    <3> QED
      BY <1>4, <2>3, <3>1 DEF Handled
  <2> QED
    BY <2>1, <2>2, <2>3
<1>6. Handled(kind, "CallFinished", n, l)
  <2>1. CASE kind \in {"msg_copy", "msg_sink"}
    <3>1. l = MessageSinkHandler(n, TRUE) \/ l = MessageCopyHandler(n, TRUE)
      BY <1>1, <1>3, <2>1 DEF Handler
    <3>2. l.k = n /\ l.fin = TRUE /\ l.posts = 0
      BY <3>1 DEF MessageSinkHandler, MessageCopyHandler, Idle
    <3> QED
      BY <2>1, <3>2 DEF Handled
  <2>2. CASE kind \notin {"msg_copy", "msg_sink"}
    <3>1. l = Idle(n)
      BY <1>1, <1>3, <2>2 DEF Handler
    <3> QED
      BY <1>4, <2>2, <3>1 DEF Handled
  <2> QED
    BY <2>1, <2>2
<1>7. ASSUME NEW m, m \notin {"Call", "CallFinished"} PROVE Handled(kind, m, n, Idle(n))
  BY <1>4, <1>7 DEF Handled
<1> QED
  BY <1>1, <1>2, <1>3, <1>5, <1>6, <1>7

\* BlockReceive of a message that is no callback.
LEMMA ReceivesMessage ==
  ASSUME IndInv, TypesInv, NEW b \in Blocks, BlockReceive(b), ~failed'[b],
         NEW m, m = Head(inbox[b].queue), m # "Callback"
  PROVE  \E h :
               /\ Handled(Kind[b], m, k[b], h)
               /\ io'[b].finished = (io[b].finished \/ h.fin \/ Stops(m))
               /\ k'[b] = h.k
               /\ outbox'[b] = Posts(b, h.posts, "Call") \o Answers(b, m)
<1>1. PICK h : h = Reaction(b, m)
  OBVIOUS
<1>2. outbox'[b] = Posts(b, h.posts, "Call") \o Answers(b, m)
  BY <1>1, Receives
<1>3. /\ io'[b].finished = (io[b].finished \/ h.fin \/ Stops(m))
      /\ k'[b] = h.k
  BY <1>1, Receives
<1>4. Handled(Kind[b], m, k[b], h)
  <2>1. CASE m = "Call"
    <3>1. h = Handler(b, FALSE)
      BY <1>1, <2>1 DEF Reaction
    <3> QED
      BY <2>1, <3>1, HandlersCount
  <2>2. CASE m = "CallFinished"
    <3>1. h = Handler(b, TRUE)
      BY <1>1, <2>2 DEF Reaction
    <3> QED
      BY <2>2, <3>1, HandlersCount
  <2>3. CASE m \notin {"Call", "CallFinished"}
    <3>1. h = Idle(k[b])
      BY <1>1, <2>3 DEF Reaction
    <3> QED
      BY <2>3, <3>1, HandlersCount
  <2> QED
    BY <2>1, <2>2, <2>3
<1> QED
  BY <1>2, <1>3, <1>4

\* BlockReceive leaves everything else alone.
LEMMA ReceivesAlone ==
  ASSUME IndInv, TypesInv, NEW b \in Blocks, BlockReceive(b), ~failed'[b]
  PROVE  Turn(b) /\ pc' = pc /\ TakesOne(b) /\ pc[b] = "loop" /\ outbox[b] = <<>>
<1>1. PICK m : m = Head(inbox[b].queue)
  OBVIOUS
<1>2. PICK h : h = Reaction(b, m)
  OBVIOUS
<1> QED
  BY <1>1, <1>2, Receives

\* What a call of work() does to a block with messages.
LEMMA WorkCounts ==
  ASSUME NEW b \in Blocks, NEW r \in Outcomes(b), NEW n, n = k[b]
  PROVE  /\ Kind[b] = "burst" => r.fin /\ r.posts = Burst
         /\ Kind[b] = "ticker" => \/ r.k = n + 1 /\ r.posts = 1 /\ (r.fin => r.k = Burst)
                                  \/ r.k = n /\ r.posts = 0 /\ r.fin = FALSE
         /\ HasMsgIn(b) => r.k = n /\ r.posts = 0 /\ r.fin = FALSE
<1>1. ASSUME Kind[b] = "burst" PROVE r.fin /\ r.posts = Burst
  <2>1. r = MessageBurst(n)
    BY <1>1 DEF Outcomes
  <2> QED
    BY <2>1 DEF MessageBurst, Idle
<1>2. ASSUME Kind[b] = "ticker" PROVE \/ r.k = n + 1 /\ r.posts = 1 /\ (r.fin => r.k = Burst)
                                      \/ r.k = n /\ r.posts = 0 /\ r.fin = FALSE
  <2>1. r = MessageSource(n, TRUE) \/ r = MessageSource(n, FALSE)
    BY <1>2 DEF Outcomes
  <2> QED
    BY <2>1 DEF MessageSource, Idle
<1>3. ASSUME HasMsgIn(b) PROVE r.k = n /\ r.posts = 0 /\ r.fin = FALSE
  <2>1. r = Idle(n)
    BY <1>3 DEF Outcomes, HasMsgIn
  <2> QED
    BY <2>1 DEF Idle
<1> QED
  BY <1>1, <1>2, <1>3

\* mio.post() of n messages, and answers behind them.
LEMMA PostsCount ==
  ASSUME fg \in Flowgraphs, SingleFed, NEW b \in Blocks, NEW n \in Nat, NEW p \in Nat, NEW l, NEW l2,
         l2 \notin Gone, NEW u \in Seq(Sends), \A i \in 1..Len(u) : u[i].to \notin Blocks,
         NEW j \in 1..Len(MsgOut[b])
  PROVE  Posting(<<>>, MsgOut[b][j], p, l, Posts(b, n, "Call") \o u, p + n, l2)
<1>1. PICK out : out = MsgOut[b]
  OBVIOUS
<1>2. PICK s : s = Posts(b, n, "Call")
  OBVIOUS
<1>3. PICK d \in Nat : d = Len(out)
  BY <1>1, PostEnds, LenProperties
<1>4. /\ s \in Seq(Sends) /\ Spread(s, n, out, "Call") /\ out \in Seq(Blocks)
      /\ j \in 1..d /\ out[j] \in Blocks /\ out = MsgOut[b]
  BY <1>1, <1>2, <1>3, PostsAre, PostEnds DEF BlockMsgs
<1>5. \A i \in 1..d : out[i] = out[j] => i = j
  <2>1. DOMAIN MsgOut[b] = 1..d
    BY <1>1, <1>3, <1>4
  <2> QED
    BY <1>1, <1>4, <2>1 DEF SingleFed
<1>6. PICK x : x = out[j]
  OBVIOUS
<1>7. \A i \in 1..Len(u) : ~Owed(u[i], x)
  BY <1>4, <1>6 DEF Owed
<1>8. ASSUME NEW w \in Nat PROVE Sending(s \o u, x, w, w + n)
  <2>1. Sending(s, x, w, w + n)
    BY <1>3, <1>4, <1>5, <1>6, SendingSpread
  <2>2. w + n \in Nat
    OBVIOUS
  <2> QED
    BY <1>4, <1>7, <2>1, <2>2, SendingMore
<1>9. s \o u \in Seq(Sends)
  BY <1>4
<1>10. Posting(<<>>, x, p, l, s \o u, p + n, l2)
  BY <1>8, <1>9, PostingMore
<1> QED
  BY <1>1, <1>2, <1>6, <1>10

\* The inboxes of the other blocks when block b has taken a message.
LEMMA TakingCounts ==
  ASSUME TypesInv, NEW b \in Blocks, TakesOne(b), NEW G \in [Blocks -> Nat],
         NEW g, g = G[b] + (IF Head(inbox[b].queue) = "Call" THEN 1 ELSE 0)
  PROVE  /\ g \in Nat /\ Receiving(inbox[b].queue, G[b], inbox'[b].queue, g)
         /\ \A c \in Blocks : c # b => Receiving(inbox[c].queue, G[c], inbox'[c].queue, G[c])
<1>1. ASSUME NEW c \in Blocks, c # b PROVE Receiving(inbox[c].queue, G[c], inbox'[c].queue, G[c])
  <2>1. inbox[c].queue \in Seq(BlockMsgs) /\ inbox'[c].queue = inbox[c].queue
    BY <1>1 DEF TypesInv, PostInv, Boxes, TakesOne
  <2> QED
    BY <2>1, ReceivingOne
<1>2. PICK q \in Seq(BlockMsgs) : q = inbox[b].queue
  BY DEF TypesInv, PostInv, Boxes
<1>3. PICK t : t = inbox'[b].queue
  OBVIOUS
<1>4. q # <<>> /\ t = Tail(q)
  BY <1>2, <1>3 DEF TakesOne
<1>5. PICK a \in Nat : a = G[b]
  OBVIOUS
<1>6. CASE Head(q) = "Call"
  <2>1. g = a + 1
    BY <1>2, <1>5, <1>6
  <2> QED
    BY <1>1, <1>2, <1>3, <1>4, <1>5, <1>6, <2>1, ReceivingOne
<1>7. CASE Head(q) # "Call"
  <2>1. g = a
    BY <1>2, <1>5, <1>7
  <2> QED
    BY <1>1, <1>2, <1>3, <1>4, <1>5, <1>7, <2>1, ReceivingOne
<1> QED
  BY <1>6, <1>7

\* BlockReceive
LEMMA ReceivePasses ==
  ASSUME IndInv, IndInv', TypesInv, PhaseInv, TruthInv, Calling, SingleFed, Released,
         NEW P \in [Blocks -> Nat], NEW G \in [Blocks -> Nat], Passes(P, G),
         NEW b \in Blocks, BlockReceive(b), ~failed'[b],
         \A c \in Blocks : pc[c] \in Gone => pc'[c] \in Gone
  PROVE  Released' /\ \E Q, H \in [Blocks -> Nat] : Passes(Q, H)'
<1>1. PICK m : m = Head(inbox[b].queue)
  OBVIOUS
<1>2. Turn(b) /\ pc' = pc /\ TakesOne(b) /\ pc[b] = "loop" /\ outbox[b] = <<>>
  BY ReceivesAlone
<1>4. fg \in Flowgraphs /\ m # "Callback" /\ inbox[b].queue # <<>>
  BY <1>1, <1>2, TakingHeard DEF IndInv, TypeInv, Heard, TakesOne
<1>3. PICK h : /\ Handled(Kind[b], m, k[b], h)
               /\ io'[b].finished = (io[b].finished \/ h.fin \/ Stops(m))
               /\ k'[b] = h.k
               /\ outbox'[b] = Posts(b, h.posts, "Call") \o Answers(b, m)
  BY <1>1, <1>4, ReceivesMessage
<1>5. Kind[b] \in MessageOutputs \/ HasMsgIn(b) => ~Stops(m)
  <2> SUFFICES ASSUME Stops(m) PROVE ~HasMsgIn(b) /\ Kind[b] \notin MessageOutputs
    OBVIOUS
  <2>1. Truthful(fg, pc, b, m)
    BY <1>1, <1>2, TakingTrue
  <2>2. Down[b] \in Blocks
    BY <2>1 DEF Truthful, Stops, Down, IndInv, TypeInv
  <2>3. Kind[b] \in StreamOutputs
    BY <1>4, <2>2, StreamEnds, BlocksFinite
  <2> QED
    BY <2>3 DEF StreamOutputs, MessageOutputs, HasMsgIn
<1>6. PICK n \in Nat : n = k[b]
  BY DEF TypesInv, KernelInv
<1>7. \/ /\ Kind[b] = "msg_sink" /\ m = "Call"
         /\ h.k = Least(n + 1, MaxCount) /\ h.fin = FALSE /\ h.posts = 0
      \/ /\ Kind[b] = "msg_copy" /\ m = "Call"
         /\ h.k = n /\ h.fin = FALSE /\ h.posts = 1
      \/ /\ HasMsgIn(b) /\ m = "CallFinished"
         /\ h.k = n /\ h.fin = TRUE /\ h.posts = 0
      \/ /\ ~HasMsgIn(b) \/ m \notin {"Call", "CallFinished"}
         /\ h.k = n /\ h.fin = FALSE /\ h.posts = 0
  BY <1>3, <1>6 DEF Handled, HasMsgIn
<1>8. h.posts \in Nat
  BY <1>7
<1>9. PICK p \in Nat : p = P[b] + h.posts
  BY <1>8
<1>10. PICK g : g = G[b] + (IF m = "Call" THEN 1 ELSE 0)
  OBVIOUS
<1>11. /\ g \in Nat /\ Receiving(inbox[b].queue, G[b], inbox'[b].queue, g)
       /\ \A c \in Blocks : c # b => Receiving(inbox[c].queue, G[c], inbox'[c].queue, G[c])
  BY <1>1, <1>2, <1>10, TakingCounts
<1>12. ASSUME NEW j \in 1..Len(MsgOut[b])
       PROVE  Posting(outbox[b], MsgOut[b][j], P[b], pc[b], outbox'[b], p, pc'[b])
  <2>1. PICK u : u = Answers(b, m)
    OBVIOUS
  <2>2. u \in Seq(Sends) /\ \A i \in 1..Len(u) : u[i].to \notin Blocks
    BY <1>4, <2>1, AnswersAre
  <2>3. PICK l : l = pc[b]
    OBVIOUS
  <2>4. l \notin Gone /\ pc'[b] = l
    BY <1>2, <2>3 DEF Gone
  <2>5. Posting(<<>>, MsgOut[b][j], P[b], l, Posts(b, h.posts, "Call") \o u, P[b] + h.posts, l)
    BY <1>4, <1>8, <2>2, <2>4, PostsCount
  <2> QED
    BY <1>2, <1>3, <1>9, <2>1, <2>3, <2>4, <2>5
<1>13. HasMsgIn(b) => /\ m = "Call" => ~io[b].finished
                      /\ m = "CallFinished" =>
                           /\ G[b] = Burst
                           /\ \A u \in Blocks : \A j \in 1..Len(MsgOut[u]) :
                                MsgOut[u][j] = b => pc[u] \in Gone
  BY <1>1, <1>4, LastMessage
<1>14. HasMsgIn(b) /\ io'[b].finished /\ ~io[b].finished =>
          \A u \in Blocks : \A j \in 1..Len(MsgOut[u]) : MsgOut[u][j] = b => pc[u] \in Gone
  BY <1>3, <1>5, <1>7, <1>13
<1>15. Keeps(Kind[b], k'[b], io'[b].finished, p, g)
  <2>1. PICK a \in Nat : a = P[b]
    OBVIOUS
  <2>2. PICK z \in Nat : z = G[b]
    OBVIOUS
  <2>3. PICK f : f = io[b].finished
    OBVIOUS
  <2>4. Keeps(Kind[b], n, f, a, z)
    BY <1>6, <2>1, <2>2, <2>3 DEF Passes
  <2>5. PICK kind : kind = Kind[b]
    OBVIOUS
  <2>6. CASE kind = "msg_sink" /\ m = "Call"
    <3>1. g = z + 1 /\ ~f /\ h.k = Least(n + 1, MaxCount) /\ h.fin = FALSE
      BY <1>7, <1>10, <1>13, <2>2, <2>3, <2>5, <2>6 DEF HasMsgIn
    <3>2. io'[b].finished = FALSE
      BY <1>3, <1>5, <2>3, <2>5, <2>6, <3>1 DEF HasMsgIn
    <3>3. n = Least(z, MaxCount)
      BY <2>4, <2>5, <2>6 DEF Keeps
    <3>4. Least(n + 1, MaxCount) = Least(z + 1, MaxCount)
      BY <3>3, LeastAdds
    <3> QED
      BY <1>3, <2>5, <2>6, <3>1, <3>2, <3>4 DEF Keeps, MessageOutputs
  <2>7. CASE kind = "msg_copy" /\ m = "Call"
    <3>1. g = z + 1 /\ ~f /\ h.posts = 1 /\ h.fin = FALSE
      BY <1>7, <1>10, <1>13, <2>2, <2>3, <2>5, <2>7 DEF HasMsgIn
    <3>2. io'[b].finished = FALSE
      BY <1>3, <1>5, <2>3, <2>5, <2>7, <3>1 DEF HasMsgIn
    <3>3. p = a + 1 /\ a = z
      BY <1>9, <2>1, <2>4, <2>5, <2>7, <3>1 DEF Keeps
    <3> QED
      BY <2>5, <2>7, <3>1, <3>2, <3>3 DEF Keeps, MessageOutputs
  <2>8. CASE HasMsgIn(b) /\ m = "CallFinished"
    <3>1. g = z /\ z = Burst /\ h.posts = 0 /\ h.k = n
      BY <1>7, <1>10, <1>13, <2>2, <2>8
    <3>2. p = a
      BY <1>9, <2>1, <3>1
    <3> QED
      BY <1>3, <2>4, <2>5, <2>8, <3>1, <3>2 DEF Keeps, MessageOutputs, HasMsgIn
  <2>9. CASE ~HasMsgIn(b) \/ m \notin {"Call", "CallFinished"}
    <3>1. h.k = n /\ h.fin = FALSE /\ h.posts = 0
      BY <1>7, <2>9 DEF HasMsgIn
    <3>2. p = a
      BY <1>9, <2>1, <3>1
    <3>3. HasMsgIn(b) => g = z
      BY <1>10, <2>2, <2>9
    <3>4. kind \in MessageOutputs \/ HasMsgIn(b) => (io'[b].finished <=> f)
      BY <1>3, <1>5, <2>3, <2>5, <3>1
    <3> QED
      BY <1>3, <2>4, <2>5, <3>1, <3>2, <3>3, <3>4 DEF Keeps, MessageOutputs, HasMsgIn
  <2> QED
    BY <2>5, <2>6, <2>7, <2>8, <2>9 DEF HasMsgIn
<1> QED
  BY <1>2, <1>11, <1>12, <1>14, <1>15, TurnPasses

\* BlockWork
LEMMA WorkPasses ==
  ASSUME IndInv, IndInv', TypesInv, PhaseInv, SingleFed, Released,
         NEW P \in [Blocks -> Nat], NEW G \in [Blocks -> Nat], Passes(P, G),
         NEW b \in Blocks, BlockWork(b), ~failed'[b],
         \A c \in Blocks : pc[c] \in Gone => pc'[c] \in Gone
  PROVE  Released' /\ \E Q, H \in [Blocks -> Nat] : Passes(Q, H)'
<1>1. /\ Turn(b) /\ pc[b] = "work" /\ pc'[b] = "loop" /\ outbox[b] = <<>>
      /\ \E r \in Outcomes(b) :
           /\ k'[b] = r.k /\ inbox' = Notified(b, r)
           /\ io'[b].finished = (io[b].finished \/ r.fin)
           /\ outbox'[b] = Posts(b, r.posts, "Call")
  BY Works, Zenon
<1>2. PICK r \in Outcomes(b) :
           /\ k'[b] = r.k /\ inbox' = Notified(b, r)
           /\ io'[b].finished = (io[b].finished \/ r.fin)
           /\ outbox'[b] = Posts(b, r.posts, "Call")
  BY <1>1
<1>3. fg \in Flowgraphs /\ ~io[b].finished /\ r.posts \in Nat
  BY <1>1, PostsCounted DEF PhaseInv, IndInv, TypeInv
<1>4. PICK n \in Nat : n = k[b]
  BY DEF TypesInv, KernelInv
<1>5. /\ Kind[b] = "burst" => r.fin /\ r.posts = Burst
      /\ Kind[b] = "ticker" => \/ r.k = n + 1 /\ r.posts = 1 /\ (r.fin => r.k = Burst)
                               \/ r.k = n /\ r.posts = 0 /\ r.fin = FALSE
      /\ HasMsgIn(b) => r.k = n /\ r.posts = 0 /\ r.fin = FALSE
  BY <1>4, WorkCounts
<1>6. PICK a \in Nat : a = P[b]
  OBVIOUS
<1>7. PICK g \in Nat : g = G[b]
  OBVIOUS
<1>8. PICK p \in Nat : p = a + r.posts
  BY <1>3
<1>9. ASSUME NEW c \in Blocks PROVE Receiving(inbox[c].queue, G[c], inbox'[c].queue, G[c])
  <2>1. PICK q \in Seq(BlockMsgs) : q = inbox[c].queue
    BY DEF TypesInv, PostInv, Boxes
  <2>2. inbox'[c].queue = q \/ inbox'[c].queue = Append(q, "Notify")
    BY <1>2, <2>1, NotifiedQueue
  <2>3. G[c] \in Nat
    OBVIOUS
  <2> QED
    BY <2>1, <2>2, <2>3, ReceivingOne
<1>10. ASSUME NEW j \in 1..Len(MsgOut[b])
       PROVE  Posting(outbox[b], MsgOut[b][j], P[b], pc[b], outbox'[b], p, pc'[b])
  <2>1. PICK l : l = pc[b]
    OBVIOUS
  <2>2. "loop" \notin Gone /\ <<>> \in Seq(Sends) /\ \A i \in 1..Len(<<>>) : <<>>[i].to \notin Blocks
    BY DEF Gone
  <2>3. Posting(<<>>, MsgOut[b][j], a, l, Posts(b, r.posts, "Call") \o <<>>, a + r.posts, "loop")
    BY <1>3, <2>2, PostsCount
  <2>4. Posts(b, r.posts, "Call") \o <<>> = Posts(b, r.posts, "Call")
    <3>1. Posts(b, r.posts, "Call") \in Seq(Sends)
      BY <1>3, PostsAre DEF BlockMsgs
    <3> QED
      BY <3>1
  <2> QED
    BY <1>1, <1>2, <1>6, <1>8, <2>1, <2>3, <2>4
<1>11. HasMsgIn(b) => ~io'[b].finished
  BY <1>2, <1>3, <1>5
<1>12. Keeps(Kind[b], k'[b], io'[b].finished, p, g)
  <2>1. Keeps(Kind[b], n, FALSE, a, g)
    <3>1. PICK f : f = io[b].finished
      OBVIOUS
    <3>2. Keeps(Kind[b], n, f, a, g)
      BY <1>4, <1>6, <1>7, <3>1 DEF Passes
    <3> QED
      BY <1>3, <3>1, <3>2 DEF Keeps
  <2>2. io'[b].finished <=> r.fin
    BY <1>2, <1>3
  <2>3. CASE Kind[b] = "burst"
    <3>1. a = 0
      BY <2>1, <2>3 DEF Keeps
    <3>2. p = Burst
      BY <1>5, <1>8, <2>3, <3>1, KernelsAssumption
    <3> QED
      BY <1>5, <2>2, <2>3, <3>2 DEF Keeps
  <2>4. CASE Kind[b] = "ticker"
    <3>1. a = n
      BY <2>1, <2>4 DEF Keeps
    <3>2. p = r.k /\ (r.fin => r.k = Burst)
      BY <1>5, <1>8, <2>4, <3>1
    <3> QED
      BY <1>2, <2>2, <2>4, <3>2 DEF Keeps
  <2>5. CASE HasMsgIn(b)
    <3>1. p = a /\ r.k = n /\ ~io'[b].finished
      BY <1>5, <1>8, <1>11, <2>5
    <3> QED
      BY <1>2, <2>1, <2>5, <3>1 DEF Keeps, HasMsgIn
  <2>6. CASE Kind[b] \notin {"burst", "ticker", "msg_copy", "msg_sink"}
    BY <2>6 DEF Keeps, MessageOutputs
  <2> QED
    BY <2>3, <2>4, <2>5, <2>6 DEF HasMsgIn
<1> QED
  BY <1>1, <1>7, <1>9, <1>10, <1>11, <1>12, TurnPasses

\* The steps in which a block neither handles a message nor works.
LEMMA QuietPasses ==
  ASSUME IndInv, IndInv', TypesInv, Calling, NoEarlyPosts, Released,
         NEW P \in [Blocks -> Nat], NEW G \in [Blocks -> Nat], Passes(P, G),
         NEW b \in Blocks, ~failed'[b],
         BlockStart(b) \/ BlockSetup(b) \/ BlockDrained(b) \/ BlockTimer(b) \/ BlockDeinit(b),
         \A c \in Blocks : pc[c] \in Gone => pc'[c] \in Gone
  PROVE  Released' /\ \E Q, H \in [Blocks -> Nat] : Passes(Q, H)'
<1>1. fg \in Flowgraphs /\ b \in Nat /\ b \in Blocks /\ Main \notin Blocks
  BY BlocksFinite DEF IndInv, TypeInv, Main
<1>2. ASSUME NEW type \in {"Initialized", "BlockDone"}, NEW x \in Blocks
      PROVE  /\ <<SendToMain(type, b)>> \in Seq(Sends)
             /\ \A i \in 1..Len(<<SendToMain(type, b)>>) : ~Owed(<<SendToMain(type, b)>>[i], x)
  <2>1. PICK e : e = SendToMain(type, b)
    OBVIOUS
  <2>4. EndType(FALSE) = "BlockDone" /\ FALSE \in BOOLEAN
    BY DEF EndType
  <2>5. <<SendToMain("BlockDone", b)>> \in Seq(Sends) /\ <<SendToMain("Initialized", b)>> \in Seq(Sends)
    BY <1>1, <2>4, InitializedSent, ReportIsLastWord
  <2>6. e.to = Main
    BY <2>1 DEF SendToMain, Send
  <2>2. e.to = Main /\ <<e>> \in Seq(Sends)
    BY <2>1, <2>5, <2>6
  <2>3. \A i \in 1..Len(<<e>>) : <<e>>[i] = e
    OBVIOUS
  <2> QED
    BY <1>1, <2>1, <2>2, <2>3 DEF Owed
<1>3. ASSUME NEW c \in Blocks PROVE Receiving(inbox[c].queue, G[c], inbox[c].queue, G[c])
  BY DEF Receiving
<1>4. ASSUME Turn(b), outbox[b] = <<>>, k'[b] = k[b], io'[b].finished = io[b].finished,
             \A c \in Blocks : Receiving(inbox[c].queue, G[c], inbox'[c].queue, G[c]),
             NEW s \in Seq(Sends), outbox'[b] = s,
             \A x \in Blocks : \A i \in 1..Len(s) : ~Owed(s[i], x)
      PROVE  Released' /\ \E Q, H \in [Blocks -> Nat] : Passes(Q, H)'
  <2>1. P[b] \in Nat /\ G[b] \in Nat /\ Keeps(Kind[b], k'[b], io'[b].finished, P[b], G[b])
    BY <1>4 DEF Passes
  <2>2. ASSUME NEW j \in 1..Len(MsgOut[b])
        PROVE  Posting(outbox[b], MsgOut[b][j], P[b], pc[b], outbox'[b], P[b], pc'[b])
    <3>1. PICK l : l = pc[b]
      OBVIOUS
    <3>2. PICK l2 : l2 = pc'[b]
      OBVIOUS
    <3>3. PICK x \in Blocks : x = MsgOut[b][j]
      BY <1>1, PostEnds
    <3>4. Posting(<<>>, x, P[b], l, s, P[b], l2)
      BY <1>4, <2>1, PostingMore
    <3> QED
      BY <1>4, <3>1, <3>2, <3>3, <3>4
  <2>3. HasMsgIn(b) /\ io'[b].finished /\ ~io[b].finished => FALSE
    BY <1>4
  <2> QED
    BY <1>4, <2>1, <2>2, <2>3, TurnPasses
<1>5. <<>> \in Seq(Sends) /\ \A x \in Blocks : \A i \in 1..Len(<<>>) : ~Owed(<<>>[i], x)
  OBVIOUS
<1>6. CASE BlockStart(b)
  <2>1. /\ Turn(b) /\ UNCHANGED <<inbox, avail>> /\ outbox[b] = <<>> /\ outbox'[b] = <<>>
        /\ io'[b] = io[b] /\ k'[b] = k[b]
    BY <1>6, Starts
  <2>2. inbox' = inbox
    BY <2>1
  <2> QED
    BY <1>3, <1>4, <1>5, <2>1, <2>2
<1>7. CASE BlockSetup(b)
  <2>1. /\ Turn(b) /\ TakesOne(b) /\ pc[b] = "setup" /\ outbox[b] = <<>>
        /\ io'[b] = io[b] /\ k'[b] = k[b]
        /\ \/ outbox'[b] = <<>>
           \/ outbox'[b] = (IF InitPost[b] = "none" THEN <<>> ELSE Posts(b, 1, InitPost[b]))
                                \o <<SendToMain("Initialized", b)>>
    BY <1>7, SetsUp
  <2>2. outbox'[b] = <<>> \/ outbox'[b] = <<SendToMain("Initialized", b)>>
    <3>1. PICK u : u = <<SendToMain("Initialized", b)>>
      OBVIOUS
    <3>2. u \in Seq(Sends)
      BY <1>1, <3>1, InitializedSent
    <3>3. InitPost[b] = "none"
      BY DEF NoEarlyPosts
    <3>4. <<>> \o u = u
      BY <3>2
    <3> QED
      BY <2>1, <3>1, <3>3, <3>4
  <2>3. Head(inbox[b].queue) # "Call"
    <3>1. Heard(fg, pc, b, Head(inbox[b].queue))
      BY <2>1, TakingHeard
    <3> QED
      BY <2>1, <3>1 DEF Heard, Setup
  <2>4. G[b] + (IF Head(inbox[b].queue) = "Call" THEN 1 ELSE 0) = G[b]
    BY <2>3
  <2>5. \A c \in Blocks : Receiving(inbox[c].queue, G[c], inbox'[c].queue, G[c])
    BY <2>1, <2>4, TakingCounts
  <2> QED
    BY <1>2, <1>4, <1>5, <2>1, <2>2, <2>5
<1>8. CASE BlockDrained(b) \/ BlockTimer(b)
  <2>1. /\ Turn(b) /\ UNCHANGED <<inbox, avail>> /\ pc[b] = "loop" /\ outbox[b] = <<>>
        /\ io'[b].finished = io[b].finished /\ k'[b] = k[b]
        /\ outbox'[b] = Farewells(b) \/ outbox'[b] = <<>>
    BY <1>8, Drains
  <2>2. Linked(fg, b) /\ inbox' = inbox
    BY <2>1, RunningLinked DEF IndInv
  <2>3. "done" \in Gone
    BY DEF Gone
  <2>4. PICK s : s = Farewells(b)
    OBVIOUS
  <2>5. s \in Seq(Sends) /\ \A i \in 1..Len(s) : s[i].msg # "Call"
    BY <1>1, <2>2, <2>3, <2>4, FarewellsProper
  <2>6. \A x \in Blocks : \A i \in 1..Len(s) : ~Owed(s[i], x)
    BY <2>5 DEF Owed
  <2> QED
    BY <1>3, <1>4, <1>5, <2>1, <2>2, <2>4, <2>5, <2>6
<1>9. CASE BlockDeinit(b)
  <2>1. /\ Turn(b) /\ UNCHANGED <<inbox, avail>>
        /\ io'[b] = io[b] /\ k'[b] = k[b]
        /\ outbox'[b] = <<SendToMain("BlockDone", b)>>
    BY <1>9, Deinits
  <2>2. inbox' = inbox /\ outbox[b] = <<>>
    BY <1>9, <2>1 DEF BlockDeinit, Running
  <2> QED
    BY <1>2, <1>3, <1>4, <2>1, <2>2
<1> QED
  BY <1>6, <1>7, <1>8, <1>9

\* BlockSend: a message goes from an outbox to an inbox.
LEMMA SendLines ==
  ASSUME IndInv, TypesInv, Calling, SingleFed,
         NEW P \in [Blocks -> Nat], NEW G \in [Blocks -> Nat], Passes(P, G),
         NEW b \in Blocks, BlockSend(b), ~failed'[b],
         NEW u \in Blocks, NEW j \in 1..Len(MsgOut[u]), NEW x \in Blocks, x = MsgOut[u][j]
  PROVE  Line(inbox'[x].queue, outbox'[u], x, G[x], P[u], pc[u])
<1>1. PICK e : e = Head(outbox[b])
  OBVIOUS
<1>2. /\ Turn(b) /\ outbox[b] # <<>>
      /\ outbox'[b] = Tail(outbox[b]) \/ outbox'[b] = Marked(outbox[b])
      /\ \/ UNCHANGED inbox /\ (e.to \in Blocks => e.pushed /\ outbox'[b] = Tail(outbox[b]))
         \/ /\ e.to \in Blocks /\ ~e.pushed
            /\ inbox'[e.to].queue = Append(inbox[e.to].queue, e.msg)
            /\ \A c \in Blocks : c # e.to => inbox'[c] = inbox[c]
  BY <1>1, SendMoves
<1>3. PICK s \in Seq(Sends) : s = outbox[b]
  BY DEF IndInv, TypeInv
<1>4. s # <<>> /\ e = Head(s)
  BY <1>1, <1>2, <1>3, Zenon
<1>5. /\ Proper(s, MsgOut[b], pc[b], Blocks) /\ Addressed(s, N) /\ N \in Nat /\ fg \in Flowgraphs
      /\ DOMAIN pc = Blocks
  BY <1>3, BlocksFinite DEF Calling, TypesInv, PostInv, IndInv, TypeInv
<1>6. Tells(e, MsgOut[b], pc[b], Blocks) /\ (e.to \in Blocks => e.msg \in BlockMsgs)
  <2>1. Destined(e, N)
    BY <1>4, <1>5, AddressedMoves
  <2>2. Tells(e, MsgOut[b], pc[b], Blocks)
    BY <1>4, <1>5, ProperMoves
  <2> QED
    BY <1>5, <2>1, <2>2 DEF Destined, Main, Blocks
<1>7. PICK q \in Seq(BlockMsgs) : q = inbox[x].queue
  BY DEF TypesInv, PostInv, Boxes
<1>8. PICK g \in Nat : g = G[x]
  OBVIOUS
<1>9. PICK p \in Nat : p = P[u]
  OBVIOUS
<1>10. Line(q, outbox[u], x, g, p, pc[u])
  BY <1>7, <1>8, <1>9 DEF Passes, Lines, Blocks, N, Kind, MsgOut
<1>11. PICK w \in Nat : Waiting(q, g, w) /\ Sending(outbox[u], x, w, p) /\ (pc[u] \in Gone => w = p)
  BY <1>10 DEF Line
<1>12. \A v \in Blocks : \A i \in 1..Len(MsgOut[v]) : MsgOut[v][i] = x => v = u
  BY <1>5, OneFeeder
<1>13. ASSUME ~Owed(e, x) PROVE Sending(outbox'[u], x, w, p)
  <2>1. CASE u = b
    <3>1. Sending(s, x, w, p)
      BY <1>3, <1>11, <2>1
    <3>2. Sending(Tail(s), x, w, p) /\ Sending(Marked(s), x, w, p)
      BY <1>4, <1>13, <3>1, SendingMoves
    <3> QED
      BY <1>2, <1>3, <2>1, <3>2
  <2>2. CASE u # b
    <3>1. outbox'[u] = outbox[u]
      BY <1>2, <2>2 DEF Turn
    <3> QED
      BY <1>11, <3>1
  <2> QED
    BY <2>1, <2>2
<1>14. CASE inbox'[x] = inbox[x] /\ ~Owed(e, x)
  <2>1. inbox'[x].queue = q
    BY <1>7, <1>14
  <2>2. Sending(outbox'[u], x, w, p)
    BY <1>13, <1>14
  <2> QED
    BY <1>8, <1>9, <1>11, <2>1, <2>2 DEF Line
<1>15. CASE e.to = x /\ ~e.pushed /\ inbox'[x].queue = Append(q, e.msg) /\ e.msg # "Call"
  <2>1. e.msg \in BlockMsgs
    BY <1>6, <1>15
  <2>2. Waiting(Append(q, e.msg), g, w)
    BY <1>11, <1>15, <2>1, WaitingAppend
  <2>3. Sending(outbox'[u], x, w, p)
    BY <1>13, <1>15 DEF Owed
  <2> QED
    BY <1>8, <1>9, <1>11, <1>15, <2>2, <2>3 DEF Line
<1>16. CASE e.to = x /\ ~e.pushed /\ inbox'[x].queue = Append(q, e.msg) /\ e.msg = "Call"
  <2>1. u = b /\ pc[b] \notin Gone
    BY <1>6, <1>12, <1>16 DEF Tells
  <2>2. \A i \in 1..Len(q) : q[i] # "CallFinished"
    <3> SUFFICES ASSUME NEW i \in 1..Len(q), q[i] = "CallFinished" PROVE FALSE
      OBVIOUS
    <3>1. HeardAll(fg, pc, q, x)
      BY <1>7 DEF Calling
    <3>2. Heard(fg, pc, x, "CallFinished")
      BY <3>1 DEF HeardAll
    <3>3. PICK v \in Blocks : pc[v] \in Gone /\ \E h \in 1..Len(MsgOut[v]) : x = MsgOut[v][h]
      BY <1>5, <3>2 DEF Heard, MsgOut
    <3> QED
      BY <1>12, <2>1, <3>3
  <2>3. PICK v : v = w + 1
    OBVIOUS
  <2>4. "Call" \in BlockMsgs
    BY DEF BlockMsgs
  <2>5. v \in Nat /\ Waiting(Append(q, "Call"), g, v)
    BY <1>11, <2>2, <2>3, <2>4, WaitingAppend
  <2>6. Owed(Head(s), x)
    BY <1>4, <1>16 DEF Owed
  <2>7. Sending(s, x, w, p)
    BY <1>3, <1>11, <2>1
  <2>8. Sending(Tail(s), x, v, p) /\ Sending(Marked(s), x, v, p)
    BY <1>4, <2>3, <2>6, <2>7, SendingMoves
  <2>9. Sending(outbox'[u], x, v, p)
    BY <1>2, <1>3, <2>1, <2>8
  <2> QED
    BY <1>8, <1>9, <1>16, <2>1, <2>5, <2>9 DEF Line
<1>17. \/ inbox'[x] = inbox[x] /\ ~Owed(e, x)
       \/ e.to = x /\ ~e.pushed /\ inbox'[x].queue = Append(q, e.msg)
  <2>1. CASE UNCHANGED inbox /\ (e.to \in Blocks => e.pushed)
    BY <2>1 DEF Owed
  <2>2. CASE /\ e.to \in Blocks /\ ~e.pushed
             /\ inbox'[e.to].queue = Append(inbox[e.to].queue, e.msg)
             /\ \A c \in Blocks : c # e.to => inbox'[c] = inbox[c]
    <3>1. CASE x = e.to
      BY <1>7, <2>2, <3>1
    <3>2. CASE x # e.to
      BY <2>2, <3>2 DEF Owed
    <3> QED
      BY <3>1, <3>2
  <2> QED
    BY <1>2, <2>1, <2>2
<1> QED
  BY <1>14, <1>15, <1>16, <1>17

\* The invariant after a step that leaves the blocks' counters alone.
LEMMA SamePasses ==
  ASSUME IndInv, Released, NEW P \in [Blocks -> Nat], NEW G \in [Blocks -> Nat], Passes(P, G),
         fg' = fg, pc' = pc, io' = io, k' = k,
         \A u \in Blocks : \A j \in 1..Len(MsgOut[u]) : \A x \in Blocks :
            x = MsgOut[u][j] => Line(inbox'[x].queue, outbox'[u], x, G[x], P[u], pc[u])
  PROVE  Released' /\ \E Q, H \in [Blocks -> Nat] : Passes(Q, H)'
<1>1. /\ Blocks' = Blocks /\ Kind' = Kind /\ MsgOut' = MsgOut /\ fg \in Flowgraphs
      /\ \A c \in Blocks : HasMsgIn(c)' = HasMsgIn(c)
  BY DEF Blocks, N, Kind, MsgOut, HasMsgIn, IndInv, TypeInv
<1>2. Released'
  BY <1>1 DEF Released
<1>3. Lines(fg, inbox', outbox', pc, P, G)
  <2> SUFFICES ASSUME NEW u \in Blocks, NEW j \in 1..Len(MsgOut[u]), NEW x, x = MsgOut[u][j]
               PROVE  Line(inbox'[x].queue, outbox'[u], x, G[x], P[u], pc[u])
    BY DEF Lines, Blocks, N, Kind, MsgOut
  <2>1. x \in Blocks
    BY <1>1, PostEnds
  <2> QED
    BY <2>1
<1>4. \A c \in Blocks : Keeps(Kind[c], k[c], io[c].finished, P[c], G[c])
  BY DEF Passes
<1>5. Passes(P, G)'
  BY <1>1, <1>3, <1>4 DEF Passes
<1> QED
  BY <1>1, <1>2, <1>5

\* Every step.
LEMMA MessageStep ==
  ASSUME IndInv, IndInv', TypesInv, MailInv, AskInv, CallInv, MessageInv, [Next]_vars
  PROVE  MessageInv'
<1> SUFFICES ASSUME Undisturbed', NoEarlyPosts', SingleFed', Uncalled'
             PROVE  Released' /\ (\E P, G \in [Blocks -> Nat] : Passes(P, G))'
  BY DEF MessageInv
<1>1. /\ fg' = fg /\ Blocks' = Blocks /\ fg \in Flowgraphs /\ NoEarlyPosts /\ Undisturbed
      /\ \A c \in Blocks : pc[c] \in Gone => pc'[c] \in Gone
  BY Phases, OneWay DEF IndInv, TypeInv
<1>2. Uncalled /\ SingleFed
  BY <1>1 DEF Uncalled, Requests, SingleFed, MsgOut
<1>3. Calling /\ Uncalling(mainout) /\ PhaseInv /\ TruthInv /\ Released
  BY <1>1, <1>2 DEF CallInv, AskInv, MailInv, MessageInv
<1>4. PICK P \in [Blocks -> Nat], G \in [Blocks -> Nat] : Passes(P, G)
  BY <1>1, <1>2 DEF MessageInv
<1>5. \A b \in Blocks : ~failed'[b]
  BY <1>1 DEF Undisturbed
<1> SUFFICES Released' /\ \E Q, H \in [Blocks -> Nat] : Passes(Q, H)'
  BY <1>1
<1>6. ASSUME NEW b \in Blocks, BlockNext(b)
      PROVE  Released' /\ \E Q, H \in [Blocks -> Nat] : Passes(Q, H)'
  <2>1. CASE BlockReceive(b)
    BY <1>1, <1>2, <1>3, <1>4, <1>5, <2>1, ReceivePasses
  <2>2. CASE BlockWork(b)
    BY <1>1, <1>2, <1>3, <1>4, <1>5, <2>2, WorkPasses
  <2>3. CASE BlockStart(b) \/ BlockSetup(b) \/ BlockDrained(b) \/ BlockTimer(b) \/ BlockDeinit(b)
    BY <1>1, <1>3, <1>4, <1>5, <2>3, QuietPasses
  <2>4. CASE BlockSend(b)
    <3>1. PICK e : e = Head(outbox[b])
      OBVIOUS
    <3>2. Turn(b) /\ UNCHANGED <<pc, io, infin, k, avail, deferred>>
      BY <1>5, <2>4, <3>1, SendMoves
    <3>3. pc' = pc /\ io' = io /\ k' = k
      BY <3>2
    <3>4. \A u \in Blocks : \A j \in 1..Len(MsgOut[u]) : \A x \in Blocks :
            x = MsgOut[u][j] => Line(inbox'[x].queue, outbox'[u], x, G[x], P[u], pc[u])
      BY <1>2, <1>3, <1>4, <1>5, <2>4, SendLines
    <3> QED
      BY <1>1, <1>3, <1>4, <3>3, <3>4, SamePasses
  <2> QED
    BY <1>6, <2>1, <2>2, <2>3, <2>4 DEF BlockNext
<1>7. ASSUME UNCHANGED blockVars,
             \A c \in Blocks : \/ inbox'[c].queue = inbox[c].queue
                               \/ \E m \in BlockMsgs : /\ m # "Call"
                                                       /\ inbox'[c].queue = Append(inbox[c].queue, m)
      PROVE  Released' /\ \E Q, H \in [Blocks -> Nat] : Passes(Q, H)'
  <2>1. fg' = fg /\ outbox' = outbox /\ pc' = pc /\ io' = io /\ k' = k
    BY <1>7 DEF blockVars
  <2>2. ASSUME NEW u \in Blocks, NEW j \in 1..Len(MsgOut[u]), NEW x \in Blocks, x = MsgOut[u][j]
        PROVE  Line(inbox'[x].queue, outbox'[u], x, G[x], P[u], pc[u])
    <3>1. PICK q \in Seq(BlockMsgs) : q = inbox[x].queue
      BY DEF TypesInv, PostInv, Boxes
    <3>2. Line(q, outbox[u], x, G[x], P[u], pc[u])
      BY <1>4, <2>2, <3>1 DEF Passes, Lines, Blocks, N, Kind, MsgOut
    <3>3. PICK w \in Nat : /\ Waiting(q, G[x], w) /\ Sending(outbox[u], x, w, P[u])
                           /\ pc[u] \in Gone => w = P[u]
      BY <3>2 DEF Line
    <3>4. G[x] \in Nat
      OBVIOUS
    <3>5. ASSUME NEW m \in BlockMsgs, m # "Call" PROVE Waiting(Append(q, m), G[x], w)
      BY <3>3, <3>4, <3>5, WaitingAppend
    <3>6. Waiting(inbox'[x].queue, G[x], w)
      BY <1>7, <3>1, <3>3, <3>5
    <3> QED
      BY <2>1, <3>3, <3>6 DEF Line
  <2> QED
    BY <1>3, <1>4, <2>1, <2>2, SamePasses
<1>8. CASE MainSend
  <2>1. PICK e : e = Head(mainout)
    OBVIOUS
  <2>2. /\ UNCHANGED blockVars /\ mainout # <<>>
        /\ \/ UNCHANGED inbox
           \/ /\ e.to # Main
              /\ e.to \in Blocks => inbox'[e.to].queue = Append(inbox[e.to].queue, e.msg)
              /\ \A c \in Blocks : c # e.to => inbox'[c] = inbox[c]
    BY <1>8, <2>1, MainSendMoves
  <2>3. e.to # Main => e.msg \in BlockMsgs /\ e.msg # "Call"
    <3>1. mainout \in Seq(Sends) /\ Dispatched(mainout) /\ 0 \in Nat
      BY DEF IndInv, TypeInv, TypesInv, PostInv
    <3>2. e.to # Main => e.msg \in BlockMsgs
      BY <2>1, <2>2, <3>1, AddressedMoves
    <3>3. e.to # Main => e.msg \notin CallMsgs
      BY <1>3, <2>1, <2>2, <3>1, UncallingMoves
    <3> QED
      BY <3>2, <3>3 DEF CallMsgs
  <2>4. \A c \in Blocks : \/ inbox'[c].queue = inbox[c].queue
                          \/ \E m \in BlockMsgs : /\ m # "Call"
                                                  /\ inbox'[c].queue = Append(inbox[c].queue, m)
    BY <2>2, <2>3
  <2> QED
    BY <1>7, <2>2, <2>4
<1>9. CASE ~MainSend /\ \A b \in Blocks : ~BlockNext(b)
  <2>1. UNCHANGED <<blockVars, inbox>>
    BY <1>9, Elsewhere
  <2>2. UNCHANGED blockVars /\ UNCHANGED inbox
    BY <2>1
  <2> QED
    BY <1>7, <2>2
<1> QED
  BY <1>6, <1>8, <1>9

\* Nobody has posted or got anything.
LEMMA InitMessage == Init => MessageInv
<1> SUFFICES ASSUME Init PROVE Released /\ \E P, G \in [Blocks -> Nat] : Passes(P, G)
  BY DEF MessageInv
<1>1. /\ fg \in Flowgraphs
      /\ \A b \in Blocks : /\ pc[b] = "start" /\ io[b] = FreshIo /\ inbox[b] = EmptyChannel
                           /\ outbox[b] = <<>>
      /\ \A b \in Blocks : k[b] = IF Kind[b] = "head" THEN Items ELSE 0
  BY DEF Init
<1>2. PICK Z : Z = [b \in Blocks |-> 0]
  OBVIOUS
<1>3. Z \in [Blocks -> Nat] /\ \A b \in Blocks : Z[b] = 0
  BY <1>2
<1>4. \A b \in Blocks : ~io[b].finished
  BY <1>1 DEF FreshIo
<1>5. Released
  BY <1>4 DEF Released
<1>6. ASSUME NEW b \in Blocks PROVE Keeps(Kind[b], k[b], io[b].finished, Z[b], Z[b])
  <2>1. Least(0, MaxCount) = 0
    BY KernelsAssumption DEF Least
  <2>2. Z[b] = 0 /\ ~io[b].finished /\ (Kind[b] # "head" => k[b] = 0)
    BY <1>1, <1>3, <1>4
  <2> QED
    BY <2>1, <2>2 DEF Keeps
<1>7. Lines(fg, inbox, outbox, pc, Z, Z)
  <2> SUFFICES ASSUME NEW u \in Blocks, NEW j \in 1..Len(MsgOut[u]), NEW x, x = MsgOut[u][j]
               PROVE  Line(inbox[x].queue, outbox[u], x, Z[x], Z[u], pc[u])
    BY DEF Lines, Blocks, N, Kind, MsgOut
  <2>1. x \in Blocks
    BY <1>1, PostEnds
  <2>2. inbox[x].queue = <<>> /\ outbox[u] = <<>> /\ Z[x] = 0 /\ Z[u] = 0
    BY <1>1, <1>3, <2>1 DEF EmptyChannel
  <2>3. <<>> \in Seq(Sends) /\ \A i \in 1..Len(<<>>) : ~Owed(<<>>[i], x)
    OBVIOUS
  <2>4. 0 \in Nat /\ Sending(<<>>, x, 0, 0)
    BY <2>3, SendingNothing
  <2>5. Waiting(<<>>, 0, 0)
    BY <2>4, WaitingNothing
  <2> QED
    BY <2>2, <2>4, <2>5 DEF Line
<1> QED
  BY <1>3, <1>5, <1>6, <1>7 DEF Passes

\* A sink of messages that has ended by itself has got them all.
LEMMA MessagesEnd ==
  ASSUME MailInv, MessageInv, Undisturbed, NoEarlyPosts, SingleFed, Uncalled,
         NEW b \in Blocks, pc[b] = "done", Kind[b] = "msg_sink"
  PROVE  k[b] = Burst
<1>1. io[b].finished
  BY DEF MailInv, PhaseInv, Gone
<1>2. PICK P \in [Blocks -> Nat], G \in [Blocks -> Nat] : Passes(P, G)
  BY DEF MessageInv
<1>3. Keeps(Kind[b], k[b], io[b].finished, P[b], G[b])
  BY <1>2 DEF Passes
<1>4. k[b] = Least(Burst, MaxCount)
  BY <1>1, <1>3 DEF Keeps
<1> QED
  BY <1>4, KernelsAssumption DEF Least

-----------------------------------------------------------------------------
(* The theorems                                                            *)

\* Every flowgraph keeps the accounts of its streams and of its messages.
THEOREM Delivers == Spec => [](MailInv /\ StreamInv /\ AskInv /\ CallInv /\ MessageInv)
<1>1. Init => MailInv /\ StreamInv /\ AskInv /\ CallInv /\ MessageInv
  BY InitMail, InitStream, InitAsk, InitCall, InitMessage
<1>2. /\ IndInv /\ IndInv' /\ TypesInv /\ BeginInv
      /\ MailInv /\ StreamInv /\ AskInv /\ CallInv /\ MessageInv /\ [Next]_vars
      => (MailInv /\ StreamInv /\ AskInv /\ CallInv /\ MessageInv)'
  BY MailStep, StreamStep, AskStep, CallStep, MessageStep
<1> QED
  BY <1>1, <1>2, Inductive, Typed, Begins, PTL DEF Spec

\* NothingLost, for every flowgraph: when a block has ended by itself nothing is left in
\* the stream it reads, and a sink of samples or messages has got all that was sent,
\* however long the chain of blocks and whatever overtook whom.
THEOREM NothingLostHolds == Spec => []NothingLost
<1>1. IndInv /\ TypesInv /\ MailInv /\ StreamInv /\ MessageInv => NothingLost
  <2> SUFFICES ASSUME IndInv, TypesInv, MailInv, StreamInv, MessageInv,
                      NEW b \in Blocks, Undisturbed, pc[b] = "done"
               PROVE  /\ HasInput(b) /\ (\A h \in Blocks : Kind[h] # "head") => avail[Up(b)] = 0
                      /\ Kind[b] = "sink" => k[b] = Items
                      /\ Kind[b] = "msg_sink" /\ NoEarlyPosts /\ SingleFed /\ Uncalled => k[b] = Burst
    BY DEF NothingLost
  <2> QED
    BY StreamsEnd, MessagesEnd
<1> QED
  BY <1>1, Inductive, Typed, Delivers, PTL
=============================================================================
