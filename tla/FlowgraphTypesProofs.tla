------------------------ MODULE FlowgraphTypesProofs ------------------------
(***************************************************************************)
(* The types of a running flowgraph, for every flowgraph, every size of    *)
(* the stream buffers and of the inboxes: no stream buffer is overrun or   *)
(* read beyond what it holds, no counter of run_flowgraph underflows, and  *)
(* a block, run_flowgraph and a user of the handle only get the messages   *)
(* that are meant for them.                                                *)
(*                                                                         *)
(* The invariant that is proved has three parts: what a kernel may take    *)
(* and give, whom a message in an outbox is for, and the counters.         *)
(***************************************************************************)
EXTENDS FlowgraphRuntimeProofs

Ios == [again : BOOLEAN, finished : BOOLEAN, timer : {"none", "armed", "fired"}]

\* The kernels, and the buffers between them.
KernelInv ==
    /\ io \in [Blocks -> Ios] /\ infin \in [Blocks -> BOOLEAN]
    /\ avail \in [Blocks -> 0..StreamCap]
    /\ k \in [Blocks -> Nat] /\ \A b \in Blocks : Kind[b] = "source" => k[b] <= Items

\* An outbox of a block in a flowgraph of n blocks: messages for blocks, for
\* run_flowgraph, and answers.  An outbox of run_flowgraph has no answers.
Destined(e, n) == \/ e.to \in 1..n /\ e.msg \in BlockMsgs
                  \/ e.to = Main
                  \/ e.to = n + 1 /\ e.msg \in {"ok", "err"}
Addressed(s, n) == \A i \in 1..Len(s) : Destined(s[i], n)
Dispatched(s) == \A i \in 1..Len(s) : s[i].to # Main => s[i].msg \in BlockMsgs

\* The inboxes of the blocks B.
Boxes(f, B) == DOMAIN f = B /\ \A b \in B : f[b].queue \in Seq(BlockMsgs)

PostInv ==
    /\ \A b \in Blocks : Addressed(outbox[b], N)
    /\ Dispatched(mainout)
    /\ Boxes(inbox, Blocks)
    /\ oneshot \in {"none", "ok", "err"}

Mpcs == {"sendInit", "waitInit", "requeue", "loop", "retOk", "retErr", "abortedInit", "aborted"}
Replies == {"none", "ok", "err", "invalidBlock", "closed"}

\* The counters of run_flowgraph, and what its users have been told.
LedgerInv ==
    /\ mpc \in Mpcs /\ initLeft \in 0..N /\ active \in 0..N
    /\ reply \in [Clients -> Replies]

TypesInv == KernelInv /\ PostInv /\ LedgerInv

-----------------------------------------------------------------------------
(* The kernels                                                             *)

\* A call of work() that was shown i items and room for o.
Fits(r, i, o) ==
    /\ r.cons \in 0..i /\ r.prod \in 0..o /\ r.k \in Nat
    /\ r.fin \in BOOLEAN /\ r.timer \in BOOLEAN

\* No kernel takes more than there is, or gives more than there is room for.
LEMMA KernelsFit ==
  ASSUME NEW x \in Nat, NEW i \in Nat, NEW o \in Nat, NEW f \in BOOLEAN
  PROVE  /\ Fits(Idle(x), i, o) /\ Idle(x).k = x
         /\ Fits(NullSource(x, o), i, o) /\ Fits(Copy(x, i, o, f), i, o)
         /\ Fits(HeadBlock(x, i, o), i, o) /\ Fits(NullSink(x, i, f), i, o)
         /\ Fits(MessageBurst(x), i, o)
         /\ \A due \in BOOLEAN : Fits(MessageSource(x, due), i, o)
         /\ x <= Items => Fits(VectorSource(x, o), i, o) /\ VectorSource(x, o).k <= Items
<1>1. Items \in Nat /\ Burst \in Nat /\ MaxCount \in Nat
  BY KernelsAssumption
<1>2. \A m, n \in Nat : Least(m, n) \in Nat /\ Least(m, n) <= m /\ Least(m, n) <= n
  BY SMT DEF Least
<1>3. Fits(Idle(x), i, o) /\ Idle(x).k = x
  BY DEF Fits, Idle
<1>4. Fits(NullSource(x, o), i, o)
  BY DEF Fits, NullSource, Idle
<1>5. Fits(Copy(x, i, o, f), i, o)
  <2>1. PICK m \in Nat : m = Least(i, o) /\ m <= i /\ m <= o
    BY <1>2
  <2> QED
    BY <2>1 DEF Fits, Copy, Idle
<1>6. Fits(HeadBlock(x, i, o), i, o)
  <2>1. PICK m \in Nat : m = Least(i, o) /\ m <= i /\ m <= o
    BY <1>2
  <2>2. PICK n \in Nat : n = Least(x, m) /\ n <= m /\ n <= x
    BY <1>2
  <2>3. n <= i /\ n <= o /\ x - n \in Nat
    BY <2>1, <2>2, SMT
  <2> QED
    BY <2>1, <2>2, <2>3 DEF Fits, HeadBlock, Idle
<1>7. Fits(NullSink(x, i, f), i, o)
  <2>1. x + i \in Nat
    OBVIOUS
  <2>2. PICK m \in Nat : m = Least(x + i, MaxCount)
    BY <1>1, <1>2, <2>1
  <2> QED
    BY <2>2 DEF Fits, NullSink, Idle
<1>8. Fits(MessageBurst(x), i, o)
  BY DEF Fits, MessageBurst, Idle
<1>9. ASSUME NEW due \in BOOLEAN PROVE Fits(MessageSource(x, due), i, o)
  <2>1. CASE due
    BY <2>1 DEF Fits, MessageSource, Idle
  <2>2. CASE ~due
    BY <2>2 DEF Fits, MessageSource, Idle
  <2> QED
    BY <2>1, <2>2
<1>10. ASSUME x <= Items PROVE Fits(VectorSource(x, o), i, o) /\ VectorSource(x, o).k <= Items
  <2>1. Items - x \in Nat
    BY <1>1, <1>10
  <2>2. PICK m \in Nat : m = Least(o, Items - x) /\ m <= o /\ m <= Items - x
    BY <1>2, <2>1
  <2>3. x + m \in Nat /\ x + m <= Items
    BY <1>1, <2>2, SMT
  <2> QED
    BY <2>2, <2>3 DEF Fits, VectorSource, Idle
<1> QED
  BY <1>3, <1>4, <1>5, <1>6, <1>7, <1>8, <1>9, <1>10

\* The block before one that has an input.
LEMMA UpIsBlock ==
  ASSUME NEW b \in Blocks, Linked(fg, b), HasInput(b)
  PROVE  Up(b) \in Blocks /\ Down[Up(b)] = b
<1>1. PICK u \in Blocks : Down[u] = b
  BY DEF Linked, HasInput, StreamInputs, Kind, Down, Blocks, N
<1>2. Upstream(b) # {} /\ \A u2 \in Upstream(b) : u2 \in Blocks /\ Down[u2] = b
  BY <1>1 DEF Upstream
<1>3. Up(b) \in Upstream(b)
  BY <1>2 DEF Up
<1> QED
  BY <1>2, <1>3

\* What a call of work() may do.
LEMMA OutcomesFit ==
  ASSUME KernelInv, StreamCap \in Nat, NEW b \in Blocks, Linked(fg, b), NEW r \in Outcomes(b)
  PROVE  /\ Fits(r, IF HasInput(b) THEN avail[Up(b)] ELSE 0, StreamCap - avail[b])
         /\ Kind[b] = "source" => r.k <= Items
<1>1. PICK x \in Nat : x = k[b]
  BY DEF KernelInv
<1>2. PICK i \in Nat : i = IF HasInput(b) THEN avail[Up(b)] ELSE 0
  <2>1. HasInput(b) => avail[Up(b)] \in Nat
    BY UpIsBlock DEF KernelInv
  <2> QED
    BY <2>1
<1>3. PICK o \in Nat : o = StreamCap - avail[b]
  <2>1. avail[b] \in 0..StreamCap
    BY DEF KernelInv
  <2> QED
    BY <2>1
<1>4. PICK f \in BOOLEAN : f = infin[b]
  BY DEF KernelInv
<1>5. PICK kb : kb = Kind[b]
  OBVIOUS
<1>6. kb = "source" => x <= Items
  BY <1>1, <1>5 DEF KernelInv
<1>7. \/ kb = "source" /\ r = VectorSource(x, o)
      \/ kb # "source" /\ r \in {NullSource(x, o), Copy(x, i, o, f), HeadBlock(x, i, o),
                                 NullSink(x, i, f), MessageBurst(x), Idle(x)}
      \/ kb # "source" /\ \E due \in BOOLEAN : r = MessageSource(x, due)
  BY <1>1, <1>2, <1>3, <1>4, <1>5 DEF Outcomes
<1>8. Fits(r, i, o) /\ (kb = "source" => r.k <= Items)
  BY <1>6, <1>7, KernelsFit
<1> QED
  BY <1>2, <1>3, <1>5, <1>8

\* What KernelInv does not see.
LEMMA KernelKept ==
  ASSUME KernelInv, UNCHANGED <<fg, io, k, infin, avail>>
  PROVE  KernelInv'
<1>1. Blocks' = Blocks
  BY DEF Blocks, N, Kind
<1> QED
  BY <1>1 DEF KernelInv, Kind

\* A step of one block b.
LEMMA KernelChanged ==
  ASSUME KernelInv, UNCHANGED fg, NEW b \in Blocks, NEW w \in Ios, NEW f \in BOOLEAN,
         NEW x \in Nat, Kind[b] = "source" => x <= Items,
         io' = [io EXCEPT ![b] = w], infin' = [infin EXCEPT ![b] = f],
         k' = [k EXCEPT ![b] = x], avail' \in [Blocks -> 0..StreamCap]
  PROVE  KernelInv'
<1>1. Blocks' = Blocks /\ Kind' = Kind
  BY DEF Blocks, N, Kind
<1>2. /\ io' \in [Blocks -> Ios] /\ infin' \in [Blocks -> BOOLEAN] /\ k' \in [Blocks -> Nat]
      /\ k'[b] = x /\ \A c \in Blocks : c # b => k'[c] = k[c]
  BY DEF KernelInv
<1>3. \A c \in Blocks : Kind[c] = "source" => k'[c] <= Items
  BY <1>2 DEF KernelInv
<1> QED
  BY <1>1, <1>2, <1>3 DEF KernelInv

\* BlockReceive: a handler changes the counter, and may end the block.
LEMMA KernelReceive ==
  ASSUME KernelInv, NEW b \in Blocks, BlockReceive(b)
  PROVE  KernelInv'
<1>1. UNCHANGED <<fg, avail>>
  BY DEF BlockReceive
<1>2. PICK m : m = Message(b)
  OBVIOUS
<1>3. PICK last \in BOOLEAN : last = (m = "CallFinished")
  OBVIOUS
<1>4. PICK x \in Nat : x = k[b]
  BY DEF KernelInv
<1>5. PICK kb : kb = Kind[b]
  OBVIOUS
<1>6. PICK h : h = IF m \in {"Call", "CallFinished", "Callback"} THEN Handler(b, last) ELSE Idle(x)
  OBVIOUS
<1>7. h.k \in Nat /\ h.fin \in BOOLEAN /\ (kb = "source" => h.k = x)
  <2>1. Idle(x).k = x /\ Idle(x).fin = FALSE
    BY DEF Idle
  <2>2. MessageCopyHandler(x, last).k = x /\ MessageCopyHandler(x, last).fin \in BOOLEAN
    BY DEF MessageCopyHandler, Idle
  <2>3. MessageSinkHandler(x, last).k \in Nat /\ MessageSinkHandler(x, last).fin \in BOOLEAN
    <3>1. PICK n : n = Least(x + 1, MaxCount)
      OBVIOUS
    <3>2. n \in Nat
      BY <3>1, KernelsAssumption, SMT DEF Least
    <3> QED
      BY <3>1, <3>2 DEF MessageSinkHandler, Idle
  <2>4. \/ h = Idle(x) \/ h = MessageCopyHandler(x, last)
        \/ kb # "source" /\ h = MessageSinkHandler(x, last)
    BY <1>4, <1>5, <1>6 DEF Handler
  <2> QED
    BY <2>1, <2>2, <2>3, <2>4
<1>8. CASE UNCHANGED <<io, infin, k>>
  BY <1>1, <1>8, KernelKept
<1>9. CASE /\ io' = [io EXCEPT ![b].again = TRUE, ![b].finished = @ \/ h.fin \/ Stops(m)]
           /\ infin' = [infin EXCEPT ![b] = @ \/ m = "StreamInputDone"]
           /\ k' = [k EXCEPT ![b] = h.k]
  <2>1. PICK w : w = [io[b] EXCEPT !.again = TRUE, !.finished = @ \/ h.fin \/ Stops(m)]
    OBVIOUS
  <2>2. w \in Ios
    BY <2>1 DEF KernelInv, Ios
  <2>3. io' = [io EXCEPT ![b] = w]
    BY <1>9, <2>1
  <2>4. PICK f \in BOOLEAN : f = (infin[b] \/ m = "StreamInputDone")
    OBVIOUS
  <2>5. infin' = [infin EXCEPT ![b] = f]
    BY <1>9, <2>4
  <2>6. Kind[b] = "source" => h.k <= Items
    BY <1>4, <1>5, <1>7 DEF KernelInv
  <2>7. avail' \in [Blocks -> 0..StreamCap]
    BY <1>1 DEF KernelInv
  <2> QED
    BY <1>1, <1>7, <1>9, <2>2, <2>3, <2>5, <2>6, <2>7, KernelChanged
<1> QED
  BY <1>2, <1>3, <1>4, <1>6, <1>8, <1>9, Zenon DEF BlockReceive

\* BlockDrained and BlockTimer
LEMMA KernelWakes ==
  ASSUME KernelInv, NEW b \in Blocks, BlockDrained(b) \/ BlockTimer(b)
  PROVE  KernelInv'
<1>1. UNCHANGED <<fg, k, infin, avail>>
  BY DEF BlockDrained, BlockTimer
<1>2. CASE UNCHANGED io
  BY <1>1, <1>2, KernelKept
<1>3. ASSUME NEW w \in Ios, io' = [io EXCEPT ![b] = w] PROVE KernelInv'
  <2>1. /\ infin' = [infin EXCEPT ![b] = infin[b]] /\ k' = [k EXCEPT ![b] = k[b]]
        /\ avail' \in [Blocks -> 0..StreamCap] /\ infin[b] \in BOOLEAN /\ k[b] \in Nat
        /\ Kind[b] = "source" => k[b] <= Items
    BY <1>1 DEF KernelInv
  <2> QED
    BY <1>1, <1>3, <2>1, KernelChanged
<1>4. PICK w1 : w1 = [io[b] EXCEPT !.again = FALSE]
  OBVIOUS
<1>5. PICK w2 : w2 = [io[b] EXCEPT !.timer = "fired"]
  OBVIOUS
<1>6. w1 \in Ios /\ w2 \in Ios
  BY <1>4, <1>5 DEF KernelInv, Ios
<1>7. UNCHANGED io \/ io' = [io EXCEPT ![b] = w1] \/ io' = [io EXCEPT ![b] = w2]
  BY <1>4, <1>5 DEF BlockDrained, BlockTimer
<1> QED
  BY <1>2, <1>3, <1>6, <1>7

\* BlockWork: no buffer is overrun, or read beyond what it holds.
LEMMA KernelWork ==
  ASSUME IndInv, KernelInv, NEW b \in Blocks, BlockWork(b)
  PROVE  KernelInv'
<1>1. UNCHANGED <<fg, infin>> /\ pc[b] = "work"
  BY DEF BlockWork, Running
<1>2. CASE failAt[b] = "work"
  BY <1>1, <1>2, KernelKept DEF BlockWork
<1>3. CASE failAt[b] # "work"
  <2>1. PICK r \in Outcomes(b) :
          /\ k' = [k EXCEPT ![b] = r.k] /\ avail' = Moved(b, r)
          /\ io' = [io EXCEPT ![b].finished = @ \/ r.fin,
                              ![b].timer = IF r.timer \/ @ = "armed" THEN "armed" ELSE "none"]
    BY <1>3 DEF BlockWork
  <2>2. Linked(fg, b) /\ StreamCap \in Nat
    BY <1>1, RunningLinked, RuntimeAssumption
  <2>3. /\ Fits(r, IF HasInput(b) THEN avail[Up(b)] ELSE 0, StreamCap - avail[b])
        /\ Kind[b] = "source" => r.k <= Items
    BY <2>2, OutcomesFit
  <2>4. PICK w : w = [io[b] EXCEPT !.finished = @ \/ r.fin,
                                   !.timer = IF r.timer \/ @ = "armed" THEN "armed" ELSE "none"]
    OBVIOUS
  <2>5. w \in Ios
    BY <2>4 DEF KernelInv, Ios
  <2>6. io' = [io EXCEPT ![b] = w]
    BY <2>1, <2>4
  <2>7. infin' = [infin EXCEPT ![b] = infin[b]] /\ infin[b] \in BOOLEAN
    BY <1>1 DEF KernelInv
  <2>8. avail' \in [Blocks -> 0..StreamCap]
    <3>1. ASSUME NEW x \in Blocks PROVE Moved(b, r)[x] \in 0..StreamCap
      <4>1. PICK a \in 0..StreamCap : a = avail[x]
        BY DEF KernelInv
      <4>2. PICK p : p = IF x = b THEN r.prod ELSE 0
        OBVIOUS
      <4>3. PICK c : c = IF HasInput(b) /\ x = Up(b) THEN r.cons ELSE 0
        OBVIOUS
      <4>4. p \in Nat /\ a + p <= StreamCap
        BY <2>2, <2>3, <4>1, <4>2 DEF Fits, KernelInv
      <4>5. c \in 0..a
        BY <2>2, <2>3, <4>1, <4>3 DEF Fits
      <4>6. Moved(b, r)[x] = a + p - c
        BY <4>1, <4>2, <4>3 DEF Moved
      <4> QED
        BY <2>2, <4>4, <4>5, <4>6, SMT
    <3>2. Moved(b, r) = [x \in Blocks |-> Moved(b, r)[x]]
      BY DEF Moved
    <3> QED
      BY <2>1, <3>1, <3>2
  <2>9. r.k \in Nat
    BY <2>3 DEF Fits
  <2>10. PICK x \in Nat : x = r.k
    BY <2>9
  <2>11. PICK f \in BOOLEAN : f = infin[b]
    BY <2>7
  <2>12. /\ k' = [k EXCEPT ![b] = x] /\ infin' = [infin EXCEPT ![b] = f]
         /\ Kind[b] = "source" => x <= Items
    BY <2>1, <2>3, <2>7, <2>10, <2>11
  <2> QED
    BY <1>1, <2>5, <2>6, <2>8, <2>12, KernelChanged
<1> QED
  BY <1>2, <1>3

\* Every step.
LEMMA KernelStep ==
  ASSUME IndInv, KernelInv, [Next]_vars
  PROVE  KernelInv'
<1>1. ASSUME NEW b \in Blocks, BlockNext(b) PROVE KernelInv'
  <2>1. CASE BlockStart(b) \/ BlockSetup(b) \/ BlockDeinit(b) \/ BlockSend(b)
    BY <2>1, KernelKept DEF BlockStart, BlockSetup, BlockDeinit, BlockSend
  <2> QED
    BY <1>1, <2>1, KernelReceive, KernelWakes, KernelWork DEF BlockNext
<1>2. CASE MainNext
  <2>1. UNCHANGED blockVars
    BY <1>2 DEF MainNext, MainSend, MainInitSent, MainWaitInit, MainNotifyAll, MainRequeue,
                MainStarted, MainReturn, MainLoop, MainAnswer
  <2> QED
    BY <2>1, KernelKept DEF blockVars
<1>3. ASSUME NEW c \in Clients, ClientNext(c) PROVE KernelInv'
  BY <1>3, KernelKept DEF ClientNext, ClientAsk, ClientFlushed, blockVars
<1>4. CASE Quiet \/ UNCHANGED vars
  BY <1>4, KernelKept DEF Quiet, vars, blockVars
<1> QED
  BY <1>1, <1>2, <1>3, <1>4 DEF Next

-----------------------------------------------------------------------------
(* The messages                                                            *)

\* A message to each of some blocks.
LEMMA AddressedEach ==
  ASSUME NEW n \in Nat, NEW m \in Nat, NEW t \in [1..n -> Letters],
         \A i \in 1..n : t[i].to \in 1..m /\ t[i].msg \in BlockMsgs
  PROVE  Addressed(t, m) /\ Dispatched(t)
<1>1. t \in Seq(Sends)
  BY AwayEach
<1>2. Len(t) = n
  BY <1>1, LenProperties, SMT
<1> QED
  BY <1>2 DEF Addressed, Destined, Dispatched

\* No message, one message, and one outbox behind the other.
LEMMA AddressedConcat ==
  ASSUME NEW m \in Nat
  PROVE  /\ Addressed(<<>>, m) /\ Dispatched(<<>>)
         /\ \A e \in Sends : Destined(e, m) => Addressed(<<e>>, m)
         /\ \A e \in Sends : (e.to # Main => e.msg \in BlockMsgs) => Dispatched(<<e>>)
         /\ \A s, u \in Seq(Sends) : Addressed(s, m) /\ Addressed(u, m) => Addressed(s \o u, m)
<1>1. Addressed(<<>>, m) /\ Dispatched(<<>>)
  <2>1. Len(<<>>) = 0 /\ 1..0 = {}
    BY SMT
  <2> QED
    BY <2>1 DEF Addressed, Dispatched
<1>2. ASSUME NEW e \in Sends
      PROVE  /\ Destined(e, m) => Addressed(<<e>>, m)
             /\ (e.to # Main => e.msg \in BlockMsgs) => Dispatched(<<e>>)
  <2>1. Len(<<e>>) = 1 /\ <<e>>[1] = e
    OBVIOUS
  <2>2. \A i : i \in 1..1 <=> i = 1
    BY SMT
  <2> QED
    BY <2>1, <2>2 DEF Addressed, Dispatched
<1>3. ASSUME NEW s \in Seq(Sends), NEW u \in Seq(Sends), Addressed(s, m), Addressed(u, m)
      PROVE  Addressed(s \o u, m)
  <2>1. PICK t : t = s \o u
    OBVIOUS
  <2>2. /\ t \in Seq(Sends) /\ Len(t) = Len(s) + Len(u)
        /\ \A i \in 1..(Len(s) + Len(u)) : t[i] = IF i <= Len(s) THEN s[i] ELSE u[i - Len(s)]
    BY <2>1, ConcatProperties
  <2>3. Len(s) \in Nat /\ Len(u) \in Nat
    BY LenProperties
  <2>4. \A i \in 1..(Len(s) + Len(u)) :
          IF i <= Len(s) THEN i \in 1..Len(s) ELSE i - Len(s) \in 1..Len(u)
    BY <2>3, SMT
  <2>5. \A i \in 1..Len(t) : (\E j \in 1..Len(s) : t[i] = s[j]) \/ (\E j \in 1..Len(u) : t[i] = u[j])
    BY <2>2, <2>4
  <2>6. Addressed(t, m)
    BY <1>3, <2>5 DEF Addressed
  <2> QED
    BY <2>1, <2>6
<1> QED
  BY <1>1, <1>2, <1>3

\* The first message leaves the outbox, or stays until it is flushed.
LEMMA AddressedMoves ==
  ASSUME NEW s \in Seq(Sends), s # <<>>, NEW m \in Nat
  PROVE  /\ Addressed(s, m) =>
              Addressed(Tail(s), m) /\ Addressed(Marked(s), m) /\ Destined(Head(s), m)
         /\ Dispatched(s) =>
              /\ Dispatched(Tail(s)) /\ Dispatched(Marked(s))
              /\ Head(s).to # Main => Head(s).msg \in BlockMsgs
<1>1. PICK e \in Sends : e = Head(s)
  BY HeadTailProperties
<1>2. PICK t \in Seq(Sends) : t = Tail(s)
  BY HeadTailProperties
<1>3. PICK e1 : e1 = [e EXCEPT !.pushed = TRUE]
  OBVIOUS
<1>4. e1 \in Sends /\ e1.to = e.to /\ e1.msg = e.msg
  BY <1>3 DEF Sends, Letters
<1>5. PICK u : u = <<e1>> \o t
  OBVIOUS
<1>6. u = Marked(s)
  BY <1>1, <1>2, <1>3, <1>5 DEF Marked
<1>7. /\ Len(s) \in Nat \ {0} /\ Len(t) = Len(s) - 1 /\ e = s[1]
      /\ \A i \in 1..Len(t) : t[i] = s[i + 1]
  BY <1>1, <1>2, HeadTailProperties, LenProperties
<1>8. 1 \in 1..Len(s) /\ \A i \in 1..Len(t) : i + 1 \in 1..Len(s)
  BY <1>7, SMT
<1>9. \A i \in 1..Len(t) : \E j \in 1..Len(s) : t[i] = s[j]
  BY <1>7, <1>8
<1>10. \A i \in 1..Len(u) : u[i] = e1 \/ \E j \in 1..Len(s) : u[i] = s[j]
  <2>1. <<e1>> \in Seq(Sends) /\ Len(<<e1>>) = 1 /\ <<e1>>[1] = e1
    BY <1>4
  <2>2. /\ u \in Seq(Sends) /\ Len(u) = 1 + Len(t)
        /\ \A i \in 1..(1 + Len(t)) : u[i] = IF i <= 1 THEN <<e1>>[i] ELSE t[i - 1]
    BY <1>5, <2>1, ConcatProperties
  <2>3. \A i \in 1..(1 + Len(t)) : IF i <= 1 THEN i = 1 ELSE i - 1 \in 1..Len(t)
    BY <1>7, SMT
  <2>4. ASSUME NEW i \in 1..Len(u) PROVE u[i] = e1 \/ \E j \in 1..Len(s) : u[i] = s[j]
    <3>1. CASE i <= 1
      BY <2>1, <2>2, <2>3, <3>1
    <3>2. CASE ~(i <= 1)
      <4>1. PICK l \in 1..Len(t) : l = i - 1
        BY <2>2, <2>3, <3>2
      <4>2. u[i] = t[l]
        BY <2>2, <3>2, <4>1
      <4> QED
        BY <1>9, <4>2
    <3> QED
      BY <3>1, <3>2
  <2> QED
    BY <2>4
<1>11. ASSUME Addressed(s, m)
       PROVE  Addressed(t, m) /\ Addressed(u, m) /\ Destined(e, m)
  <2>1. Destined(e, m)
    BY <1>7, <1>8, <1>11 DEF Addressed
  <2>2. Addressed(t, m)
    BY <1>9, <1>11 DEF Addressed
  <2>3. Addressed(u, m)
    BY <1>4, <1>10, <1>11, <2>1 DEF Addressed, Destined
  <2> QED
    BY <2>1, <2>2, <2>3
<1>12. ASSUME Dispatched(s)
       PROVE  /\ Dispatched(t) /\ Dispatched(u)
              /\ e.to # Main => e.msg \in BlockMsgs
  <2>1. e.to # Main => e.msg \in BlockMsgs
    BY <1>7, <1>8, <1>12 DEF Dispatched
  <2>2. Dispatched(t)
    BY <1>9, <1>12 DEF Dispatched
  <2>3. Dispatched(u)
    BY <1>4, <1>10, <1>12, <2>1 DEF Dispatched
  <2> QED
    BY <2>1, <2>2, <2>3
<1> QED
  BY <1>1, <1>2, <1>6, <1>11, <1>12

\* What is done to an inbox.
LEMMA BoxesKept ==
  ASSUME NEW f, NEW B, Boxes(f, B)
  PROVE  /\ \A b \in B : f[b].queue # <<>> => Boxes([f EXCEPT ![b] = Pop(@)], B)
         /\ \A x, v, q : \A msg \in BlockMsgs : Boxes([f EXCEPT ![x] = Push(f[x], v, msg, q)], B)
<1>1. ASSUME NEW b \in B, f[b].queue # <<>> PROVE Boxes([f EXCEPT ![b] = Pop(@)], B)
  <2>1. PICK g : g = [f EXCEPT ![b] = Pop(@)]
    OBVIOUS
  <2>2. /\ DOMAIN g = B /\ g[b] = Pop(f[b])
        /\ \A c \in B : c # b => g[c] = f[c]
    BY <2>1 DEF Boxes
  <2>3. g[b].queue = Tail(f[b].queue)
    BY <2>2 DEF Pop
  <2>4. g[b].queue \in Seq(BlockMsgs)
    BY <1>1, <2>3, HeadTailProperties DEF Boxes
  <2>5. Boxes(g, B)
    BY <2>2, <2>4 DEF Boxes
  <2> QED
    BY <2>1, <2>5
<1>2. ASSUME NEW x, NEW v, NEW q, NEW msg \in BlockMsgs
      PROVE  Boxes([f EXCEPT ![x] = Push(f[x], v, msg, q)], B)
  <2>1. PICK g : g = [f EXCEPT ![x] = Push(f[x], v, msg, q)]
    OBVIOUS
  <2>2. /\ DOMAIN g = B /\ (x \in B => g[x] = Push(f[x], v, msg, q))
        /\ \A c \in B : c # x => g[c] = f[c]
    BY <2>1 DEF Boxes
  <2>3. ASSUME x \in B PROVE g[x].queue \in Seq(BlockMsgs)
    <3>1. g[x].queue = Append(f[x].queue, msg)
      BY <2>2, <2>3 DEF Push
    <3> QED
      BY <2>3, <3>1, AppendProperties DEF Boxes
  <2>4. Boxes(g, B)
    BY <2>2, <2>3 DEF Boxes
  <2> QED
    BY <2>1, <2>4
<1> QED
  BY <1>1, <1>2

\* What a block sends: its reports, what it posts, its answers and farewells.
LEMMA ReportAddressed ==
  ASSUME NEW type, NEW b, NEW m \in Nat
  PROVE  Addressed(<<SendToMain(type, b)>>, m)
<1>1. PICK e : e = SendToMain(type, b)
  OBVIOUS
<1>2. e.to = Main
  BY <1>1 DEF SendToMain, Send
<1>3. Len(<<e>>) = 1 /\ <<e>>[1] = e /\ \A i : i \in 1..1 <=> i = 1
  BY SMT
<1> QED
  BY <1>1, <1>2, <1>3 DEF Addressed, Destined

\* What a block posts goes to blocks.
LEMMA PostsAddressed ==
  ASSUME fg \in Flowgraphs, NEW b \in Blocks, NEW n \in Nat, NEW msg \in BlockMsgs
  PROVE  Addressed(Posts(b, n, msg), N)
<1>1. WellFormed(fg) /\ N \in Nat
  BY RuntimeAssumption, BlocksFinite
<1>2. PICK out : out = fg.msgOut[b]
  OBVIOUS
<1>3. out \in Seq(1..N)
  BY <1>1, <1>2 DEF WellFormed, Blocks, N, Kind
<1>4. PICK d \in Nat : d = Len(out)
  BY <1>3, LenProperties
<1>5. n * d \in Nat
  BY SMT
<1>6. PICK s : s = Posts(b, n, msg)
  OBVIOUS
<1>7. s = [i \in 1..(n * d) |-> Send(out[((i - 1) % d) + 1], <<"msg", b>>, msg)]
  BY <1>2, <1>4, <1>6 DEF Posts, MsgOut
<1>8. s \in Seq(Sends)
  BY <1>6, PostsAway
<1>9. Len(s) = n * d
  <2>1. DOMAIN s = 1..(n * d)
    BY <1>7
  <2> QED
    BY <1>5, <1>8, <2>1, LenProperties, SMT
<1>10. ASSUME NEW i \in 1..(n * d) PROVE out[((i - 1) % d) + 1] \in 1..N
  <2>1. d # 0
    BY SMT
  <2>2. ((i - 1) % d) + 1 \in 1..d
    <3>1. i - 1 \in Nat
      BY <1>5, SMT
    <3>2. (i - 1) % d \in 0..(d - 1)
      BY <2>1, <3>1, SMT
    <3> QED
      BY <3>2, SMT
  <2>3. PICK j \in 1..d : j = ((i - 1) % d) + 1
    BY <2>2
  <2>4. out[j] \in 1..N
    BY <1>3, <1>4, ElementOfSeq
  <2> QED
    BY <2>3, <2>4
<1>11. \A i \in 1..Len(s) : s[i].to \in 1..N /\ s[i].msg \in BlockMsgs
  BY <1>7, <1>9, <1>10 DEF Send
<1> QED
  BY <1>6, <1>11 DEF Addressed, Destined

\* What a handler answers goes to run_flowgraph.
LEMMA AnswersAddressed ==
  ASSUME fg \in Flowgraphs, NEW b, NEW m
  PROVE  Answers(b, m) \in Seq(Sends) /\ Addressed(Answers(b, m), N)
<1>1. N \in Nat
  BY BlocksFinite
<1>2. PICK v : v = <<"oneshot", 0>>
  OBVIOUS
<1>3. v \in Vias
  BY <1>2 DEF Vias
<1>4. PICK n \in Nat : n = N
  BY <1>1
<1>5. ASSUME NEW res \in {"ok", "err"}
      PROVE  <<Answer(res)>> \in Seq(Sends) /\ Addressed(<<Answer(res)>>, n)
  <2>1. PICK e : e = Answer(res)
    OBVIOUS
  <2>2. e \in Letters /\ Destined(e, n)
    BY <1>2, <1>3, <1>4, <2>1 DEF Answer, Letters, Destined
  <2>3. e \in Sends
    BY <2>2 DEF Sends
  <2> QED
    BY <2>1, <2>2, <2>3, AddressedConcat
<1>6. <<>> \in Seq(Sends) /\ Addressed(<<>>, n)
  BY AddressedConcat
<1>7. PICK u : u = Answers(b, m)
  OBVIOUS
<1>8. u = <<>> \/ u = <<Answer("ok")>> \/ u = <<Answer("err")>>
  BY <1>7 DEF Answers
<1> QED
  BY <1>4, <1>5, <1>6, <1>7, <1>8

\* What a block sends when it shuts down goes to blocks.
LEMMA FarewellsAddressed ==
  ASSUME fg \in Flowgraphs, NEW b \in Blocks, Linked(fg, b)
  PROVE  Addressed(Farewells(b), N)
<1>1. WellFormed(fg) /\ b \in Nat /\ N \in Nat
  BY RuntimeAssumption, BlocksFinite
<1>2. PICK n \in Nat : n = N
  BY <1>1
<1>3. ASSUME NEW x \in 1..n, NEW where \in {"indone", "outdone"}, NEW msg \in BlockMsgs
      PROVE  /\ <<Send(x, <<where, b>>, msg)>> \in Seq(Sends)
             /\ Addressed(<<Send(x, <<where, b>>, msg)>>, n)
  <2>1. PICK v : v = <<where, b>>
    OBVIOUS
  <2>2. v \in Vias
    BY <1>1, <2>1 DEF Vias
  <2>3. PICK e : e = Send(x, v, msg)
    OBVIOUS
  <2>4. e \in Letters /\ Destined(e, n)
    BY <2>2, <2>3 DEF Send, Letters, Destined
  <2>5. e \in Sends
    BY <2>4 DEF Sends
  <2> QED
    BY <2>1, <2>3, <2>4, <2>5, AddressedConcat
<1>4. <<>> \in Seq(Sends) /\ Addressed(<<>>, n)
  BY AddressedConcat
<1>5. PICK s : s = IF HasInput(b) THEN <<Send(Up(b), <<"outdone", b>>, "StreamOutputDone")>>
                   ELSE <<>>
  OBVIOUS
<1>6. s \in Seq(Sends) /\ Addressed(s, n)
  <2>1. CASE HasInput(b)
    <3>1. PICK x \in 1..n : x = Up(b)
      BY <1>2, <2>1, UpIsBlock DEF Blocks
    <3> QED
      BY <1>3, <1>5, <2>1, <3>1 DEF BlockMsgs
  <2> QED
    BY <1>4, <1>5, <2>1
<1>7. PICK u : u = IF HasOutput(b) THEN <<Send(Down[b], <<"indone", b>>, "StreamInputDone")>>
                   ELSE <<>>
  OBVIOUS
<1>8. u \in Seq(Sends) /\ Addressed(u, n)
  <2>1. CASE HasOutput(b)
    <3>1. PICK x \in 1..n : x = Down[b]
      BY <1>1, <1>2, <2>1 DEF Linked, HasOutput, StreamOutputs, Kind, Down, WellFormed, Blocks, N
    <3> QED
      BY <1>3, <1>7, <2>1, <3>1 DEF BlockMsgs
  <2> QED
    BY <1>4, <1>7, <2>1
<1>9. PICK p : p = Posts(b, 1, "CallFinished")
  OBVIOUS
<1>10. p \in Seq(Sends) /\ Addressed(p, n)
  BY <1>2, <1>9, PostsAway, PostsAddressed DEF BlockMsgs
<1>11. Farewells(b) = (s \o u) \o p
  BY <1>5, <1>7, <1>9 DEF Farewells
<1>12. s \o u \in Seq(Sends) /\ Addressed(s \o u, n)
  BY <1>6, <1>8, AwayConcat, AddressedConcat
<1> QED
  BY <1>2, <1>10, <1>11, <1>12, AddressedConcat

\* A step of block b's task that leaves it the outbox s.
LEMMA PostsFrom ==
  ASSUME IndInv, PostInv, UNCHANGED <<fg, mainout>>, NEW b \in Blocks, NEW s, Addressed(s, N),
         outbox' = [outbox EXCEPT ![b] = s], Boxes(inbox', Blocks),
         oneshot' \in {"none", "ok", "err"}
  PROVE  PostInv'
<1>1. Blocks' = Blocks /\ N' = N
  BY DEF Blocks, N, Kind
<1>2. outbox'[b] = s /\ \A c \in Blocks : c # b => outbox'[c] = outbox[c]
  BY DEF IndInv, TypeInv
<1>3. \A c \in Blocks : Addressed(outbox'[c], N)
  BY <1>2 DEF PostInv
<1>4. Dispatched(mainout')
  BY Zenon DEF PostInv
<1> QED
  BY <1>1, <1>3, <1>4, Zenon DEF PostInv

\* A step that leaves the blocks' outboxes alone.
LEMMA PostsKept ==
  ASSUME PostInv, UNCHANGED <<fg, outbox>>, Dispatched(mainout'), Boxes(inbox', Blocks),
         oneshot' \in {"none", "ok", "err"}
  PROVE  PostInv'
<1>1. Blocks' = Blocks /\ N' = N
  BY DEF Blocks, N, Kind
<1>2. \A c \in Blocks : Addressed(outbox'[c], N)
  BY Zenon DEF PostInv
<1> QED
  BY <1>1, <1>2, Zenon DEF PostInv

\* BlockStart, BlockSetup, BlockDrained, BlockTimer and BlockDeinit
LEMMA PostsOfTask ==
  ASSUME IndInv, PostInv, NEW b \in Blocks,
         \/ BlockStart(b) \/ BlockSetup(b) \/ BlockDrained(b) \/ BlockTimer(b) \/ BlockDeinit(b)
  PROVE  PostInv'
<1>1. UNCHANGED <<fg, mainout, oneshot>> /\ fg \in Flowgraphs
  BY DEF BlockStart, BlockSetup, BlockDrained, BlockTimer, BlockDeinit, mainVars, IndInv, TypeInv
<1>2. N \in Nat /\ b \in Nat /\ Boxes(inbox, Blocks) /\ oneshot' \in {"none", "ok", "err"}
  BY <1>1, BlocksFinite DEF PostInv
<1>3. Boxes(inbox', Blocks)
  <2>1. UNCHANGED inbox \/ (inbox[b].queue # <<>> /\ inbox' = [inbox EXCEPT ![b] = Pop(@)])
    BY DEF BlockStart, BlockSetup, BlockDrained, BlockTimer, BlockDeinit, Take
  <2>2. CASE UNCHANGED inbox
    BY <1>2, <2>2
  <2>3. CASE inbox[b].queue # <<>> /\ inbox' = [inbox EXCEPT ![b] = Pop(@)]
    BY <1>2, <2>3, BoxesKept
  <2> QED
    BY <2>1, <2>2, <2>3
<1>4. CASE UNCHANGED outbox
  <2>1. Dispatched(mainout')
    BY <1>1, Zenon DEF PostInv
  <2> QED
    BY <1>1, <1>2, <1>3, <1>4, <2>1, PostsKept
<1>5. ASSUME NEW s, Addressed(s, N), outbox' = [outbox EXCEPT ![b] = s] PROVE PostInv'
  BY <1>1, <1>2, <1>3, <1>5, PostsFrom
<1>6. ASSUME NEW type, outbox' = [outbox EXCEPT ![b] = <<SendToMain(type, b)>>] PROVE PostInv'
  BY <1>2, <1>5, <1>6, ReportAddressed
<1>7. CASE outbox' = [outbox EXCEPT ![b] =
                        (IF InitPost[b] = "none" THEN <<>> ELSE Posts(b, 1, InitPost[b]))
                          \o <<SendToMain("Initialized", b)>>]
  <2>1. PICK s : s = IF InitPost[b] = "none" THEN <<>> ELSE Posts(b, 1, InitPost[b])
    OBVIOUS
  <2>2. s \in Seq(Sends) /\ Addressed(s, N)
    <3>1. CASE InitPost[b] = "none"
      BY <1>2, <2>1, <3>1, AddressedConcat, AwayNone
    <3>2. CASE InitPost[b] # "none"
      <4>1. InitPost[b] \in BlockMsgs
        BY <1>1, <3>2, RuntimeAssumption DEF WellFormed, InitPost, BlockMsgs, Blocks, N, Kind
      <4> QED
        BY <1>1, <2>1, <3>2, <4>1, PostsAway, PostsAddressed
    <3> QED
      BY <3>1, <3>2
  <2>3. PICK u : u = <<SendToMain("Initialized", b)>>
    OBVIOUS
  <2>4. u \in Seq(Sends) /\ Addressed(u, N)
    BY <1>2, <2>3, InitializedSent, ReportAddressed
  <2>5. Addressed(s \o u, N)
    BY <1>2, <2>2, <2>4, AddressedConcat
  <2>6. outbox' = [outbox EXCEPT ![b] = s \o u]
    BY <1>7, <2>1, <2>3
  <2> QED
    BY <1>5, <2>5, <2>6
<1>8. CASE pc[b] = "loop" /\ outbox' = [outbox EXCEPT ![b] = Farewells(b)]
  <2>1. Addressed(Farewells(b), N)
    BY <1>1, <1>8, RunningLinked, FarewellsAddressed
  <2> QED
    BY <1>5, <1>8, <2>1
<1>9. CASE Fail(b)
  BY <1>6, <1>9 DEF Fail
<1>10. CASE BlockStart(b)
  BY <1>4, <1>9, <1>10 DEF BlockStart
<1>11. CASE BlockSetup(b)
  BY <1>4, <1>7, <1>9, <1>11 DEF BlockSetup
<1>12. CASE BlockDrained(b)
  BY <1>4, <1>8, <1>12 DEF BlockDrained, Running
<1>13. CASE BlockTimer(b)
  BY <1>4, <1>13 DEF BlockTimer
<1>14. CASE BlockDeinit(b)
  BY <1>6, <1>9, <1>14 DEF BlockDeinit
<1> QED
  BY <1>10, <1>11, <1>12, <1>13, <1>14

\* BlockReceive
LEMMA PostsOfHandler ==
  ASSUME IndInv, PostInv, NEW b \in Blocks, BlockReceive(b)
  PROVE  PostInv'
<1>1. /\ UNCHANGED <<fg, mainout>> /\ fg \in Flowgraphs
      /\ inbox[b].queue # <<>> /\ inbox' = [inbox EXCEPT ![b] = Pop(@)]
  BY DEF BlockReceive, Take, mainVars, IndInv, TypeInv
<1>2. N \in Nat /\ b \in Nat /\ Boxes(inbox', Blocks)
  BY <1>1, BlocksFinite, BoxesKept DEF PostInv
<1>3. oneshot' \in {"none", "ok", "err"}
  <2>1. oneshot' = oneshot \/ oneshot' = "err"
    BY DEF BlockReceive
  <2> QED
    BY <2>1 DEF PostInv
<1>4. CASE Fail(b)
  <2>1. Addressed(<<SendToMain("BlockError", b)>>, N)
    BY <1>2, ReportAddressed
  <2> QED
    BY <1>1, <1>2, <1>3, <1>4, <2>1, PostsFrom DEF Fail
<1>5. PICK m : m = Message(b)
  OBVIOUS
<1>6. PICK h : h = IF m \in {"Call", "CallFinished", "Callback"}
                   THEN Handler(b, m = "CallFinished") ELSE Idle(k[b])
  OBVIOUS
<1>7. PICK n \in Nat : n = h.posts
  <2>1. PICK last \in BOOLEAN : last = (m = "CallFinished")
    OBVIOUS
  <2>2. Handler(b, last).posts \in Nat /\ Idle(k[b]).posts \in Nat
    BY PostsCounted
  <2>3. h = Handler(b, last) \/ h = Idle(k[b])
    BY <1>6, <2>1, Zenon
  <2>4. h.posts \in Nat
    BY <2>2, <2>3, Zenon
  <2> QED
    BY <2>4
<1>8. Fail(b) \/ outbox' = [outbox EXCEPT ![b] = Posts(b, h.posts, "Call") \o Answers(b, m)]
  BY <1>5, <1>6, Zenon DEF BlockReceive
<1>9. CASE outbox' = [outbox EXCEPT ![b] = Posts(b, h.posts, "Call") \o Answers(b, m)]
  <2>1. PICK s : s = Posts(b, n, "Call")
    OBVIOUS
  <2>2. PICK u : u = Answers(b, m)
    OBVIOUS
  <2>3. s \in Seq(Sends) /\ Addressed(s, N)
    BY <1>1, <2>1, PostsAway, PostsAddressed DEF BlockMsgs
  <2>4. u \in Seq(Sends) /\ Addressed(u, N)
    BY <1>1, <2>2, AnswersAddressed
  <2>5. Addressed(s \o u, N) /\ outbox' = [outbox EXCEPT ![b] = s \o u]
    BY <1>2, <1>7, <1>9, <2>1, <2>2, <2>3, <2>4, AddressedConcat
  <2> QED
    BY <1>1, <1>2, <1>3, <2>5, PostsFrom
<1> QED
  BY <1>4, <1>8, <1>9

\* BlockWork
LEMMA PostsOfWork ==
  ASSUME IndInv, PostInv, NEW b \in Blocks, BlockWork(b)
  PROVE  PostInv'
<1>1. UNCHANGED <<fg, mainout, oneshot>> /\ fg \in Flowgraphs
  BY DEF BlockWork, mainVars, IndInv, TypeInv
<1>2. N \in Nat /\ b \in Nat /\ Boxes(inbox, Blocks) /\ oneshot' \in {"none", "ok", "err"}
  BY <1>1, BlocksFinite DEF PostInv
<1>3. CASE failAt[b] = "work"
  <2>1. Addressed(<<SendToMain("BlockError", b)>>, N)
    BY <1>2, ReportAddressed
  <2>2. outbox' = [outbox EXCEPT ![b] = <<SendToMain("BlockError", b)>>] /\ inbox' = inbox
    BY <1>3 DEF BlockWork, Fail
  <2>3. Boxes(inbox', Blocks)
    BY <1>2, <2>2
  <2> QED
    BY <1>1, <1>2, <2>1, <2>2, <2>3, PostsFrom
<1>4. CASE failAt[b] # "work"
  <2>1. PICK r \in Outcomes(b) : /\ inbox' = Notified(b, r)
                                 /\ outbox' = [outbox EXCEPT ![b] = Posts(b, r.posts, "Call")]
    BY <1>4 DEF BlockWork
  <2>2. PICK n \in Nat : n = r.posts
    BY PostsCounted
  <2>3. Addressed(Posts(b, n, "Call"), N)
    BY <1>1, PostsAddressed DEF BlockMsgs
  <2>4. Boxes(Notified(b, r), Blocks)
    <3>1. ASSUME NEW x \in Blocks PROVE Notified(b, r)[x].queue \in Seq(BlockMsgs)
      <4>1. PICK ch : ch = inbox[x]
        OBVIOUS
      <4>2. ch.queue \in Seq(BlockMsgs)
        BY <1>2, <4>1 DEF Boxes
      <4>3. PICK v : v = <<"notify", b>>
        OBVIOUS
      <4>4. PICK p : p = Push(ch, v, "Notify", QueueSize)
        OBVIOUS
      <4>5. p.queue = Append(ch.queue, "Notify")
        BY <4>4 DEF Push
      <4>6. p.queue \in Seq(BlockMsgs)
        BY <4>2, <4>5, AppendProperties DEF BlockMsgs
      <4>7. Notified(b, r)[x] = ch \/ Notified(b, r)[x] = p
        BY <4>1, <4>3, <4>4 DEF Notified, TrySend
      <4> QED
        BY <4>2, <4>6, <4>7
    <3>2. DOMAIN Notified(b, r) = Blocks
      BY DEF Notified
    <3> QED
      BY <3>1, <3>2 DEF Boxes
  <2>5. Boxes(inbox', Blocks)
    BY <2>1, <2>4
  <2>6. PICK s : s = Posts(b, n, "Call")
    OBVIOUS
  <2>7. outbox' = [outbox EXCEPT ![b] = s]
    BY <2>1, <2>2, <2>6
  <2> QED
    BY <1>1, <1>2, <2>3, <2>5, <2>6, <2>7, PostsFrom
<1> QED
  BY <1>3, <1>4

\* BlockSend: a message goes to the block it is for, and an answer is "ok" or
\* "err".
LEMMA PostsOfSend ==
  ASSUME IndInv, PostInv, NEW b \in Blocks, BlockSend(b)
  PROVE  PostInv'
<1>1. UNCHANGED <<fg, mainout>> /\ fg \in Flowgraphs /\ outbox[b] # <<>>
  BY DEF BlockSend, mainVars, IndInv, TypeInv
<1>2. N \in Nat /\ 0 # N + 1 /\ Main = 0 /\ Main \notin Blocks /\ N + 1 \notin Blocks
  BY <1>1, BlocksFinite DEF Main, Blocks
<1>3. outbox[b] \in Seq(Sends) /\ Addressed(outbox[b], N)
  BY DEF IndInv, TypeInv, PostInv
<1>4. PICK e : e = Head(outbox[b])
  OBVIOUS
<1>5. Addressed(Tail(outbox[b]), N) /\ Addressed(Marked(outbox[b]), N) /\ Destined(e, N)
  BY <1>1, <1>2, <1>3, <1>4, AddressedMoves
<1>6. oneshot' \in {"none", "ok", "err"}
  <2>1. oneshot' = oneshot \/ (e.to = N + 1 /\ oneshot' = e.msg)
    BY <1>4, Zenon DEF BlockSend
  <2>2. e.to = N + 1 => e.msg \in {"ok", "err"}
    BY <1>2, <1>5 DEF Destined, Blocks
  <2> QED
    BY <2>1, <2>2 DEF PostInv
<1>7. Boxes(inbox', Blocks)
  <2>1. \/ UNCHANGED inbox
        \/ /\ e.to \in Blocks
           /\ inbox' = [inbox EXCEPT ![e.to] = Push(inbox[e.to], e.via, e.msg, QueueSize)]
    <3>1. CASE e.to = Main
      BY <1>2, <1>4, <3>1, Zenon DEF BlockSend
    <3>2. CASE e.to # Main
      BY <1>4, <3>2, Zenon DEF BlockSend
    <3> QED
      BY <3>1, <3>2
  <2>2. CASE UNCHANGED inbox
    BY <2>2, Zenon DEF PostInv
  <2>3. CASE /\ e.to \in Blocks
             /\ inbox' = [inbox EXCEPT ![e.to] = Push(inbox[e.to], e.via, e.msg, QueueSize)]
    <3>1. e.msg \in BlockMsgs
      BY <1>2, <1>5, <2>3 DEF Destined
    <3>2. PICK q : q = QueueSize
      OBVIOUS
    <3> QED
      BY <2>3, <3>1, <3>2, BoxesKept, Zenon DEF PostInv
  <2> QED
    BY <2>1, <2>2, <2>3
<1>8. ASSUME NEW s, Addressed(s, N), outbox' = [outbox EXCEPT ![b] = s] PROVE PostInv'
  BY <1>1, <1>6, <1>7, <1>8, PostsFrom
<1>9. Addressed(<<SendToMain("BlockError", b)>>, N)
  BY <1>2, ReportAddressed
<1>10. \/ outbox' = [outbox EXCEPT ![b] = Tail(outbox[b])]
       \/ outbox' = [outbox EXCEPT ![b] = Marked(outbox[b])]
       \/ outbox' = [outbox EXCEPT ![b] = <<SendToMain("BlockError", b)>>]
  <2> DEFINE Becomes(s) == outbox' = [outbox EXCEPT ![b] = s]
  <2>1. \/ Becomes(Tail(outbox[b])) \/ Becomes(<<SendToMain("BlockError", b)>>)
        \/ Becomes(IF IsParked(mainbox', e.via) THEN Marked(outbox[b]) ELSE Tail(outbox[b]))
        \/ Becomes(IF IsParked(inbox'[e.to], e.via) THEN Marked(outbox[b]) ELSE Tail(outbox[b]))
    BY <1>4, Zenon DEF BlockSend, Fail, Marked
  <2>2. CASE IsParked(mainbox', e.via) /\ IsParked(inbox'[e.to], e.via)
    BY <2>1, <2>2, Zenon
  <2>3. CASE IsParked(mainbox', e.via) /\ ~IsParked(inbox'[e.to], e.via)
    BY <2>1, <2>3, Zenon
  <2>4. CASE ~IsParked(mainbox', e.via) /\ IsParked(inbox'[e.to], e.via)
    BY <2>1, <2>4, Zenon
  <2>5. CASE ~IsParked(mainbox', e.via) /\ ~IsParked(inbox'[e.to], e.via)
    BY <2>1, <2>5, Zenon
  <2> QED
    BY <2>2, <2>3, <2>4, <2>5, Zenon
<1> QED
  BY <1>5, <1>8, <1>9, <1>10

\* What run_flowgraph sends.
LEMMA OrdersDispatched ==
  /\ \A msg \in BlockMsgs : fg \in Flowgraphs => Dispatched(ToAll(msg))
  /\ \A x : \A msg \in BlockMsgs : Dispatched(<<Send(x, FromMain, msg)>>)
  /\ \A msg : Dispatched(<<Send(Main, FromMain, msg)>>)
  /\ Dispatched(<<>>)
<1>1. ASSUME NEW msg \in BlockMsgs, fg \in Flowgraphs PROVE Dispatched(ToAll(msg))
  <2>1. PICK s : s = ToAll(msg)
    OBVIOUS
  <2>2. s \in Seq(Sends) /\ N \in Nat
    BY <1>1, <2>1, ToAllAway, BlocksFinite
  <2>3. DOMAIN s = 1..N /\ \A i \in 1..N : s[i].msg = msg
    BY <2>1 DEF ToAll, Send
  <2>4. Len(s) = N
    BY <2>2, <2>3, LenProperties, SMT
  <2> QED
    BY <2>1, <2>3, <2>4 DEF Dispatched
<1>2. ASSUME NEW e, e.to # Main => e.msg \in BlockMsgs PROVE Dispatched(<<e>>)
  <2>1. Len(<<e>>) = 1 /\ <<e>>[1] = e /\ \A i : i \in 1..1 <=> i = 1
    BY SMT
  <2> QED
    BY <1>2, <2>1 DEF Dispatched
<1>3. ASSUME NEW x, NEW msg \in BlockMsgs PROVE Dispatched(<<Send(x, FromMain, msg)>>)
  <2>1. Send(x, FromMain, msg).msg = msg
    BY DEF Send
  <2> QED
    BY <1>2, <2>1
<1>4. ASSUME NEW msg PROVE Dispatched(<<Send(Main, FromMain, msg)>>)
  <2>1. Send(Main, FromMain, msg).to = Main
    BY DEF Send
  <2> QED
    BY <1>2, <2>1
<1>5. Dispatched(<<>>)
  <2>1. 0 \in Nat
    OBVIOUS
  <2> QED
    BY <2>1, AddressedConcat
<1> QED
  BY <1>1, <1>3, <1>4, <1>5

\* run_flowgraph
LEMMA PostsOfMain ==
  ASSUME IndInv, PostInv, MainNext
  PROVE  PostInv'
<1>1. UNCHANGED <<fg, outbox>> /\ fg \in Flowgraphs
  <2>1. UNCHANGED blockVars
    BY DEF MainNext, MainSend, MainInitSent, MainWaitInit, MainNotifyAll, MainRequeue,
           MainStarted, MainReturn, MainLoop, MainAnswer
  <2> QED
    BY <2>1 DEF blockVars, IndInv, TypeInv
<1>2. Dispatched(mainout) /\ Boxes(inbox, Blocks) /\ oneshot \in {"none", "ok", "err"}
  BY DEF PostInv
<1>3. CASE MainSend
  <2>1. UNCHANGED oneshot /\ mainout # <<>> /\ mainout \in Seq(Sends)
    BY <1>3 DEF MainSend, IndInv, TypeInv
  <2>2. PICK e : e = Head(mainout)
    OBVIOUS
  <2>3. /\ Dispatched(Tail(mainout)) /\ Dispatched(Marked(mainout))
        /\ e.to # Main => e.msg \in BlockMsgs
    <3>1. 0 \in Nat
      OBVIOUS
    <3> QED
      BY <1>2, <2>1, <2>2, <3>1, AddressedMoves
  <2>4. \/ mainout' = Tail(mainout)
        \/ mainout' = IF IsParked(mainbox', e.via) THEN Marked(mainout) ELSE Tail(mainout)
        \/ mainout' = IF IsParked(inbox'[e.to], e.via) THEN Marked(mainout) ELSE Tail(mainout)
    BY <1>3, <2>2, Zenon DEF MainSend, Marked
  <2>5. Dispatched(mainout')
    BY <2>3, <2>4
  <2>6. \/ UNCHANGED inbox
        \/ /\ e.to # Main
           /\ inbox' = [inbox EXCEPT ![e.to] = Push(inbox[e.to], e.via, e.msg, QueueSize)]
    <3>1. CASE e.to = Main
      BY <1>3, <2>2, <3>1, Zenon DEF MainSend
    <3>2. CASE e.to # Main
      BY <1>3, <2>2, <3>2, Zenon DEF MainSend
    <3> QED
      BY <3>1, <3>2
  <2>7. Boxes(inbox', Blocks)
    <3>1. CASE UNCHANGED inbox
      BY <1>2, <3>1, Zenon
    <3>2. CASE /\ e.to # Main
               /\ inbox' = [inbox EXCEPT ![e.to] = Push(inbox[e.to], e.via, e.msg, QueueSize)]
      BY <1>2, <2>3, <3>2, BoxesKept, Zenon
    <3> QED
      BY <2>6, <3>1, <3>2
  <2> QED
    BY <1>1, <1>2, <2>1, <2>5, <2>7, PostsKept
<1>4. CASE ~MainSend
  <2>1. UNCHANGED inbox /\ (oneshot' = oneshot \/ oneshot' = "none")
    BY <1>4 DEF MainNext, MainInitSent, MainWaitInit, MainNotifyAll, MainRequeue, MainStarted,
                MainReturn, MainLoop, MainAnswer
  <2>2. Dispatched(mainout')
    <3>1. \/ mainout' = mainout \/ mainout' = <<>>
          \/ mainout' = ToAll("Notify") \/ mainout' = ToAll("Terminate")
          \/ mainout' = <<Send(Main, FromMain, ToMain("Terminate", 0))>>
          \/ \E x : \E msg \in BlockMsgs : mainout' = <<Send(x, FromMain, msg)>>
      <4>1. CASE MainInitSent \/ MainWaitInit \/ MainRequeue \/ MainStarted \/ MainReturn
        BY <4>1 DEF MainInitSent, MainWaitInit, MainRequeue, MainStarted, MainReturn
      <4>2. CASE MainNotifyAll
        BY <4>2 DEF MainNotifyAll
      <4>3. CASE MainLoop
        <5>1. PICK msg : msg = CASE MainMessage.type = "BlockCall" -> "Call"
                                 [] MainMessage.type = "BlockCallback" -> "Callback"
                                 [] OTHER -> "BlockDescription"
          OBVIOUS
        <5>2. msg \in BlockMsgs /\ "BlockDescription" \in BlockMsgs
          BY <5>1 DEF BlockMsgs
        <5>3. \/ mainout' = mainout
              \/ mainout' = <<Send(MainMessage.block, FromMain, msg)>>
              \/ mainout' = <<Send(1, FromMain, "BlockDescription")>>
              \/ mainout' = <<Send(Main, FromMain, ToMain("Terminate", 0))>>
              \/ mainout' = IF terminated THEN <<>> ELSE ToAll("Terminate")
          BY <4>3, <5>1, Zenon DEF MainLoop
        <5> QED
          BY <5>2, <5>3
      <4>4. CASE MainAnswer
        <5>1. "BlockDescription" \in BlockMsgs
          BY DEF BlockMsgs
        <5>2. mainout' = mainout \/ mainout' = <<Send(Head(job.rest), FromMain, "BlockDescription")>>
          BY <4>4 DEF MainAnswer
        <5> QED
          BY <5>1, <5>2
      <4> QED
        BY <1>4, <4>1, <4>2, <4>3, <4>4 DEF MainNext
    <3>2. "Notify" \in BlockMsgs /\ "Terminate" \in BlockMsgs
      BY DEF BlockMsgs
    <3> QED
      BY <1>1, <1>2, <3>1, <3>2, OrdersDispatched
  <2>3. Boxes(inbox', Blocks) /\ oneshot' \in {"none", "ok", "err"}
    BY <1>2, <2>1
  <2> QED
    BY <1>1, <2>2, <2>3, PostsKept
<1> QED
  BY <1>3, <1>4

\* Every step.
LEMMA PostStep ==
  ASSUME IndInv, PostInv, [Next]_vars
  PROVE  PostInv'
<1>1. ASSUME NEW b \in Blocks, BlockNext(b) PROVE PostInv'
  BY <1>1, PostsOfTask, PostsOfHandler, PostsOfWork, PostsOfSend DEF BlockNext
<1>2. CASE UNCHANGED <<inbox, oneshot, fg, outbox, mainout>>
  <2>1. Dispatched(mainout') /\ Boxes(inbox', Blocks) /\ oneshot' \in {"none", "ok", "err"}
    BY <1>2, Zenon DEF PostInv
  <2> QED
    BY <1>2, <2>1, PostsKept
<1>3. ASSUME NEW c \in Clients, ClientNext(c) PROVE PostInv'
  <2>1. UNCHANGED <<inbox, oneshot, blockVars, mainVars>>
    BY <1>3 DEF ClientNext, ClientAsk, ClientFlushed
  <2> QED
    BY <1>2, <2>1 DEF blockVars, mainVars
<1>4. CASE Quiet \/ UNCHANGED vars
  BY <1>2, <1>4 DEF Quiet, vars, blockVars, mainVars
<1> QED
  BY <1>1, <1>3, <1>4, PostsOfMain DEF Next

-----------------------------------------------------------------------------
(* The counters, and the whole                                             *)

\* Every step: no counter underflows.
LEMMA LedgerStep ==
  ASSUME IndInv, IndInv', PostInv, LedgerInv, [Next]_vars
  PROVE  LedgerInv'
<1>1. UNCHANGED fg /\ fg \in Flowgraphs
  <2>1. UNCHANGED fg
    BY DEF Next, vars, Quiet, BlockNext, BlockStart, BlockSetup, BlockReceive, BlockDrained,
           BlockTimer, BlockWork, BlockDeinit, BlockSend, MainNext, MainSend, MainInitSent,
           MainWaitInit, MainNotifyAll, MainRequeue, MainStarted, MainReturn, MainLoop,
           MainAnswer, ClientNext, ClientAsk, ClientFlushed, blockVars
  <2> QED
    BY <2>1 DEF IndInv, TypeInv
<1>2. N' = N /\ Blocks' = Blocks /\ N \in Nat
  BY <1>1, BlocksFinite DEF N, Blocks, Kind
<1>3. CASE UNCHANGED <<mainVars, reply>>
  BY <1>2, <1>3 DEF LedgerInv, mainVars
<1>4. ASSUME NEW b \in Blocks, BlockNext(b) PROVE LedgerInv'
  BY <1>3, <1>4 DEF BlockNext, BlockStart, BlockSetup, BlockReceive, BlockDrained, BlockTimer,
                    BlockWork, BlockDeinit, BlockSend, clientVars
<1>5. CASE MainNext
  <2>1. mpc' \in Mpcs /\ (mpc' \in Aborted => active' = active)
    <3>1. CASE MainWaitInit \/ MainLoop
      BY <3>1 DEF MainWaitInit, MainLoop, MainAt, LedgerInv, Mpcs, Aborted
    <3>2. CASE ~(MainWaitInit \/ MainLoop)
      BY <1>5, <3>2 DEF MainNext, MainSend, MainInitSent, MainNotifyAll, MainRequeue, MainStarted,
                        MainReturn, MainAnswer, MainTrySend, LedgerInv, Mpcs
    <3> QED
      BY <3>1, <3>2
  <2>2. initLeft' \in 0..N
    <3>1. initLeft' = initLeft \/ (initLeft > 0 /\ initLeft' = initLeft - 1)
      BY <1>5 DEF MainNext, MainSend, MainInitSent, MainWaitInit, MainNotifyAll, MainRequeue,
                  MainStarted, MainReturn, MainLoop, MainAnswer
    <3>2. initLeft \in 0..N
      BY DEF LedgerInv
    <3> QED
      BY <1>2, <3>1, <3>2, SMT
  <2>3. active' \in 0..N
    <3>1. CASE mpc' \in Aborted
      BY <2>1, <3>1 DEF LedgerInv
    <3>2. CASE mpc' \notin Aborted
      <4>1. active' = Cardinality(Rest')
        BY <3>2 DEF IndInv, CountInv
      <4>2. PICK R : R = Rest'
        OBVIOUS
      <4>3. R \in SUBSET Blocks
        BY <1>2, <4>2 DEF Rest
      <4> QED
        BY <1>1, <4>1, <4>2, <4>3, BlocksFinite
    <3> QED
      BY <3>1, <3>2
  <2>4. reply' \in [Clients -> Replies]
    <3>1. reply \in [Clients -> Replies] /\ oneshot \in Replies
      BY DEF LedgerInv, PostInv, Replies
    <3>2. CASE reply' = reply
      BY <3>1, <3>2
    <3>3. ASSUME NEW c, NEW r \in Replies, reply' = [reply EXCEPT ![c] = r]
          PROVE  reply' \in [Clients -> Replies]
      BY <3>1, <3>3
    <3>4. CASE reply' = [c \in Clients |-> IF cpc[c] = "waiting" THEN "closed" ELSE reply[c]]
      BY <3>1, <3>4 DEF Replies
    <3>5. \/ reply' = reply
          \/ reply' = [c \in Clients |-> IF cpc[c] = "waiting" THEN "closed" ELSE reply[c]]
          \/ \E c : \E r \in Replies : reply' = [reply EXCEPT ![c] = r]
      <4>1. "ok" \in Replies /\ "invalidBlock" \in Replies
        BY DEF Replies
      <4>2. CASE MainReturn
        BY <4>2 DEF MainReturn
      <4>3. CASE MainLoop
        <5>1. reply' = reply \/ reply' = [reply EXCEPT ![MainMessage.client] = "invalidBlock"]
          BY <4>3, Zenon DEF MainLoop, Reply
        <5> QED
          BY <4>1, <5>1
      <4>4. CASE MainAnswer
        <5>1. \/ reply' = reply \/ reply' = [reply EXCEPT ![job.client] = "ok"]
              \/ reply' = [reply EXCEPT ![job.client] = oneshot]
          BY <4>4, Zenon DEF MainAnswer, Reply
        <5> QED
          BY <3>1, <4>1, <5>1
      <4>5. CASE ~(MainReturn \/ MainLoop \/ MainAnswer)
        BY <1>5, <4>5 DEF MainNext, MainSend, MainInitSent, MainWaitInit, MainNotifyAll,
                          MainRequeue, MainStarted, clientVars
      <4> QED
        BY <4>2, <4>3, <4>4, <4>5
    <3> QED
      BY <3>2, <3>3, <3>4, <3>5
  <2> QED
    BY <1>2, <2>1, <2>2, <2>3, <2>4 DEF LedgerInv
<1>6. ASSUME NEW c \in Clients, ClientNext(c) PROVE LedgerInv'
  <2>1. UNCHANGED mainVars
    BY <1>6 DEF ClientNext, ClientAsk, ClientFlushed
  <2>2. reply' \in [Clients -> Replies]
    <3>1. \E x : reply' = [reply EXCEPT ![c] = x] /\ x \in {"closed", "ok", "none", reply[c]}
      BY <1>6 DEF ClientNext, ClientAsk, ClientFlushed
    <3> QED
      BY <3>1 DEF LedgerInv, Replies
  <2> QED
    BY <1>2, <2>1, <2>2 DEF LedgerInv, mainVars
<1>7. CASE Quiet \/ UNCHANGED vars
  BY <1>3, <1>7 DEF Quiet, vars, clientVars
<1> QED
  BY <1>4, <1>5, <1>6, <1>7 DEF Next

\* The initial states.
LEMMA InitTypes == Init => TypesInv
<1> SUFFICES ASSUME Init PROVE TypesInv
  OBVIOUS
<1>1. fg \in Flowgraphs /\ N \in Nat /\ StreamCap \in Nat /\ Items \in Nat
  BY BlocksFinite, RuntimeAssumption, KernelsAssumption DEF Init
<1>2. KernelInv
  <2>1. FreshIo \in Ios
    BY DEF FreshIo, Ios
  <2> QED
    BY <1>1, <2>1 DEF Init, KernelInv
<1>3. PostInv
  <2>1. Addressed(<<>>, N)
    BY <1>1, AddressedConcat
  <2>2. \A b \in Blocks : Addressed(outbox[b], N)
    BY <2>1 DEF Init
  <2>3. Dispatched(mainout)
    <3>1. "Initialize" \in BlockMsgs
      BY DEF BlockMsgs
    <3> QED
      BY <1>1, <3>1, OrdersDispatched DEF Init
  <2>4. Boxes(inbox, Blocks)
    <3>1. EmptyChannel.queue \in Seq(BlockMsgs)
      BY DEF EmptyChannel
    <3> QED
      BY <3>1 DEF Init, Boxes
  <2> QED
    BY <2>2, <2>3, <2>4 DEF Init, PostInv
<1>4. LedgerInv
  BY <1>1 DEF Init, LedgerInv, Mpcs, Replies
<1> QED
  BY <1>2, <1>3, <1>4 DEF TypesInv

\* The types hold in every run, those of the auxiliary facts included (runtime.rs,
\* run_flowgraph; block.rs, run_impl).
THEOREM Typed == Spec => []TypesInv
<1>1. Init => TypesInv
  BY InitTypes
<1>2. IndInv /\ IndInv' /\ TypesInv /\ [Next]_vars => TypesInv'
  BY KernelStep, PostStep, LedgerStep DEF TypesInv
<1> QED
  BY <1>1, <1>2, Inductive, PTL DEF Spec

\* The types hold in every run: the stream buffers (circular.rs) never hold more
\* than fits, whatever the blocks around them do, the counters of run_flowgraph
\* (runtime.rs) never underflow, and no inbox gets a message of another kind.
THEOREM TypeOKHolds == Spec => []TypeOK
<1>1. IndInv /\ TypesInv => TypeOK
  <2> SUFFICES ASSUME IndInv, TypesInv PROVE TypeOK
    OBVIOUS
  <2>1. \A b \in Blocks : \A i \in DOMAIN inbox[b].queue : inbox[b].queue[i] \in BlockMsgs
    <3> SUFFICES ASSUME NEW b \in Blocks
                 PROVE  \A i \in DOMAIN inbox[b].queue : inbox[b].queue[i] \in BlockMsgs
      OBVIOUS
    <3>1. PICK q : q = inbox[b].queue
      OBVIOUS
    <3>2. q \in Seq(BlockMsgs)
      BY <3>1 DEF TypesInv, PostInv, Boxes
    <3>3. \A i \in DOMAIN q : q[i] \in BlockMsgs
      BY <3>2, ElementOfSeq, LenProperties
    <3> QED
      BY <3>1, <3>3
  <2>2. pc \in [Blocks -> Pcs]
    BY DEF IndInv, TypeInv
  <2> QED
    BY <2>1, <2>2 DEF TypesInv, KernelInv, PostInv, Boxes, LedgerInv, TypeOK, BlockMsgs, Pcs, Ios,
                      Mpcs, Replies
<1> QED
  BY <1>1, Inductive, Typed, PTL
=============================================================================
