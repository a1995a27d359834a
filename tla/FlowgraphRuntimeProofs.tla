----------------------- MODULE FlowgraphRuntimeProofs -----------------------
(***************************************************************************)
(* run_flowgraph() counts the ends of the blocks exactly and reports their *)
(* errors honestly, for every flowgraph, every size of the inboxes and     *)
(* every number of users of the handle.                                    *)
(*                                                                         *)
(* The end of a block is a token: it is made when run() ends, and is then  *)
(* at one place only, the block's outbox, the inbox of run_flowgraph or    *)
(* its queue of deferred messages, until it is counted.                    *)
(***************************************************************************)
EXTENDS FlowgraphRuntime, FiniteSetTheorems, SequenceTheorems, TLAPS

EndTypes == {"BlockDone", "BlockError"}
EndType(f) == IF f THEN "BlockError" ELSE "BlockDone"

MainMsgs == [type : EndTypes \cup {"Initialized"} \cup RequestTypes, block : Nat,
             client : Clients \cup {0}]
Vias == {"block", "main", "msg", "indone", "outdone", "oneshot"} \X Nat
BlockMsgs == {"Initialize", "Notify", "Call", "CallFinished", "Callback", "BlockDescription",
              "StreamInputDone", "StreamOutputDone", "Terminate"}
Letters == [to : Nat \ {0}, via : Vias, msg : BlockMsgs \cup {"ok", "err"}, pushed : BOOLEAN]
Sends == Letters \cup [to : {0}, via : Vias, msg : MainMsgs, pushed : BOOLEAN]
Jobs == [type : RequestTypes \cup {"none"}, client : Clients \cup {0}, rest : Seq(Nat \ {0})]
Pcs == {"start", "setup", "loop", "work", "shutdown", "done"}
Aborted == {"aborted", "abortedInit"}

\* m is the end of block b; the queue q holds it; it does so at one place only,
\* and with the type that says whether the block has failed.
IsEnd(m, b) == m.type \in EndTypes /\ m.block = b
Ended(q, b) == \E i \in 1..Len(q) : IsEnd(q[i], b)
Once(q, b) == \A i, j \in 1..Len(q) : IsEnd(q[i], b) /\ IsEnd(q[j], b) => i = j
Honest(q, b, f) == \A i \in 1..Len(q) : IsEnd(q[i], b) => q[i].type = EndType(f)

\* What run_flowgraph sends to itself.
Orders(s) == \A i \in 1..Len(s) : s[i].to = Main => s[i].msg = ToMain("Terminate", 0)

\* What a block that runs sends to run_flowgraph, and the last thing it sends.
NoLastWord(s) == \A i \in 1..Len(s) : s[i].to = Main => s[i].msg.type = "Initialized"
LastWord(s, b, f) ==
    /\ Len(s) <= 1
    /\ \A i \in 1..Len(s) : s[i].to = Main /\ s[i].msg = ToMain(EndType(f), b)
Unsent(s) == \E i \in 1..Len(s) : ~s[i].pushed

\* Where the token of block b is, if its task is at p with the outbox s and has
\* failed or not (f), and if run_flowgraph has the queues q and d.
Token(p, f, s, q, d, b) ==
    /\ Once(q, b) /\ Honest(q, b, f) /\ Once(d, b) /\ Honest(d, b, f)
    /\ ~(Ended(q, b) /\ Ended(d, b))
    /\ p # "done" => ~f /\ NoLastWord(s) /\ ~Ended(q, b) /\ ~Ended(d, b)
    /\ p = "done" => LastWord(s, b, f) /\ (Unsent(s) => ~Ended(q, b) /\ ~Ended(d, b))

\* The token has not been counted.
Open(p, s, q, d, b) == p # "done" \/ Unsent(s) \/ Ended(q, b) \/ Ended(d, b)

\* The ends in q are ends of blocks in B.
Known(q, B) == \A i \in 1..Len(q) : q[i].type \in EndTypes => q[i].block \in B

\* The stream ports of block b are connected.
Linked(g, b) ==
    /\ g.kind[b] \in {"copy", "head", "sink"} => \E u \in 1..Len(g.kind) : g.down[u] = b
    /\ g.kind[b] \in {"source", "null_source", "copy", "head"} => g.down[b] # 0

TypeInv ==
    /\ fg \in Flowgraphs
    /\ \A b \in Blocks : pc[b] \notin {"start", "done"} => Linked(fg, b)
    /\ pc \in [Blocks -> Pcs] /\ failed \in [Blocks -> BOOLEAN]
    /\ outbox \in [Blocks -> Seq(Sends)]
    /\ mainbox.queue \in Seq(MainMsgs) /\ deferred \in Seq(MainMsgs)
    /\ Known(mainbox.queue, Blocks) /\ Known(deferred, Blocks)
    /\ mainout \in Seq(Sends) /\ Orders(mainout)
    /\ job \in Jobs
    /\ blockError \in BOOLEAN

TokenInv ==
    \A b \in Blocks : Token(pc[b], failed[b], outbox[b], mainbox.queue, deferred, b)

\* The blocks still to be counted.
Rest == {b \in Blocks : Open(pc[b], outbox[b], mainbox.queue, deferred, b)}

CountInv ==
    mpc \notin Aborted =>
        /\ active = Cardinality(Rest)
        /\ blockError <=> \E b \in Blocks \ Rest : failed[b]

ReturnInv ==
    mpc \in {"retOk", "retErr"} => Rest = {} /\ (mpc = "retErr" <=> blockError)

IndInv == TypeInv /\ TokenInv /\ CountInv /\ ReturnInv

-----------------------------------------------------------------------------
(* Tokens in queues                                                        *)

\* A message behind the others.
LEMMA EndedAppend ==
  ASSUME NEW q \in Seq(MainMsgs), NEW m \in MainMsgs, NEW b
  PROVE  /\ Ended(Append(q, m), b) <=> Ended(q, b) \/ IsEnd(m, b)
         /\ Once(q, b) /\ (IsEnd(m, b) => ~Ended(q, b)) => Once(Append(q, m), b)
         /\ \A f : Honest(q, b, f) /\ (IsEnd(m, b) => m.type = EndType(f))
                     => Honest(Append(q, m), b, f)
<1> DEFINE t == Append(q, m)
<1>1. /\ Len(q) \in Nat /\ Len(t) = Len(q) + 1
      /\ \A i \in 1..Len(q) : t[i] = q[i]
      /\ t[Len(q) + 1] = m
  BY AppendProperties, LenProperties
<1>2. \A i : i \in 1..Len(t) <=> i \in 1..Len(q) \/ i = Len(q) + 1
  BY <1>1, SMT
<1> HIDE DEF t
<1>3. Ended(t, b) <=> Ended(q, b) \/ IsEnd(m, b)
  BY <1>1, <1>2 DEF Ended
<1>4. ASSUME Once(q, b), IsEnd(m, b) => ~Ended(q, b) PROVE Once(t, b)
  <2> SUFFICES ASSUME NEW i \in 1..Len(t), NEW j \in 1..Len(t), IsEnd(t[i], b), IsEnd(t[j], b)
               PROVE  i = j
    BY DEF Once
  <2>1. CASE i \in 1..Len(q) /\ j \in 1..Len(q)
    BY <1>1, <1>4, <2>1 DEF Once
  <2>2. CASE i = Len(q) + 1 /\ j \in 1..Len(q)
    BY <1>1, <1>4, <2>2 DEF Ended
  <2>3. CASE i \in 1..Len(q) /\ j = Len(q) + 1
    BY <1>1, <1>4, <2>3 DEF Ended
  <2>4. CASE i = Len(q) + 1 /\ j = Len(q) + 1
    BY <2>4
  <2> QED
    BY <1>2, <2>1, <2>2, <2>3, <2>4
<1>5. ASSUME NEW f, Honest(q, b, f), IsEnd(m, b) => m.type = EndType(f)
      PROVE  Honest(t, b, f)
  BY <1>1, <1>2, <1>5 DEF Honest
<1> QED
  BY <1>3, <1>4, <1>5 DEF t

\* The first message is taken.
LEMMA EndedTail ==
  ASSUME NEW q \in Seq(MainMsgs), q # <<>>, NEW b
  PROVE  /\ Head(q) \in MainMsgs /\ Tail(q) \in Seq(MainMsgs)
         /\ Ended(q, b) <=> IsEnd(Head(q), b) \/ Ended(Tail(q), b)
         /\ Once(q, b) => Once(Tail(q), b) /\ ~(IsEnd(Head(q), b) /\ Ended(Tail(q), b))
         /\ \A f : Honest(q, b, f) =>
                     Honest(Tail(q), b, f) /\ (IsEnd(Head(q), b) => Head(q).type = EndType(f))
<1> DEFINE t == Tail(q)
<1>1. /\ Len(q) \in Nat \ {0} /\ Len(t) = Len(q) - 1 /\ t \in Seq(MainMsgs)
      /\ Head(q) = q[1] /\ Head(q) \in MainMsgs
      /\ \A i \in 1..Len(t) : t[i] = q[i + 1]
  BY HeadTailProperties, LenProperties
<1>2. /\ \A i \in 1..Len(t) : i + 1 \in 1..Len(q) /\ i + 1 # 1
      /\ \A i \in 1..Len(q) : i = 1 \/ (i - 1 \in 1..Len(t) /\ (i - 1) + 1 = i)
      /\ \A i, j \in 1..Len(t) : i + 1 = j + 1 => i = j
      /\ 1 \in 1..Len(q)
  BY <1>1, SMT
<1> HIDE DEF t
<1>3. Ended(q, b) <=> IsEnd(Head(q), b) \/ Ended(t, b)
  <2>1. ASSUME Ended(t, b) PROVE Ended(q, b)
    BY <1>1, <1>2, <2>1 DEF Ended
  <2>2. ASSUME IsEnd(Head(q), b) PROVE Ended(q, b)
    BY <1>1, <1>2, <2>2 DEF Ended
  <2>3. ASSUME Ended(q, b), ~IsEnd(Head(q), b) PROVE Ended(t, b)
    <3>1. PICK i \in 1..Len(q) : IsEnd(q[i], b)
      BY <2>3 DEF Ended
    <3>2. i # 1
      BY <1>1, <2>3, <3>1
    <3>3. i - 1 \in 1..Len(t) /\ t[i - 1] = q[i]
      BY <1>1, <1>2, <3>2
    <3> QED
      BY <3>1, <3>3 DEF Ended
  <2> QED
    BY <2>1, <2>2, <2>3
<1>4. ASSUME Once(q, b) PROVE Once(t, b) /\ ~(IsEnd(Head(q), b) /\ Ended(t, b))
  <2>1. ASSUME NEW i \in 1..Len(t), NEW j \in 1..Len(t), IsEnd(t[i], b), IsEnd(t[j], b)
        PROVE  i = j
    <3>1. i + 1 = j + 1
      BY <1>1, <1>2, <1>4, <2>1 DEF Once
    <3> QED
      BY <1>2, <3>1
  <2>2. ASSUME IsEnd(Head(q), b), NEW i \in 1..Len(t), IsEnd(t[i], b) PROVE FALSE
    BY <1>1, <1>2, <1>4, <2>2 DEF Once
  <2> QED
    BY <2>1, <2>2 DEF Once, Ended
<1>5. ASSUME NEW f, Honest(q, b, f)
      PROVE  Honest(t, b, f) /\ (IsEnd(Head(q), b) => Head(q).type = EndType(f))
  BY <1>1, <1>2, <1>5 DEF Honest
<1> QED
  BY <1>1, <1>3, <1>4, <1>5 DEF t

\* The two queues are alike.
LEMMA TokenSwap ==
  ASSUME NEW p, NEW f, NEW s, NEW q, NEW d, NEW b
  PROVE  /\ Token(p, f, s, q, d, b) <=> Token(p, f, s, d, q, b)
         /\ Open(p, s, q, d, b) <=> Open(p, s, d, q, b)
BY DEF Token, Open

\* A message that is not the block's end changes nothing for the block.
LEMMA TokenOther ==
  ASSUME NEW p, NEW f, NEW s, NEW q \in Seq(MainMsgs), NEW d, NEW b,
         NEW m \in MainMsgs, ~IsEnd(m, b)
  PROVE  /\ Token(p, f, s, q, d, b) => Token(p, f, s, Append(q, m), d, b)
         /\ Open(p, s, Append(q, m), d, b) <=> Open(p, s, q, d, b)
BY EndedAppend DEF Token, Open

\* A message that is taken from one queue and put into the other: the token is
\* where the message is.
LEMMA TokenMoved ==
  ASSUME NEW p, NEW f, NEW s, NEW q \in Seq(MainMsgs), NEW d \in Seq(MainMsgs), NEW b,
         q # <<>>, Token(p, f, s, q, d, b)
  PROVE  /\ Token(p, f, s, Tail(q), Append(d, Head(q)), b)
         /\ Open(p, s, Tail(q), Append(d, Head(q)), b) <=> Open(p, s, q, d, b)
<1>1. Head(q) \in MainMsgs /\ Tail(q) \in Seq(MainMsgs)
  BY EndedTail
<1> DEFINE m == Head(q)
           t == Tail(q)
           e == Append(d, m)
<1>2. /\ Ended(q, b) <=> IsEnd(m, b) \/ Ended(t, b)
      /\ Once(t, b) /\ ~(IsEnd(m, b) /\ Ended(t, b))
      /\ Honest(t, b, f) /\ (IsEnd(m, b) => m.type = EndType(f))
  BY EndedTail DEF Token
<1>3. /\ Ended(e, b) <=> Ended(d, b) \/ IsEnd(m, b)
      /\ Once(d, b) /\ (IsEnd(m, b) => ~Ended(d, b)) => Once(e, b)
      /\ Honest(d, b, f) /\ (IsEnd(m, b) => m.type = EndType(f)) => Honest(e, b, f)
  BY <1>1, EndedAppend
<1> HIDE DEF m, t, e
<1>4. Token(p, f, s, t, e, b) /\ (Open(p, s, t, e, b) <=> Open(p, s, q, d, b))
  BY <1>2, <1>3 DEF Token, Open
<1> QED
  BY <1>4 DEF m, t, e

\* A message that is taken: if it is the token, the block is no longer open.
LEMMA TokenTaken ==
  ASSUME NEW p, NEW f, NEW s, NEW q \in Seq(MainMsgs), NEW d, NEW b,
         q # <<>>, Token(p, f, s, q, d, b)
  PROVE  /\ Token(p, f, s, Tail(q), d, b)
         /\ Open(p, s, Tail(q), d, b) <=> Open(p, s, q, d, b) /\ ~IsEnd(Head(q), b)
         /\ IsEnd(Head(q), b) => Head(q).type = EndType(f) /\ Open(p, s, q, d, b)
<1>1. /\ Ended(q, b) <=> IsEnd(Head(q), b) \/ Ended(Tail(q), b)
      /\ Once(Tail(q), b) /\ ~(IsEnd(Head(q), b) /\ Ended(Tail(q), b))
      /\ Honest(Tail(q), b, f) /\ (IsEnd(Head(q), b) => Head(q).type = EndType(f))
  BY EndedTail DEF Token
<1> QED
  BY <1>1 DEF Token, Open

\* A message dropped with its queue's first place, whoever's it is.
LEMMA KnownKept ==
  ASSUME NEW q \in Seq(MainMsgs), NEW B, Known(q, B)
  PROVE  /\ q # <<>> => Known(Tail(q), B) /\ (Head(q).type \in EndTypes => Head(q).block \in B)
         /\ \A m \in MainMsgs : (m.type \in EndTypes => m.block \in B) => Known(Append(q, m), B)
<1>1. ASSUME q # <<>>
      PROVE  Known(Tail(q), B) /\ (Head(q).type \in EndTypes => Head(q).block \in B)
  <2>1. /\ Len(q) \in Nat \ {0} /\ Len(Tail(q)) = Len(q) - 1 /\ Head(q) = q[1]
        /\ \A i \in 1..Len(Tail(q)) : Tail(q)[i] = q[i + 1]
    BY <1>1, HeadTailProperties, LenProperties
  <2>2. 1 \in 1..Len(q) /\ \A i \in 1..Len(Tail(q)) : i + 1 \in 1..Len(q)
    BY <2>1, SMT
  <2> QED
    BY <2>1, <2>2 DEF Known
<1>2. ASSUME NEW m \in MainMsgs, m.type \in EndTypes => m.block \in B
      PROVE  Known(Append(q, m), B)
  <2>1. /\ Len(q) \in Nat /\ Len(Append(q, m)) = Len(q) + 1
        /\ \A i \in 1..Len(q) : Append(q, m)[i] = q[i]
        /\ Append(q, m)[Len(q) + 1] = m
    BY AppendProperties, LenProperties
  <2>2. \A i \in 1..Len(Append(q, m)) : i \in 1..Len(q) \/ i = Len(q) + 1
    BY <2>1, SMT
  <2> QED
    BY <1>2, <2>1, <2>2 DEF Known
<1> QED
  BY <1>1, <1>2

-----------------------------------------------------------------------------
(* Outboxes                                                                *)

\* The first message is pushed, and the clone of its sender is parked.
Marked(s) == <<[Head(s) EXCEPT !.pushed = TRUE]>> \o Tail(s)

\* The first message leaves the outbox, or stays until it is flushed.
LEMMA OutboxMoves ==
  ASSUME NEW s \in Seq(Sends), s # <<>>
  PROVE  /\ Head(s) \in Sends /\ Tail(s) \in Seq(Sends) /\ Marked(s) \in Seq(Sends)
         /\ NoLastWord(s) => /\ NoLastWord(Tail(s)) /\ NoLastWord(Marked(s))
                             /\ Head(s).to = Main => Head(s).msg.type = "Initialized"
         /\ Orders(s) => /\ Orders(Tail(s)) /\ Orders(Marked(s))
                         /\ Head(s).to = Main => Head(s).msg = ToMain("Terminate", 0)
         /\ \A b, f : LastWord(s, b, f) =>
              /\ Head(s).to = Main /\ Head(s).msg = ToMain(EndType(f), b)
              /\ LastWord(Tail(s), b, f) /\ LastWord(Marked(s), b, f)
              /\ ~Unsent(Tail(s)) /\ ~Unsent(Marked(s)) /\ (Unsent(s) <=> ~Head(s).pushed)
<1>1. PICK e \in Sends : e = Head(s)
  BY HeadTailProperties
<1>2. PICK t \in Seq(Sends) : t = Tail(s)
  BY HeadTailProperties
<1>3. PICK e1 : e1 = [e EXCEPT !.pushed = TRUE]
  OBVIOUS
<1>4. e1 \in Sends /\ e1.to = e.to /\ e1.msg = e.msg /\ e1.pushed = TRUE
  BY <1>3 DEF Sends, Letters
<1>5. PICK u : u = <<e1>> \o t
  OBVIOUS
<1>6. u = Marked(s)
  BY <1>1, <1>2, <1>3, <1>5 DEF Marked
<1>7. /\ Len(s) \in Nat \ {0} /\ Len(t) = Len(s) - 1 /\ e = s[1]
      /\ \A i \in 1..Len(t) : t[i] = s[i + 1]
  BY <1>1, <1>2, HeadTailProperties, LenProperties
<1>8. /\ u \in Seq(Sends) /\ Len(u) = Len(s) /\ u[1] = e1
      /\ \A i \in 1..Len(s) : i # 1 => u[i] = s[i]
  <2>1. <<e1>> \in Seq(Sends) /\ Len(<<e1>>) = 1 /\ <<e1>>[1] = e1
    BY <1>4
  <2>2. /\ u \in Seq(Sends) /\ Len(u) = 1 + Len(t)
        /\ \A i \in 1..(1 + Len(t)) : u[i] = IF i <= 1 THEN <<e1>>[i] ELSE t[i - 1]
    BY <1>5, <2>1, ConcatProperties
  <2>3. 1 + Len(t) = Len(s) /\ 1 \in 1..Len(s) /\ 1 <= 1
    BY <1>7, SMT
  <2>4. \A i \in 1..Len(s) : i # 1 => ~(i <= 1) /\ i - 1 \in 1..Len(t) /\ (i - 1) + 1 = i
    BY <1>7, SMT
  <2> QED
    BY <1>7, <2>1, <2>2, <2>3, <2>4
<1>9. 1 \in 1..Len(s) /\ \A i \in 1..Len(t) : i + 1 \in 1..Len(s)
  BY <1>7, SMT
<1>10. ASSUME NoLastWord(s)
       PROVE  /\ NoLastWord(t) /\ NoLastWord(u)
              /\ e.to = Main => e.msg.type = "Initialized"
  BY <1>4, <1>7, <1>8, <1>9, <1>10 DEF NoLastWord
<1>11. ASSUME NEW b, NEW f, LastWord(s, b, f)
       PROVE  /\ e.to = Main /\ e.msg = ToMain(EndType(f), b)
              /\ LastWord(t, b, f) /\ LastWord(u, b, f)
              /\ ~Unsent(t) /\ ~Unsent(u) /\ (Unsent(s) <=> ~e.pushed)
  <2>1. Len(s) = 1 /\ Len(t) = 0 /\ Len(u) = 1
    BY <1>7, <1>8, <1>11, SMT DEF LastWord
  <2>2. e.to = Main /\ e.msg = ToMain(EndType(f), b)
    BY <1>7, <1>9, <1>11 DEF LastWord
  <2>3. 0 <= 1 /\ 1 <= 1 /\ 1..0 = {} /\ \A i : i \in 1..1 <=> i = 1
    BY SMT
  <2>4. LastWord(t, b, f) /\ ~Unsent(t)
    BY <2>1, <2>3 DEF LastWord, Unsent
  <2>5. LastWord(u, b, f) /\ ~Unsent(u)
    BY <1>4, <1>8, <2>1, <2>2, <2>3 DEF LastWord, Unsent
  <2>6. Unsent(s) <=> ~e.pushed
    BY <1>7, <2>1, <2>3 DEF Unsent
  <2> QED
    BY <2>2, <2>4, <2>5, <2>6
<1>12. ASSUME Orders(s)
       PROVE  /\ Orders(t) /\ Orders(u)
              /\ e.to = Main => e.msg = ToMain("Terminate", 0)
  BY <1>4, <1>7, <1>8, <1>9, <1>12 DEF Orders
<1> QED
  BY <1>1, <1>2, <1>6, <1>8, <1>10, <1>11, <1>12

\* The report that run() sends when it has ended.
LEMMA ReportIsLastWord ==
  ASSUME NEW b \in Nat, NEW f \in BOOLEAN
  PROVE  /\ <<SendToMain(EndType(f), b)>> \in Seq(Sends)
         /\ LastWord(<<SendToMain(EndType(f), b)>>, b, f)
         /\ Unsent(<<SendToMain(EndType(f), b)>>)
<1>1. PICK e : e = SendToMain(EndType(f), b)
  OBVIOUS
<1>2. /\ e \in Sends /\ e.to = Main /\ e.msg = ToMain(EndType(f), b) /\ e.pushed = FALSE
  <2>1. PICK m : m = ToMain(EndType(f), b)
    OBVIOUS
  <2>2. m \in MainMsgs
    BY <2>1 DEF ToMain, EndType, EndTypes, MainMsgs
  <2>3. PICK v : v = <<"block", b>>
    OBVIOUS
  <2>4. v \in Vias
    BY <2>3 DEF Vias
  <2>5. e = [to |-> 0, via |-> v, msg |-> m, pushed |-> FALSE]
    BY <1>1, <2>1, <2>3 DEF SendToMain, Send, Main
  <2> QED
    BY <2>1, <2>2, <2>4, <2>5 DEF Sends, Main
<1>3. <<e>> \in Seq(Sends) /\ Len(<<e>>) = 1 /\ <<e>>[1] = e
  BY <1>2
<1>4. 1 <= 1 /\ \A i : i \in 1..1 <=> i = 1
  BY SMT
<1>5. LastWord(<<e>>, b, f) /\ Unsent(<<e>>)
  BY <1>2, <1>3, <1>4 DEF LastWord, Unsent
<1> QED
  BY <1>1, <1>3, <1>5

\* The report of a block that has been initialized.
LEMMA InitializedSent ==
  ASSUME NEW b \in Nat
  PROVE  /\ <<SendToMain("Initialized", b)>> \in Seq(Sends)
         /\ NoLastWord(<<SendToMain("Initialized", b)>>)
<1>1. PICK m : m = ToMain("Initialized", b)
  OBVIOUS
<1>2. m \in MainMsgs /\ m.type = "Initialized"
  BY <1>1 DEF ToMain, MainMsgs
<1>3. PICK v : v = <<"block", b>>
  OBVIOUS
<1>4. v \in Vias
  BY <1>3 DEF Vias
<1>5. PICK e : e = SendToMain("Initialized", b)
  OBVIOUS
<1>6. e = [to |-> 0, via |-> v, msg |-> m, pushed |-> FALSE]
  BY <1>1, <1>3, <1>5 DEF SendToMain, Send, Main
<1>7. e \in Sends /\ e.msg = m
  BY <1>2, <1>4, <1>6 DEF Sends
<1>8. <<e>> \in Seq(Sends) /\ Len(<<e>>) = 1 /\ <<e>>[1] = e
  BY <1>7
<1>9. \A i : i \in 1..1 <=> i = 1
  BY SMT
<1> QED
  BY <1>2, <1>5, <1>7, <1>8, <1>9 DEF NoLastWord

\* What goes to other blocks only is no last word.
Away(s) == \A i \in 1..Len(s) : s[i].to # Main

\* Messages behind messages are messages.
LEMMA AwayConcat ==
  ASSUME NEW s \in Seq(Sends), NEW u \in Seq(Sends)
  PROVE  /\ s \o u \in Seq(Sends)
         /\ Away(s) /\ Away(u) => Away(s \o u)
         /\ NoLastWord(s) /\ NoLastWord(u) => NoLastWord(s \o u)
         /\ Away(s) => NoLastWord(s) /\ Orders(s)
<1>1. PICK t : t = s \o u
  OBVIOUS
<1>2. /\ t \in Seq(Sends) /\ Len(t) = Len(s) + Len(u)
      /\ \A i \in 1..(Len(s) + Len(u)) : t[i] = IF i <= Len(s) THEN s[i] ELSE u[i - Len(s)]
  BY <1>1, ConcatProperties
<1>3. Len(s) \in Nat /\ Len(u) \in Nat
  BY LenProperties
<1>4. \A i \in 1..(Len(s) + Len(u)) :
        IF i <= Len(s) THEN i \in 1..Len(s) ELSE i - Len(s) \in 1..Len(u)
  BY <1>3, SMT
<1>5. Away(s) /\ Away(u) => Away(t)
  BY <1>2, <1>4 DEF Away
<1>6. NoLastWord(s) /\ NoLastWord(u) => NoLastWord(t)
  BY <1>2, <1>4 DEF NoLastWord
<1>7. Away(s) => NoLastWord(s) /\ Orders(s)
  BY DEF Away, NoLastWord, Orders
<1> QED
  BY <1>1, <1>2, <1>5, <1>6, <1>7

\* One message to a block, or an answer.
LEMMA AwayOne ==
  ASSUME NEW e \in Letters
  PROVE  <<e>> \in Seq(Sends) /\ Away(<<e>>)
<1>1. e \in Sends /\ e.to # Main
  BY DEF Sends, Letters, Main
<1>2. Len(<<e>>) = 1 /\ <<e>>[1] = e /\ <<e>> \in Seq(Sends)
  BY <1>1
<1>3. \A i : i \in 1..1 <=> i = 1
  BY SMT
<1> QED
  BY <1>1, <1>2, <1>3 DEF Away

\* No message.
LEMMA AwayNone == <<>> \in Seq(Sends) /\ Away(<<>>)
<1>1. Len(<<>>) = 0 /\ <<>> \in Seq(Sends)
  OBVIOUS
<1>2. 1..0 = {}
  BY SMT
<1> QED
  BY <1>1, <1>2 DEF Away

\* A message to each of n blocks.
LEMMA AwayEach ==
  ASSUME NEW n \in Nat, NEW t \in [1..n -> Letters]
  PROVE  t \in Seq(Sends) /\ Away(t)
<1>1. \A i \in 1..n : t[i] \in Sends /\ t[i].to # Main
  BY DEF Sends, Letters, Main
<1>2. t \in [1..n -> Sends]
  BY <1>1
<1>3. t \in Seq(Sends)
  BY <1>2, SeqDef
<1>4. Len(t) = n
  BY <1>2, <1>3, LenProperties, SMT
<1> QED
  BY <1>1, <1>3, <1>4 DEF Away

\* The messages for all blocks.
LEMMA ToAllAway ==
  ASSUME fg \in Flowgraphs, NEW msg \in BlockMsgs
  PROVE  ToAll(msg) \in Seq(Sends) /\ Away(ToAll(msg))
<1>1. N \in Nat
  BY RuntimeAssumption DEF WellFormed, N, Kind
<1>2. <<"main", 0>> \in Vias
  BY DEF Vias
<1>3. ToAll(msg) \in [1..N -> Letters]
  BY <1>1, <1>2 DEF ToAll, Send, FromMain, Letters
<1> QED
  BY <1>1, <1>3, AwayEach

\* What mio.post() sends goes to blocks.
LEMMA PostsAway ==
  ASSUME fg \in Flowgraphs, NEW b \in Blocks, NEW n \in Nat, NEW msg \in BlockMsgs
  PROVE  Posts(b, n, msg) \in Seq(Sends) /\ Away(Posts(b, n, msg))
<1>1. WellFormed(fg)
  BY RuntimeAssumption
<1>2. PICK out : out = fg.msgOut[b]
  OBVIOUS
<1>3. b \in Nat /\ N \in Nat /\ out \in Seq(1..N)
  BY <1>1, <1>2, RuntimeAssumption DEF WellFormed, Blocks, N, Kind
<1>4. PICK d \in Nat : d = Len(out)
  BY <1>3, LenProperties
<1>5. n * d \in Nat
  BY SMT
<1>6. PICK v : v = <<"msg", b>>
  OBVIOUS
<1>7. v \in Vias
  BY <1>3, <1>6 DEF Vias
<1>8. PICK s : s = [i \in 1..(n * d) |-> Send(out[((i - 1) % d) + 1], v, msg)]
  OBVIOUS
<1>9. s = Posts(b, n, msg)
  BY <1>2, <1>4, <1>6, <1>8 DEF Posts, MsgOut
<1>10. ASSUME NEW i \in 1..(n * d) PROVE out[((i - 1) % d) + 1] \in Nat \ {0}
  <2>1. d # 0
    BY SMT
  <2>2. ((i - 1) % d) + 1 \in 1..d
    <3>1. i - 1 \in Nat
      BY <1>5, SMT
    <3>2. (i - 1) % d \in 0..(d - 1)
      BY <2>1, <3>1, SMT
    <3> QED
      BY <3>2, SMT
  <2> QED
    BY <1>3, <1>4, <2>2
<1>11. s \in [1..(n * d) -> Letters]
  BY <1>7, <1>8, <1>10 DEF Send, Letters
<1> QED
  BY <1>5, <1>9, <1>11, AwayEach

-----------------------------------------------------------------------------
(* Initial states, and steps that count nothing                            *)

\* A flowgraph has finitely many blocks.
LEMMA BlocksFinite ==
  ASSUME fg \in Flowgraphs
  PROVE  /\ N \in Nat /\ IsFiniteSet(Blocks) /\ Cardinality(Blocks) = N
         /\ \A b \in Blocks : b \in Nat /\ b # 0
         /\ \A S \in SUBSET Blocks : IsFiniteSet(S) /\ Cardinality(S) \in 0..N
<1>1. N \in Nat
  BY RuntimeAssumption DEF WellFormed, N, Kind
<1>2. IsFiniteSet(Blocks) /\ Cardinality(Blocks) = N
  BY <1>1, FS_Interval, SMT DEF Blocks
<1>3. \A b \in Blocks : b \in Nat /\ b # 0
  BY <1>1, SMT DEF Blocks
<1>4. ASSUME NEW S \in SUBSET Blocks PROVE IsFiniteSet(S) /\ Cardinality(S) \in 0..N
  <2>1. IsFiniteSet(S) /\ Cardinality(S) <= Cardinality(Blocks)
    BY <1>2, FS_Subset
  <2>2. Cardinality(S) \in Nat
    BY <2>1, FS_CardinalityType
  <2> QED
    BY <1>1, <1>2, <2>1, <2>2, SMT
<1> QED
  BY <1>1, <1>2, <1>3, <1>4

\* No message, no end.
LEMMA EmptyQueue ==
  ASSUME NEW b, NEW f, NEW B
  PROVE  /\ <<>> \in Seq(MainMsgs) /\ Known(<<>>, B)
         /\ ~Ended(<<>>, b) /\ Once(<<>>, b) /\ Honest(<<>>, b, f)
<1>1. Len(<<>>) = 0 /\ <<>> \in Seq(MainMsgs)
  OBVIOUS
<1>2. 1..0 = {}
  BY SMT
<1> QED
  BY <1>1, <1>2 DEF Known, Ended, Once, Honest

\* Every block is to be counted.
LEMMA InitInd == Init => IndInv
<1> SUFFICES ASSUME Init PROVE IndInv
  OBVIOUS
<1>1. /\ fg \in Flowgraphs /\ mainbox = EmptyChannel /\ deferred = <<>>
      /\ outbox = [b \in Blocks |-> <<>>] /\ pc = [b \in Blocks |-> "start"]
      /\ failed = [b \in Blocks |-> FALSE] /\ mainout = ToAll("Initialize")
      /\ mpc = "sendInit" /\ job = [type |-> "none", client |-> 0, rest |-> <<>>]
      /\ active = N /\ blockError = FALSE
  BY DEF Init
<1>2. mainbox.queue = <<>>
  BY <1>1 DEF EmptyChannel
<1>3. TypeInv
  <2>1. ToAll("Initialize") \in Seq(Sends) /\ Away(ToAll("Initialize"))
    BY <1>1, ToAllAway DEF BlockMsgs
  <2>2. Orders(mainout)
    BY <1>1, <2>1 DEF Away, Orders
  <2>3. <<>> \in Seq(MainMsgs) /\ Known(<<>>, Blocks)
    BY EmptyQueue
  <2>4. outbox \in [Blocks -> Seq(Sends)] /\ job \in Jobs
    BY <1>1 DEF Jobs
  <2> QED
    BY <1>1, <1>2, <2>1, <2>2, <2>3, <2>4 DEF TypeInv, Pcs
<1>4. TokenInv
  <2>1. NoLastWord(<<>>)
    BY AwayNone, AwayConcat
  <2> QED
    BY <1>1, <1>2, <2>1, EmptyQueue DEF TokenInv, Token
<1>5. Rest = Blocks
  BY <1>1 DEF Rest, Open
<1>6. CountInv
  BY <1>1, <1>5, BlocksFinite DEF CountInv
<1>7. ReturnInv
  BY <1>1 DEF ReturnInv
<1> QED
  BY <1>3, <1>4, <1>6, <1>7 DEF IndInv

\* A step after which the same blocks are to be counted, and those counted have
\* not failed since, keeps the counts.
LEMMA NothingCounted ==
  ASSUME IndInv, TypeInv', TokenInv', UNCHANGED fg,
         \A b \in Blocks : Open(pc'[b], outbox'[b], mainbox'.queue, deferred', b)
                             <=> Open(pc[b], outbox[b], mainbox.queue, deferred, b),
         \A b \in Blocks : failed'[b] = failed[b] \/ Open(pc[b], outbox[b], mainbox.queue, deferred, b),
         UNCHANGED <<active, blockError>>,
         mpc \in Aborted => mpc' \in Aborted,
         mpc' \in {"retOk", "retErr"} => mpc' = mpc
  PROVE  IndInv'
<1>1. Blocks' = Blocks
  BY DEF Blocks, N, Kind
<1>2. PICK R : R = Rest
  OBVIOUS
<1>3. R = {b \in Blocks : Open(pc[b], outbox[b], mainbox.queue, deferred, b)}
  BY <1>2 DEF Rest
<1>4. Rest' = {b \in Blocks : Open(pc'[b], outbox'[b], mainbox'.queue, deferred', b)}
  BY <1>1 DEF Rest
<1>5. Rest' = R
  BY <1>3, <1>4
<1>6. \A b \in Blocks \ R : failed'[b] = failed[b]
  BY <1>3
<1>7. CountInv'
  BY <1>1, <1>2, <1>5, <1>6 DEF IndInv, CountInv
<1>8. ReturnInv'
  BY <1>2, <1>5 DEF IndInv, ReturnInv
<1> QED
  BY <1>7, <1>8 DEF IndInv

\* When run_flowgraph has given up nothing is counted any more.
LEMMA GivenUp ==
  ASSUME TypeInv', TokenInv', mpc' \in Aborted
  PROVE  IndInv'
BY DEF IndInv, CountInv, ReturnInv, Aborted

-----------------------------------------------------------------------------
(* Block tasks                                                             *)

\* What run_flowgraph does not see of a block.
Unseen == <<fg, mainbox, mainVars>>

\* A block that has not ended goes on, or ends and has its end to report.
LEMMA TaskStep ==
  ASSUME IndInv, NEW b \in Blocks, pc[b] # "done",
         pc' \in [Blocks -> Pcs], failed' \in [Blocks -> BOOLEAN],
         outbox' \in [Blocks -> Seq(Sends)],
         \A c \in Blocks : c # b =>
            pc'[c] = pc[c] /\ failed'[c] = failed[c] /\ outbox'[c] = outbox[c],
         pc'[b] # "done" => ~failed'[b] /\ NoLastWord(outbox'[b]),
         pc'[b] \notin {"start", "done"} => Linked(fg, b),
         pc'[b] = "done" => LastWord(outbox'[b], b, failed'[b]) /\ Unsent(outbox'[b]),
         UNCHANGED Unseen
  PROVE  IndInv'
<1>1. UNCHANGED <<fg, mainbox, deferred, mainout, mpc, job, active, blockError>>
  BY DEF Unseen, mainVars
<1>2. Blocks' = Blocks
  BY <1>1 DEF Blocks, N, Kind
<1>3. TypeInv'
  <2>1. TypeInv
    BY DEF IndInv
  <2>2. \A c \in Blocks : pc'[c] \notin {"start", "done"} => Linked(fg, c)
    BY <2>1 DEF TypeInv
  <2>3. \A c \in Blocks' : pc'[c] \notin {"start", "done"} => Linked(fg', c)
    BY <1>1, <1>2, <2>2, Zenon
  <2> QED
    BY <1>1, <1>2, <2>1, <2>3 DEF TypeInv, Linked, Orders
<1>4. ASSUME NEW c \in Blocks
      PROVE  /\ Token(pc'[c], failed'[c], outbox'[c], mainbox.queue, deferred, c)
             /\ Open(pc'[c], outbox'[c], mainbox.queue, deferred, c)
                  <=> Open(pc[c], outbox[c], mainbox.queue, deferred, c)
             /\ failed'[c] = failed[c] \/ Open(pc[c], outbox[c], mainbox.queue, deferred, c)
  <2>1. Token(pc[c], failed[c], outbox[c], mainbox.queue, deferred, c)
    BY DEF IndInv, TokenInv
  <2>2. CASE c # b
    BY <2>1, <2>2
  <2>3. CASE c = b
    <3>1. ~Ended(mainbox.queue, b) /\ ~Ended(deferred, b)
      BY <2>1, <2>3 DEF Token
    <3>2. \A f : Honest(mainbox.queue, b, f) /\ Honest(deferred, b, f)
      BY <3>1 DEF Ended, Honest
    <3>3. Once(mainbox.queue, b) /\ Once(deferred, b)
      BY <2>1, <2>3 DEF Token
    <3> QED
      BY <2>3, <3>1, <3>2, <3>3 DEF Token, Open
  <2> QED
    BY <2>2, <2>3
<1>5. TokenInv'
  BY <1>1, <1>2, <1>4 DEF TokenInv
<1> QED
  BY <1>1, <1>3, <1>4, <1>5, NothingCounted

\* It goes on.
LEMMA GoesOn ==
  ASSUME IndInv, NEW b \in Blocks, pc[b] # "done", NEW p \in Pcs, p # "done",
         NEW s \in Seq(Sends), NoLastWord(s), Linked(fg, b),
         pc' = [pc EXCEPT ![b] = p], outbox' = [outbox EXCEPT ![b] = s],
         UNCHANGED failed, UNCHANGED Unseen
  PROVE  IndInv'
<1>1. TypeInv /\ ~failed[b]
  BY DEF IndInv, TokenInv, Token
<1>2. /\ pc' \in [Blocks -> Pcs] /\ failed' \in [Blocks -> BOOLEAN]
      /\ outbox' \in [Blocks -> Seq(Sends)]
      /\ pc'[b] = p /\ failed'[b] = failed[b] /\ outbox'[b] = s
      /\ \A c \in Blocks : c # b =>
            pc'[c] = pc[c] /\ failed'[c] = failed[c] /\ outbox'[c] = outbox[c]
  BY <1>1 DEF TypeInv
<1> QED
  BY <1>1, <1>2, TaskStep

\* It ends.
LEMMA Ends ==
  ASSUME IndInv, NEW b \in Blocks, pc[b] # "done", NEW f \in BOOLEAN,
         pc' = [pc EXCEPT ![b] = "done"], failed' = [failed EXCEPT ![b] = f],
         outbox' = [outbox EXCEPT ![b] = <<SendToMain(EndType(f), b)>>],
         UNCHANGED Unseen
  PROVE  IndInv'
<1>1. TypeInv /\ b \in Nat
  BY BlocksFinite DEF IndInv, TypeInv
<1>2. PICK s : s = <<SendToMain(EndType(f), b)>>
  OBVIOUS
<1>3. s \in Seq(Sends) /\ LastWord(s, b, f) /\ Unsent(s)
  BY <1>1, <1>2, ReportIsLastWord
<1>4. /\ pc' \in [Blocks -> Pcs] /\ failed' \in [Blocks -> BOOLEAN]
      /\ outbox' \in [Blocks -> Seq(Sends)]
      /\ pc'[b] = "done" /\ failed'[b] = f /\ outbox'[b] = s
      /\ \A c \in Blocks : c # b =>
            pc'[c] = pc[c] /\ failed'[c] = failed[c] /\ outbox'[c] = outbox[c]
  BY <1>1, <1>2, <1>3 DEF TypeInv, Pcs
<1> QED
  BY <1>3, <1>4, TaskStep

\* It fails.
LEMMA FailStep ==
  ASSUME IndInv, NEW b \in Blocks, pc[b] # "done", Fail(b), UNCHANGED Unseen
  PROVE  IndInv'
<1>1. EndType(TRUE) = "BlockError"
  BY DEF EndType
<1>2. /\ pc' = [pc EXCEPT ![b] = "done"] /\ failed' = [failed EXCEPT ![b] = TRUE]
      /\ outbox' = [outbox EXCEPT ![b] = <<SendToMain(EndType(TRUE), b)>>]
  BY <1>1 DEF Fail
<1> QED
  BY <1>2, Ends

\* stream_ports_validate() says whether the ports are connected.
LEMMA ValidLinked ==
  ASSUME NEW b \in Blocks
  PROVE  Valid(b) <=> Linked(fg, b)
BY DEF Valid, Linked, HasInput, HasOutput, StreamInputs, StreamOutputs, Upstream, Kind, Down, Blocks, N

\* A block behind its start has passed the validation.
LEMMA RunningLinked ==
  ASSUME IndInv, NEW b \in Blocks, pc[b] \in {"setup", "loop", "work", "shutdown"}
  PROVE  Linked(fg, b)
BY DEF IndInv, TypeInv

\* BlockStart
LEMMA BlockStartStep ==
  ASSUME IndInv, NEW b \in Blocks, BlockStart(b)
  PROVE  IndInv'
<1>1. pc[b] # "done" /\ UNCHANGED Unseen /\ outbox[b] = <<>>
  BY DEF BlockStart, Running, Unseen
<1>2. CASE Valid(b)
  <2>1. pc' = [pc EXCEPT ![b] = "setup"] /\ UNCHANGED <<failed, outbox>>
    BY <1>2 DEF BlockStart
  <2>2. outbox' = [outbox EXCEPT ![b] = <<>>]
    BY <1>1, <2>1 DEF IndInv, TypeInv
  <2>3. <<>> \in Seq(Sends) /\ NoLastWord(<<>>) /\ "setup" \in Pcs
    BY AwayNone, AwayConcat DEF Pcs
  <2> QED
    BY <1>1, <1>2, <2>1, <2>2, <2>3, GoesOn, ValidLinked
<1>3. CASE ~Valid(b)
  BY <1>1, <1>3, FailStep DEF BlockStart
<1> QED
  BY <1>2, <1>3

\* BlockSetup
LEMMA BlockSetupStep ==
  ASSUME IndInv, NEW b \in Blocks, BlockSetup(b)
  PROVE  IndInv'
<1>1. pc[b] = "setup" /\ UNCHANGED Unseen /\ outbox[b] = <<>> /\ fg \in Flowgraphs
  BY DEF BlockSetup, Running, Unseen, IndInv, TypeInv
<1>2. <<>> \in Seq(Sends) /\ NoLastWord(<<>>)
  BY AwayNone, AwayConcat
<1>3. CASE UNCHANGED <<pc, failed, outbox>>
  <2>1. pc' = [pc EXCEPT ![b] = "setup"] /\ outbox' = [outbox EXCEPT ![b] = <<>>]
    BY <1>1, <1>3 DEF IndInv, TypeInv
  <2>2. "setup" \in Pcs
    BY DEF Pcs
  <2> QED
    BY <1>1, <1>2, <1>3, <2>1, <2>2, GoesOn, RunningLinked
<1>4. CASE Fail(b)
  BY <1>1, <1>4, FailStep
<1>5. CASE /\ pc' = [pc EXCEPT ![b] = "loop"]
           /\ outbox' = [outbox EXCEPT ![b] =
                          (IF InitPost[b] = "none" THEN <<>> ELSE Posts(b, 1, InitPost[b]))
                            \o <<SendToMain("Initialized", b)>>]
           /\ UNCHANGED failed
  <2>1. PICK s : s = IF InitPost[b] = "none" THEN <<>> ELSE Posts(b, 1, InitPost[b])
    OBVIOUS
  <2>2. s \in Seq(Sends) /\ NoLastWord(s)
    <3>1. CASE InitPost[b] = "none"
      BY <1>2, <2>1, <3>1
    <3>2. CASE InitPost[b] # "none"
      <4>1. InitPost[b] \in BlockMsgs
        BY <1>1, <3>2, RuntimeAssumption DEF WellFormed, InitPost, BlockMsgs, Blocks, N, Kind
      <4> QED
        BY <1>1, <2>1, <3>2, <4>1, PostsAway, AwayConcat
    <3> QED
      BY <3>1, <3>2
  <2>3. PICK u : u = <<SendToMain("Initialized", b)>>
    OBVIOUS
  <2>4. u \in Seq(Sends) /\ NoLastWord(u)
    BY <1>1, <2>3, BlocksFinite, InitializedSent
  <2>5. s \o u \in Seq(Sends) /\ NoLastWord(s \o u)
    BY <2>2, <2>4, AwayConcat
  <2>6. outbox' = [outbox EXCEPT ![b] = s \o u] /\ "loop" \in Pcs
    BY <1>5, <2>1, <2>3 DEF Pcs
  <2> QED
    BY <1>1, <1>5, <2>5, <2>6, GoesOn, RunningLinked
<1> QED
  BY <1>3, <1>4, <1>5 DEF BlockSetup

\* A handler, and a call of work(), post some number of messages.
LEMMA PostsCounted ==
  ASSUME NEW b
  PROVE  /\ \A last \in BOOLEAN : Handler(b, last).posts \in Nat
         /\ \A x : Idle(x).posts = 0
         /\ \A r \in Outcomes(b) : r.posts \in Nat
<1>1. \A x : Idle(x).posts = 0
  BY DEF Idle
<1>2. ASSUME NEW last \in BOOLEAN PROVE Handler(b, last).posts \in Nat
  <2>1. PICK x : x = k[b]
    OBVIOUS
  <2>2. MessageSinkHandler(x, last).posts \in Nat /\ MessageCopyHandler(x, last).posts \in Nat
    BY DEF MessageSinkHandler, MessageCopyHandler, Idle
  <2>3. Idle(x).posts \in Nat
    BY <1>1
  <2> QED
    BY <2>1, <2>2, <2>3 DEF Handler
<1>3. ASSUME NEW r \in Outcomes(b) PROVE r.posts \in Nat
  <2>1. ASSUME NEW x, NEW i, NEW o, NEW f
        PROVE  /\ VectorSource(x, o).posts = 0 /\ NullSource(x, o).posts = 0
               /\ Copy(x, i, o, f).posts = 0 /\ HeadBlock(x, i, o).posts = 0
               /\ NullSink(x, i, f).posts = 0 /\ MessageBurst(x).posts = Burst
    BY DEF VectorSource, NullSource, Copy, HeadBlock, NullSink, MessageBurst, Idle
  <2>2. ASSUME NEW x, NEW due \in BOOLEAN PROVE MessageSource(x, due).posts \in Nat
    BY DEF MessageSource, Idle
  <2>3. Burst \in Nat /\ 0 \in Nat
    BY KernelsAssumption
  <2>4. \/ \E x, i, o, f : r \in {VectorSource(x, o), NullSource(x, o), Copy(x, i, o, f),
                                  HeadBlock(x, i, o), NullSink(x, i, f), MessageBurst(x), Idle(x)}
        \/ \E x : \E due \in BOOLEAN : r = MessageSource(x, due)
    <3>1. PICK x : x = k[b]
      OBVIOUS
    <3>2. PICK in : in = IF HasInput(b) THEN avail[Up(b)] ELSE 0
      OBVIOUS
    <3>3. PICK out : out = StreamCap - avail[b]
      OBVIOUS
    <3>4. PICK f : f = infin[b]
      OBVIOUS
    <3>5. \/ r \in {VectorSource(x, out), NullSource(x, out), Copy(x, in, out, f),
                    HeadBlock(x, in, out), NullSink(x, in, f), MessageBurst(x), Idle(x)}
          \/ \E due \in BOOLEAN : r = MessageSource(x, due)
      BY <3>1, <3>2, <3>3, <3>4 DEF Outcomes
    <3> QED
      BY <3>5
  <2> QED
    BY <1>1, <2>1, <2>2, <2>3, <2>4
<1> QED
  BY <1>1, <1>2, <1>3

\* BlockReceive
LEMMA BlockReceiveStep ==
  ASSUME IndInv, NEW b \in Blocks, BlockReceive(b)
  PROVE  IndInv'
<1>1. pc[b] = "loop" /\ UNCHANGED Unseen /\ outbox[b] = <<>> /\ fg \in Flowgraphs
  BY DEF BlockReceive, Running, Unseen, IndInv, TypeInv
<1>2. CASE Fail(b)
  BY <1>1, <1>2, FailStep
<1>3. CASE \E n \in Nat : \E m :
             /\ outbox' = [outbox EXCEPT ![b] = Posts(b, n, "Call") \o Answers(b, m)]
             /\ UNCHANGED <<pc, failed>>
  <2>1. PICK n \in Nat : \E m :
             /\ outbox' = [outbox EXCEPT ![b] = Posts(b, n, "Call") \o Answers(b, m)]
             /\ UNCHANGED <<pc, failed>>
    BY <1>3
  <2>2. PICK m :
             /\ outbox' = [outbox EXCEPT ![b] = Posts(b, n, "Call") \o Answers(b, m)]
             /\ UNCHANGED <<pc, failed>>
    BY <2>1
  <2>3. PICK s : s = Posts(b, n, "Call")
    OBVIOUS
  <2>4. s \in Seq(Sends) /\ Away(s)
    BY <1>1, <2>3, PostsAway DEF BlockMsgs
  <2>5. PICK u : u = Answers(b, m)
    OBVIOUS
  <2>6. u \in Seq(Sends) /\ Away(u)
    <3>1. PICK v : v = <<"oneshot", 0>>
      OBVIOUS
    <3>2. v \in Vias /\ N + 1 \in Nat \ {0}
      BY <1>1, <3>1, BlocksFinite DEF Vias
    <3>3. ASSUME NEW res \in {"ok", "err"} PROVE Answer(res) \in Letters
      BY <3>1, <3>2 DEF Answer, Letters
    <3>4. u = <<>> \/ u = <<Answer("ok")>> \/ u = <<Answer("err")>>
      BY <2>5 DEF Answers
    <3> QED
      BY <3>3, <3>4, AwayOne, AwayNone
  <2>7. s \o u \in Seq(Sends) /\ NoLastWord(s \o u)
    BY <2>4, <2>6, AwayConcat
  <2>8. outbox' = [outbox EXCEPT ![b] = s \o u] /\ pc' = [pc EXCEPT ![b] = "loop"]
    BY <1>1, <2>2, <2>3, <2>5 DEF IndInv, TypeInv
  <2>9. "loop" \in Pcs
    BY DEF Pcs
  <2> QED
    BY <1>1, <2>2, <2>7, <2>8, <2>9, GoesOn, RunningLinked
<1>4. PICK m : m = Message(b)
  OBVIOUS
<1>5. PICK h : h = IF m \in {"Call", "CallFinished", "Callback"}
                   THEN Handler(b, m = "CallFinished") ELSE Idle(k[b])
  OBVIOUS
<1>6. h.posts \in Nat
  <2>1. (m = "CallFinished") \in BOOLEAN
    OBVIOUS
  <2>2. PICK last \in BOOLEAN : last = (m = "CallFinished")
    BY <2>1
  <2>3. Handler(b, last).posts \in Nat /\ Idle(k[b]).posts \in Nat
    BY PostsCounted
  <2>4. h = Handler(b, last) \/ h = Idle(k[b])
    BY <1>5, <2>2, Zenon
  <2> QED
    BY <2>3, <2>4, Zenon
<1>7. \/ Fail(b)
      \/ /\ outbox' = [outbox EXCEPT ![b] = Posts(b, h.posts, "Call") \o Answers(b, m)]
         /\ UNCHANGED <<pc, failed>>
  BY <1>4, <1>5, Zenon DEF BlockReceive
<1> QED
  BY <1>2, <1>3, <1>6, <1>7

\* What a block sends when it shuts down goes to its neighbours.
LEMMA FarewellsAway ==
  ASSUME fg \in Flowgraphs, NEW b \in Blocks, Linked(fg, b)
  PROVE  Farewells(b) \in Seq(Sends) /\ Away(Farewells(b))
<1>1. WellFormed(fg) /\ b \in Nat /\ N \in Nat
  BY RuntimeAssumption, BlocksFinite
<1>2. PICK s : s = IF HasInput(b) THEN <<Send(Up(b), <<"outdone", b>>, "StreamOutputDone")>>
                   ELSE <<>>
  OBVIOUS
<1>3. s \in Seq(Sends) /\ Away(s)
  <2>1. CASE HasInput(b)
    <3>1. Up(b) \in Nat \ {0}
      <4>1. PICK u \in Blocks : Down[u] = b
        BY <2>1 DEF Linked, HasInput, StreamInputs, Kind, Down, Blocks, N
      <4>2. Upstream(b) # {} /\ Upstream(b) \subseteq Blocks
        BY <4>1 DEF Upstream
      <4>3. Up(b) \in Upstream(b)
        BY <4>2 DEF Up
      <4> QED
        BY <4>2, <4>3, BlocksFinite
    <3>2. PICK v : v = <<"outdone", b>>
      OBVIOUS
    <3>3. v \in Vias
      BY <1>1, <3>2 DEF Vias
    <3>4. PICK e : e = Send(Up(b), v, "StreamOutputDone")
      OBVIOUS
    <3>5. e \in Letters
      BY <3>1, <3>3, <3>4 DEF Send, Letters, BlockMsgs
    <3> QED
      BY <1>2, <2>1, <3>2, <3>4, <3>5, AwayOne
  <2>2. CASE ~HasInput(b)
    BY <1>2, <2>2, AwayNone
  <2> QED
    BY <2>1, <2>2
<1>4. PICK u : u = IF HasOutput(b) THEN <<Send(Down[b], <<"indone", b>>, "StreamInputDone")>>
                   ELSE <<>>
  OBVIOUS
<1>5. u \in Seq(Sends) /\ Away(u)
  <2>1. CASE HasOutput(b)
    <3>1. Down[b] \in Nat \ {0}
      BY <1>1, <2>1 DEF Linked, HasOutput, StreamOutputs, Kind, Down, WellFormed, Blocks, N
    <3>2. PICK v : v = <<"indone", b>>
      OBVIOUS
    <3>3. v \in Vias
      BY <1>1, <3>2 DEF Vias
    <3>4. PICK e : e = Send(Down[b], v, "StreamInputDone")
      OBVIOUS
    <3>5. e \in Letters
      BY <3>1, <3>3, <3>4 DEF Send, Letters, BlockMsgs
    <3> QED
      BY <1>4, <2>1, <3>2, <3>4, <3>5, AwayOne
  <2>2. CASE ~HasOutput(b)
    BY <1>4, <2>2, AwayNone
  <2> QED
    BY <2>1, <2>2
<1>6. PICK p : p = Posts(b, 1, "CallFinished")
  OBVIOUS
<1>7. p \in Seq(Sends) /\ Away(p)
  BY <1>6, PostsAway DEF BlockMsgs
<1>8. Farewells(b) = (s \o u) \o p
  BY <1>2, <1>4, <1>6 DEF Farewells
<1>9. s \o u \in Seq(Sends) /\ Away(s \o u)
  BY <1>3, <1>5, AwayConcat
<1> QED
  BY <1>7, <1>8, <1>9, AwayConcat

\* BlockDrained, BlockTimer, BlockWork and BlockDeinit
LEMMA BlockRunStep ==
  ASSUME IndInv, NEW b \in Blocks,
         BlockDrained(b) \/ BlockTimer(b) \/ BlockWork(b) \/ BlockDeinit(b)
  PROVE  IndInv'
<1>1. /\ pc[b] \in {"loop", "work", "shutdown"} /\ UNCHANGED Unseen /\ outbox[b] = <<>>
      /\ TypeInv
  BY DEF BlockDrained, BlockTimer, BlockWork, BlockDeinit, Running, Unseen, IndInv
<1>2. fg \in Flowgraphs /\ outbox \in [Blocks -> Seq(Sends)] /\ Linked(fg, b)
  BY <1>1, RunningLinked DEF TypeInv
<1>3. <<>> \in Seq(Sends) /\ NoLastWord(<<>>) /\ {"loop", "work", "shutdown"} \subseteq Pcs
  BY AwayNone, AwayConcat DEF Pcs
<1>4. CASE pc' = [pc EXCEPT ![b] = "work"] /\ UNCHANGED <<outbox, failed>>
  <2>1. outbox' = [outbox EXCEPT ![b] = <<>>]
    BY <1>1, <1>2, <1>4
  <2> QED
    BY <1>1, <1>2, <1>3, <1>4, <2>1, GoesOn
<1>5. CASE /\ pc' = [pc EXCEPT ![b] = "shutdown"] /\ UNCHANGED failed
           /\ outbox' = [outbox EXCEPT ![b] = Farewells(b)]
  <2>1. PICK s : s = Farewells(b)
    OBVIOUS
  <2>2. s \in Seq(Sends) /\ NoLastWord(s)
    BY <1>2, <2>1, FarewellsAway, AwayConcat
  <2> QED
    BY <1>1, <1>2, <1>3, <1>5, <2>1, <2>2, GoesOn
<1>6. CASE \E n \in Nat : /\ pc' = [pc EXCEPT ![b] = "loop"] /\ UNCHANGED failed
                          /\ outbox' = [outbox EXCEPT ![b] = Posts(b, n, "Call")]
  <2>1. PICK n \in Nat : /\ pc' = [pc EXCEPT ![b] = "loop"] /\ UNCHANGED failed
                         /\ outbox' = [outbox EXCEPT ![b] = Posts(b, n, "Call")]
    BY <1>6
  <2>2. PICK s : s = Posts(b, n, "Call")
    OBVIOUS
  <2>3. s \in Seq(Sends) /\ NoLastWord(s)
    BY <1>2, <2>2, PostsAway, AwayConcat DEF BlockMsgs
  <2> QED
    BY <1>1, <1>2, <1>3, <2>1, <2>2, <2>3, GoesOn
<1>7. CASE Fail(b)
  BY <1>1, <1>7, FailStep
<1>8. CASE /\ pc' = [pc EXCEPT ![b] = "done"] /\ UNCHANGED failed
           /\ outbox' = [outbox EXCEPT ![b] = <<SendToMain("BlockDone", b)>>]
  <2>1. EndType(FALSE) = "BlockDone"
    BY DEF EndType
  <2>2. failed[b] = FALSE
    BY <1>1 DEF IndInv, TokenInv, Token, TypeInv
  <2>3. failed' = [failed EXCEPT ![b] = FALSE]
    BY <1>1, <1>8, <2>2 DEF TypeInv
  <2>4. outbox' = [outbox EXCEPT ![b] = <<SendToMain(EndType(FALSE), b)>>]
    BY <1>8, <2>1
  <2> QED
    BY <1>1, <1>8, <2>3, <2>4, Ends
<1>9. CASE BlockDrained(b)
  BY <1>4, <1>5, <1>9 DEF BlockDrained
<1>10. CASE BlockTimer(b)
  BY <1>4, <1>10 DEF BlockTimer
<1>11. CASE BlockWork(b)
  <2>1. CASE failAt[b] # "work"
    <3>1. PICK r \in Outcomes(b) : outbox' = [outbox EXCEPT ![b] = Posts(b, r.posts, "Call")]
      BY <1>11, <2>1 DEF BlockWork
    <3>2. r.posts \in Nat
      BY PostsCounted
    <3>3. pc' = [pc EXCEPT ![b] = "loop"] /\ UNCHANGED failed
      BY <1>11, <2>1 DEF BlockWork
    <3> QED
      BY <1>6, <3>1, <3>2, <3>3
  <2>2. CASE failAt[b] = "work"
    BY <1>7, <1>11, <2>2 DEF BlockWork
  <2> QED
    BY <2>1, <2>2
<1>12. CASE BlockDeinit(b)
  BY <1>7, <1>8, <1>12 DEF BlockDeinit
<1> QED
  BY <1>9, <1>10, <1>11, <1>12

\* BlockSend: the first message of the outbox is pushed, dropped or flushed.
\* The end of a block goes from its outbox to run_flowgraph.
LEMMA BlockSendStep ==
  ASSUME IndInv, NEW b \in Blocks, BlockSend(b)
  PROVE  IndInv'
<1>1. TypeInv /\ TokenInv
  BY DEF IndInv
<1>2. /\ outbox[b] # <<>> /\ outbox[b] \in Seq(Sends) /\ outbox \in [Blocks -> Seq(Sends)]
      /\ pc \in [Blocks -> Pcs] /\ failed \in [Blocks -> BOOLEAN]
      /\ mainbox.queue \in Seq(MainMsgs) /\ fg \in Flowgraphs
  BY <1>1 DEF BlockSend, TypeInv
<1>3. PICK e : e = Head(outbox[b])
  OBVIOUS
<1>4. /\ e \in Sends /\ Tail(outbox[b]) \in Seq(Sends) /\ Marked(outbox[b]) \in Seq(Sends)
  BY <1>2, <1>3, OutboxMoves
<1>5. UNCHANGED <<fg, mpc, mainout, job, active, blockError, deferred>> /\ UNCHANGED mainVars
  BY DEF BlockSend, mainVars
<1>6. Blocks' = Blocks
  BY <1>5 DEF Blocks, N, Kind
<1>7. Token(pc[b], failed[b], outbox[b], mainbox.queue, deferred, b)
  BY <1>1 DEF TokenInv
<1>8. 0 # N + 1 /\ Main = 0 /\ Main \notin Blocks /\ N + 1 \notin Blocks
  BY <1>2, BlocksFinite DEF Main, Blocks
<1> DEFINE Becomes(s) == outbox' = [outbox EXCEPT ![b] = s] /\ UNCHANGED <<pc, failed>>
           tail == Tail(outbox[b])
           marked == Marked(outbox[b])
           pushed == mainbox' = Push(mainbox, e.via, e.msg, QueueSize)
<1>9. \/ Fail(b) /\ e.to = Main /\ e.msg.type = "Initialized" /\ UNCHANGED mainbox
      \/ Becomes(tail) /\ (e.to = Main => e.pushed \/ Returned) /\ UNCHANGED mainbox
      \/ Becomes(marked) /\ e.to # Main /\ UNCHANGED mainbox
      \/ (Becomes(tail) \/ Becomes(marked)) /\ e.to = Main /\ ~e.pushed /\ pushed
  <2>1. CASE e.to = N + 1
    BY <1>3, <1>8, <2>1, Zenon DEF BlockSend
  <2>2. CASE e.to = Main /\ Returned
    BY <1>3, <1>8, <2>2, Zenon DEF BlockSend
  <2>3. CASE e.to = Main /\ ~Returned
    <3>1. \/ /\ ~e.pushed /\ pushed /\ UNCHANGED <<pc, failed>>
             /\ outbox' = [outbox EXCEPT ![b] = IF IsParked(mainbox', e.via)
                                                THEN marked ELSE tail]
          \/ e.pushed /\ Becomes(tail) /\ UNCHANGED mainbox
      BY <1>3, <1>8, <2>3, Zenon DEF BlockSend, Marked
    <3>2. CASE IsParked(mainbox', e.via)
      BY <2>3, <3>1, <3>2, Zenon
    <3>3. CASE ~IsParked(mainbox', e.via)
      BY <2>3, <3>1, <3>3, Zenon
    <3> QED
      BY <3>2, <3>3
  <2>4. CASE e.to # Main /\ e.to # N + 1
    <3>1. \/ /\ UNCHANGED mainbox /\ UNCHANGED <<pc, failed>>
             /\ outbox' = [outbox EXCEPT ![b] = IF IsParked(inbox'[e.to], e.via)
                                                THEN marked ELSE tail]
          \/ Becomes(tail) /\ UNCHANGED mainbox
      BY <1>3, <1>8, <2>4, Zenon DEF BlockSend, Marked
    <3>2. CASE IsParked(inbox'[e.to], e.via)
      BY <2>4, <3>1, <3>2, Zenon
    <3>3. CASE ~IsParked(inbox'[e.to], e.via)
      BY <2>4, <3>1, <3>3, Zenon
    <3> QED
      BY <3>2, <3>3
  <2> QED
    BY <2>1, <2>2, <2>3, <2>4
<1> HIDE DEF tail, marked
<1>10. CASE Fail(b) /\ e.to = Main /\ e.msg.type = "Initialized" /\ UNCHANGED mainbox
  <2>1. pc[b] # "done"
    <3>1. SUFFICES ASSUME pc[b] = "done" PROVE FALSE
      OBVIOUS
    <3>2. e.msg = ToMain(EndType(failed[b]), b)
      BY <1>2, <1>3, <1>7, <3>1, OutboxMoves DEF Token
    <3>3. e.msg.type = EndType(failed[b])
      BY <3>2 DEF ToMain
    <3> QED
      BY <1>10, <3>3 DEF EndType
  <2>2. UNCHANGED Unseen
    BY <1>5, <1>10 DEF Unseen
  <2> QED
    BY <1>10, <2>1, <2>2, FailStep
<1>11. ASSUME NEW s \in {tail, marked}
       PROVE  /\ s \in Seq(Sends)
              /\ pc[b] # "done" => NoLastWord(s)
              /\ pc[b] = "done" => LastWord(s, b, failed[b]) /\ ~Unsent(s)
  <2>1. /\ tail \in Seq(Sends) /\ marked \in Seq(Sends)
        /\ NoLastWord(outbox[b]) => NoLastWord(tail) /\ NoLastWord(marked)
        /\ LastWord(outbox[b], b, failed[b]) =>
             /\ LastWord(tail, b, failed[b]) /\ ~Unsent(tail)
             /\ LastWord(marked, b, failed[b]) /\ ~Unsent(marked)
    BY <1>2, OutboxMoves, Zenon DEF tail, marked
  <2>2. /\ pc[b] # "done" => NoLastWord(outbox[b])
        /\ pc[b] = "done" => LastWord(outbox[b], b, failed[b])
    BY <1>7 DEF Token
  <2>3. CASE s = tail
    BY <2>1, <2>2, <2>3
  <2>4. CASE s = marked
    BY <2>1, <2>2, <2>4
  <2> QED
    BY <2>3, <2>4
<1>12. ASSUME NEW s \in {tail, marked}, Becomes(s)
       PROVE  /\ pc' \in [Blocks -> Pcs] /\ failed' \in [Blocks -> BOOLEAN]
              /\ outbox' \in [Blocks -> Seq(Sends)] /\ outbox'[b] = s
              /\ pc' = pc /\ failed' = failed
              /\ \A c \in Blocks : c # b => outbox'[c] = outbox[c]
  BY <1>2, <1>11, <1>12
<1>13. ASSUME NEW s \in {tail, marked}, Becomes(s), UNCHANGED mainbox, pc[b] # "done"
       PROVE  IndInv'
  <2>1. /\ pc' \in [Blocks -> Pcs] /\ failed' \in [Blocks -> BOOLEAN]
        /\ outbox' \in [Blocks -> Seq(Sends)] /\ outbox'[b] = s
        /\ pc' = pc /\ failed' = failed
        /\ \A c \in Blocks : c # b => outbox'[c] = outbox[c]
    BY <1>12, <1>13
  <2>2. ~failed[b] /\ NoLastWord(s) /\ (pc[b] \notin {"start", "done"} => Linked(fg, b))
    BY <1>1, <1>7, <1>11, <1>13 DEF Token, TypeInv
  <2>3. UNCHANGED Unseen
    BY <1>5, <1>13 DEF Unseen
  <2>4. /\ pc'[b] # "done" => ~failed'[b] /\ NoLastWord(outbox'[b])
        /\ pc'[b] \notin {"start", "done"} => Linked(fg, b)
        /\ pc'[b] = "done" => LastWord(outbox'[b], b, failed'[b]) /\ Unsent(outbox'[b])
        /\ \A c \in Blocks : c # b =>
             pc'[c] = pc[c] /\ failed'[c] = failed[c] /\ outbox'[c] = outbox[c]
    BY <1>13, <2>1, <2>2
  <2> QED
    BY <1>13, <2>1, <2>3, <2>4, TaskStep
<1>14. ASSUME Becomes(tail), e.to = Main => e.pushed \/ Returned, UNCHANGED mainbox,
              pc[b] = "done"
       PROVE  IndInv'
  <2>1. /\ outbox' \in [Blocks -> Seq(Sends)] /\ outbox'[b] = tail
        /\ pc' = pc /\ failed' = failed
        /\ \A c \in Blocks : c # b => outbox'[c] = outbox[c]
    BY <1>12, <1>14
  <2>2. TypeInv'
    <3>1. \A c \in Blocks' : pc'[c] \notin {"start", "done"} => Linked(fg', c)
      BY <1>1, <1>5, <1>6, <2>1, Zenon DEF TypeInv
    <3>2. /\ mainbox'.queue \in Seq(MainMsgs) /\ deferred' \in Seq(MainMsgs)
          /\ Known(mainbox'.queue, Blocks') /\ Known(deferred', Blocks')
          /\ mainout' \in Seq(Sends) /\ Orders(mainout')
      BY <1>1, <1>5, <1>6, <1>14, Zenon DEF TypeInv
    <3>3. fg' \in Flowgraphs /\ job' \in Jobs /\ blockError' \in BOOLEAN
      BY <1>1, <1>5 DEF TypeInv
    <3>4. /\ pc' \in [Blocks' -> Pcs] /\ failed' \in [Blocks' -> BOOLEAN]
          /\ outbox' \in [Blocks' -> Seq(Sends)]
      BY <1>1, <1>6, <2>1 DEF TypeInv
    <3> QED
      BY <3>1, <3>2, <3>3, <3>4, Zenon DEF TypeInv
  <2>3. ASSUME NEW c \in Blocks
        PROVE  Token(pc[c], failed[c], outbox'[c], mainbox.queue, deferred, c)
    <3>1. Token(pc[c], failed[c], outbox[c], mainbox.queue, deferred, c)
      BY <1>1 DEF TokenInv
    <3>2. CASE c # b
      BY <2>1, <3>1, <3>2
    <3>3. CASE c = b
      BY <1>11, <1>14, <2>1, <3>1, <3>3 DEF Token
    <3> QED
      BY <3>2, <3>3
  <2>4. TokenInv'
    BY <1>5, <1>6, <1>14, <2>1, <2>3 DEF TokenInv
  <2>5. CASE mpc \in Aborted
    BY <1>5, <2>2, <2>4, <2>5, GivenUp
  <2>6. CASE mpc \notin Aborted
    <3>1. e.to = Main /\ (Unsent(outbox[b]) <=> ~e.pushed)
      BY <1>2, <1>3, <1>7, <1>14, OutboxMoves DEF Token
    <3>2. ~Unsent(outbox[b])
      <4>1. CASE e.pushed
        BY <3>1, <4>1
      <4>2. CASE Returned
        <5>1. mpc \in {"retOk", "retErr"}
          BY <2>6, <4>2 DEF Returned, Aborted
        <5>2. b \notin Rest
          BY <5>1 DEF IndInv, ReturnInv
        <5> QED
          BY <5>2 DEF Rest, Open
      <4> QED
        BY <1>14, <3>1, <4>1, <4>2
    <3>3. ASSUME NEW c \in Blocks
          PROVE  Open(pc'[c], outbox'[c], mainbox.queue, deferred, c)
                   <=> Open(pc[c], outbox[c], mainbox.queue, deferred, c)
      <4>1. CASE c # b
        BY <2>1, <4>1
      <4>2. CASE c = b
        <5>1. ~Unsent(tail)
          BY <1>11, <1>14
        <5> QED
          BY <2>1, <3>2, <4>2, <5>1 DEF Open
      <4> QED
        BY <4>1, <4>2
    <3> QED
      BY <1>5, <1>14, <2>1, <2>2, <2>4, <3>3, NothingCounted
  <2> QED
    BY <2>5, <2>6
<1>15. ASSUME NEW s \in {tail, marked}, Becomes(s), e.to = Main, ~e.pushed, pushed
       PROVE  IndInv'
  <2>1. /\ outbox' \in [Blocks -> Seq(Sends)] /\ outbox'[b] = s
        /\ pc' = pc /\ failed' = failed
        /\ \A c \in Blocks : c # b => outbox'[c] = outbox[c]
    BY <1>12, <1>15
  <2>2. PICK m : m = e.msg
    OBVIOUS
  <2>3. PICK q : q = Append(mainbox.queue, m)
    OBVIOUS
  <2>4. mainbox'.queue = q
    BY <1>15, <2>2, <2>3 DEF Push
  <2>5. m \in MainMsgs
    BY <1>4, <1>8, <1>15, <2>2 DEF Sends, Letters
  <2>6. \/ pc[b] # "done" /\ m.type \notin EndTypes
        \/ pc[b] = "done" /\ m.type = EndType(failed[b]) /\ m.block = b /\ Unsent(outbox[b])
    <3>1. CASE pc[b] # "done"
      <4>1. m.type = "Initialized"
        BY <1>2, <1>3, <1>7, <1>15, <2>2, <3>1, OutboxMoves DEF Token
      <4> QED
        BY <3>1, <4>1 DEF EndTypes
    <3>2. CASE pc[b] = "done"
      <4>1. m = ToMain(EndType(failed[b]), b) /\ Unsent(outbox[b])
        BY <1>2, <1>3, <1>7, <1>15, <2>2, <3>2, OutboxMoves DEF Token
      <4> QED
        BY <3>2, <4>1 DEF ToMain
    <3> QED
      BY <3>1, <3>2
  <2>7. \A c \in Blocks : c # b => ~IsEnd(m, c)
    BY <2>6 DEF IsEnd
  <2>8. q \in Seq(MainMsgs) /\ Known(q, Blocks)
    <3>1. m.type \in EndTypes => m.block \in Blocks
      BY <2>6
    <3> QED
      BY <1>1, <1>2, <2>3, <2>5, <3>1, KnownKept, AppendProperties DEF TypeInv
  <2>9. TypeInv'
    BY <1>1, <1>5, <1>6, <2>1, <2>4, <2>8 DEF TypeInv, Linked, Known, Orders
  <2>10. ASSUME NEW c \in Blocks
         PROVE  /\ Token(pc[c], failed[c], outbox'[c], q, deferred, c)
                /\ Open(pc[c], outbox'[c], q, deferred, c)
                     <=> Open(pc[c], outbox[c], mainbox.queue, deferred, c)
    <3>1. Token(pc[c], failed[c], outbox[c], mainbox.queue, deferred, c)
      BY <1>1 DEF TokenInv
    <3>2. CASE c # b
      BY <1>2, <2>1, <2>3, <2>5, <2>7, <3>1, <3>2, TokenOther
    <3>3. CASE c = b /\ pc[b] # "done"
      <4>1. ~IsEnd(m, b)
        BY <2>6, <3>3 DEF IsEnd
      <4>2. Token(pc[b], failed[b], outbox[b], q, deferred, b)
        BY <1>2, <1>7, <2>3, <2>5, <4>1, TokenOther
      <4>3. Token(pc[b], failed[b], s, q, deferred, b)
        BY <1>11, <3>3, <4>2 DEF Token
      <4> QED
        BY <2>1, <3>3, <4>3 DEF Open
    <3>4. CASE c = b /\ pc[b] = "done"
      <4>1. IsEnd(m, b) /\ m.type = EndType(failed[b])
        BY <2>6, <3>4 DEF IsEnd, EndType, EndTypes
      <4>2. /\ ~Ended(mainbox.queue, b) /\ ~Ended(deferred, b)
            /\ Once(mainbox.queue, b) /\ Honest(mainbox.queue, b, failed[b])
            /\ Once(deferred, b) /\ Honest(deferred, b, failed[b])
        BY <1>7, <2>6, <3>4 DEF Token
      <4>3. Ended(q, b) /\ Once(q, b) /\ Honest(q, b, failed[b])
        BY <1>2, <2>3, <2>5, <4>1, <4>2, EndedAppend
      <4>4. LastWord(s, b, failed[b]) /\ ~Unsent(s)
        BY <1>11, <3>4
      <4>5. Token(pc[b], failed[b], s, q, deferred, b) /\ Open(pc[b], s, q, deferred, b)
        BY <3>4, <4>2, <4>3, <4>4 DEF Token, Open
      <4>6. Open(pc[b], outbox[b], mainbox.queue, deferred, b)
        BY <2>6, <3>4 DEF Open
      <4> QED
        BY <2>1, <3>4, <4>5, <4>6
    <3> QED
      BY <3>2, <3>3, <3>4
  <2>11. TokenInv'
    BY <1>5, <1>6, <2>1, <2>4, <2>10 DEF TokenInv
  <2> QED
    BY <1>5, <2>1, <2>4, <2>9, <2>10, <2>11, NothingCounted
<1>16. pc[b] = "done" => e.to = Main
  BY <1>2, <1>3, <1>7, OutboxMoves DEF Token
<1> QED
  BY <1>9, <1>10, <1>13, <1>14, <1>15, <1>16

-----------------------------------------------------------------------------
(* run_flowgraph                                                           *)

\* What run_flowgraph does not touch.
Tasks == <<fg, pc, failed, outbox>>

\* The types after a step that leaves the queues q and d and sends o.
LEMMA MainTypes ==
  ASSUME TypeInv, UNCHANGED Tasks,
         NEW q \in Seq(MainMsgs), NEW d \in Seq(MainMsgs), NEW o \in Seq(Sends),
         Known(q, Blocks), Known(d, Blocks), Orders(o),
         mainbox'.queue = q, deferred' = d, mainout' = o,
         job' \in Jobs, blockError' \in BOOLEAN
  PROVE  TypeInv'
<1>1. fg' = fg /\ pc' = pc /\ failed' = failed /\ outbox' = outbox
  BY DEF Tasks
<1>2. Blocks' = Blocks
  BY <1>1 DEF Blocks, N, Kind
<1> QED
  BY <1>1, <1>2 DEF TypeInv, Linked, Known, Orders

\* A step that moves tokens between the queues and counts none.
LEMMA MainMoves ==
  ASSUME IndInv, UNCHANGED Tasks,
         NEW q \in Seq(MainMsgs), NEW d \in Seq(MainMsgs), NEW o \in Seq(Sends),
         Known(q, Blocks), Known(d, Blocks), Orders(o),
         mainbox'.queue = q, deferred' = d, mainout' = o,
         job' \in Jobs,
         \A b \in Blocks :
            Token(pc[b], failed[b], outbox[b], mainbox.queue, deferred, b) =>
              /\ Token(pc[b], failed[b], outbox[b], q, d, b)
              /\ Open(pc[b], outbox[b], q, d, b)
                   <=> Open(pc[b], outbox[b], mainbox.queue, deferred, b),
         UNCHANGED <<active, blockError>>,
         mpc \in Aborted => mpc' \in Aborted,
         mpc' \in {"retOk", "retErr"} => mpc' = mpc
  PROVE  IndInv'
<1>1. fg' = fg /\ pc' = pc /\ failed' = failed /\ outbox' = outbox
  BY DEF Tasks
<1>2. Blocks' = Blocks
  BY <1>1 DEF Blocks, N, Kind
<1>3. TypeInv /\ blockError' \in BOOLEAN
  BY DEF IndInv, TypeInv
<1>4. TypeInv'
  BY <1>3, MainTypes
<1>5. \A b \in Blocks :
         /\ Token(pc[b], failed[b], outbox[b], q, d, b)
         /\ Open(pc[b], outbox[b], q, d, b)
              <=> Open(pc[b], outbox[b], mainbox.queue, deferred, b)
  BY DEF IndInv, TokenInv
<1>6. TokenInv'
  BY <1>1, <1>2, <1>5 DEF TokenInv
<1> QED
  BY <1>1, <1>4, <1>5, <1>6, NothingCounted

\* A step that does not touch the queues.
LEMMA MainIdles ==
  ASSUME IndInv, UNCHANGED Tasks, UNCHANGED <<mainbox, deferred, active, blockError>>,
         NEW o \in Seq(Sends), Orders(o), mainout' = o,
         job' \in Jobs,
         mpc \in Aborted => mpc' \in Aborted,
         mpc' \in {"retOk", "retErr"} => mpc' = mpc
  PROVE  IndInv'
<1>1. /\ mainbox.queue \in Seq(MainMsgs) /\ deferred \in Seq(MainMsgs)
      /\ Known(mainbox.queue, Blocks) /\ Known(deferred, Blocks)
  BY DEF IndInv, TypeInv
<1> QED
  BY <1>1, MainMoves

\* A message that is nobody's end arrives.
LEMMA MainGets ==
  ASSUME IndInv, UNCHANGED Tasks, UNCHANGED <<deferred, active, blockError>>,
         NEW m \in MainMsgs, m.type \notin EndTypes,
         mainbox'.queue = Append(mainbox.queue, m),
         NEW o \in Seq(Sends), Orders(o), mainout' = o,
         job' \in Jobs,
         mpc \in Aborted => mpc' \in Aborted,
         mpc' \in {"retOk", "retErr"} => mpc' = mpc
  PROVE  IndInv'
<1>1. /\ mainbox.queue \in Seq(MainMsgs) /\ deferred \in Seq(MainMsgs)
      /\ Known(mainbox.queue, Blocks) /\ Known(deferred, Blocks)
  BY DEF IndInv, TypeInv
<1>2. PICK q : q = Append(mainbox.queue, m)
  OBVIOUS
<1>3. q \in Seq(MainMsgs) /\ Known(q, Blocks)
  BY <1>1, <1>2, KnownKept, AppendProperties
<1>4. \A b \in Blocks :
        Token(pc[b], failed[b], outbox[b], mainbox.queue, deferred, b) =>
          /\ Token(pc[b], failed[b], outbox[b], q, deferred, b)
          /\ Open(pc[b], outbox[b], q, deferred, b)
               <=> Open(pc[b], outbox[b], mainbox.queue, deferred, b)
  <2> SUFFICES ASSUME NEW b \in Blocks
               PROVE  Token(pc[b], failed[b], outbox[b], mainbox.queue, deferred, b) =>
                        /\ Token(pc[b], failed[b], outbox[b], q, deferred, b)
                        /\ Open(pc[b], outbox[b], q, deferred, b)
                             <=> Open(pc[b], outbox[b], mainbox.queue, deferred, b)
    OBVIOUS
  <2>1. ~IsEnd(m, b)
    BY DEF IsEnd
  <2> QED
    BY <1>1, <1>2, <2>1, TokenOther
<1> QED
  BY <1>1, <1>2, <1>3, <1>4, MainMoves

\* A message that is nobody's end is taken.
LEMMA MainDrops ==
  ASSUME IndInv, UNCHANGED Tasks, UNCHANGED <<deferred, active, blockError, mpc>>,
         mainbox.queue # <<>>, mainbox'.queue = Tail(mainbox.queue),
         Head(mainbox.queue).type \notin EndTypes,
         NEW o \in Seq(Sends), Orders(o), mainout' = o,
         job' \in Jobs
  PROVE  IndInv'
<1>1. /\ mainbox.queue \in Seq(MainMsgs) /\ deferred \in Seq(MainMsgs)
      /\ Known(mainbox.queue, Blocks) /\ Known(deferred, Blocks)
  BY DEF IndInv, TypeInv
<1>2. PICK q : q = Tail(mainbox.queue)
  OBVIOUS
<1>3. q \in Seq(MainMsgs) /\ Known(q, Blocks)
  BY <1>1, <1>2, KnownKept, HeadTailProperties
<1>4. ASSUME NEW b \in Blocks, Token(pc[b], failed[b], outbox[b], mainbox.queue, deferred, b)
      PROVE  /\ Token(pc[b], failed[b], outbox[b], q, deferred, b)
             /\ Open(pc[b], outbox[b], q, deferred, b)
                  <=> Open(pc[b], outbox[b], mainbox.queue, deferred, b)
  <2>1. ~IsEnd(Head(mainbox.queue), b)
    BY DEF IsEnd
  <2> QED
    BY <1>1, <1>2, <1>4, <2>1, TokenTaken
<1> QED
  BY <1>1, <1>2, <1>3, <1>4, MainMoves

\* An end is counted: one block less is to be counted, and an error is
\* remembered.
LEMMA MainCounts ==
  ASSUME IndInv, UNCHANGED Tasks, UNCHANGED <<deferred, mpc>>,
         mpc \notin Aborted, mpc \notin {"retOk", "retErr"},
         mainbox.queue # <<>>, mainbox'.queue = Tail(mainbox.queue),
         Head(mainbox.queue).type \in EndTypes,
         active' = active - 1,
         blockError' = (blockError \/ Head(mainbox.queue).type = "BlockError"),
         NEW o \in Seq(Sends), Orders(o), mainout' = o,
         job' \in Jobs
  PROVE  IndInv'
<1>1. /\ mainbox.queue \in Seq(MainMsgs) /\ deferred \in Seq(MainMsgs)
      /\ Known(mainbox.queue, Blocks) /\ Known(deferred, Blocks)
      /\ TypeInv /\ fg \in Flowgraphs
  BY DEF IndInv, TypeInv
<1>2. fg' = fg /\ pc' = pc /\ failed' = failed /\ outbox' = outbox /\ deferred' = deferred
  BY DEF Tasks
<1>3. Blocks' = Blocks
  BY <1>2 DEF Blocks, N, Kind
<1>4. PICK q : q = Tail(mainbox.queue)
  OBVIOUS
<1>5. PICK m : m = Head(mainbox.queue)
  OBVIOUS
<1>6. q \in Seq(MainMsgs) /\ Known(q, Blocks) /\ m \in MainMsgs /\ m.block \in Blocks
  BY <1>1, <1>4, <1>5, KnownKept, HeadTailProperties
<1>7. PICK c \in Blocks : c = m.block
  BY <1>6
<1>8. \A b \in Blocks : IsEnd(m, b) <=> b = c
  BY <1>5, <1>7 DEF IsEnd
<1>9. ASSUME NEW b \in Blocks
      PROVE  /\ Token(pc[b], failed[b], outbox[b], q, deferred, b)
             /\ Open(pc[b], outbox[b], q, deferred, b)
                  <=> Open(pc[b], outbox[b], mainbox.queue, deferred, b) /\ b # c
             /\ b = c => /\ m.type = EndType(failed[b])
                         /\ Open(pc[b], outbox[b], mainbox.queue, deferred, b)
  <2>1. Token(pc[b], failed[b], outbox[b], mainbox.queue, deferred, b)
    BY DEF IndInv, TokenInv
  <2>2. /\ Token(pc[b], failed[b], outbox[b], q, deferred, b)
        /\ Open(pc[b], outbox[b], q, deferred, b)
             <=> Open(pc[b], outbox[b], mainbox.queue, deferred, b) /\ ~IsEnd(m, b)
        /\ IsEnd(m, b) => /\ m.type = EndType(failed[b])
                          /\ Open(pc[b], outbox[b], mainbox.queue, deferred, b)
    BY <1>1, <1>4, <1>5, <2>1, TokenTaken
  <2> QED
    BY <1>8, <2>2
<1>10. TypeInv'
  <2>1. blockError' \in BOOLEAN
    OBVIOUS
  <2> QED
    BY <1>1, <1>2, <1>4, <1>6, <2>1, MainTypes
<1>11. TokenInv'
  BY <1>2, <1>3, <1>4, <1>9 DEF TokenInv
<1>12. PICK R : R = Rest
  OBVIOUS
<1>13. R = {b \in Blocks : Open(pc[b], outbox[b], mainbox.queue, deferred, b)}
  BY <1>12 DEF Rest
<1>14. Rest' = {b \in Blocks : Open(pc[b], outbox[b], q, deferred, b)}
  BY <1>2, <1>3, <1>4 DEF Rest
<1>15. Rest' = R \ {c} /\ c \in R
  BY <1>9, <1>13, <1>14
<1>16. active = Cardinality(R) /\ (blockError <=> \E b \in Blocks \ R : failed[b])
  BY <1>12 DEF IndInv, CountInv
<1>17. Cardinality(R \ {c}) = Cardinality(R) - 1
  <2>1. R \in SUBSET Blocks
    BY <1>13
  <2>2. IsFiniteSet(R)
    BY <1>1, <2>1, BlocksFinite
  <2> QED
    BY <1>15, <2>2, FS_RemoveElement
<1>18. m.type = "BlockError" <=> failed[c]
  <2>1. m.type = EndType(failed[c])
    BY <1>9
  <2> QED
    BY <2>1 DEF EndType
<1>19. blockError' <=> \E b \in Blocks \ (R \ {c}) : failed[b]
  BY <1>5, <1>15, <1>16, <1>18
<1>20. CountInv'
  BY <1>2, <1>3, <1>15, <1>16, <1>17, <1>19 DEF CountInv
<1>21. ReturnInv'
  BY DEF ReturnInv
<1> QED
  BY <1>10, <1>11, <1>20, <1>21 DEF IndInv

\* The Terminate that run_flowgraph sends to itself.
LEMMA TerminateIsNoEnd ==
  /\ ToMain("Terminate", 0) \in MainMsgs /\ ToMain("Terminate", 0).type \notin EndTypes
  /\ <<Send(Main, FromMain, ToMain("Terminate", 0))>> \in Seq(Sends)
  /\ Orders(<<Send(Main, FromMain, ToMain("Terminate", 0))>>)
<1>1. PICK m : m = ToMain("Terminate", 0)
  OBVIOUS
<1>2. m \in MainMsgs /\ m.type \notin EndTypes
  BY <1>1 DEF ToMain, MainMsgs, EndTypes, RequestTypes
<1>3. PICK v : v = FromMain
  OBVIOUS
<1>4. v \in Vias
  BY <1>3 DEF Vias, FromMain
<1>5. PICK e : e = Send(Main, v, m)
  OBVIOUS
<1>6. e \in Sends /\ e.msg = m
  BY <1>2, <1>4, <1>5 DEF Send, Sends, Main
<1>7. <<e>> \in Seq(Sends) /\ Len(<<e>>) = 1 /\ <<e>>[1] = e
  BY <1>6
<1>8. \A i : i \in 1..1 <=> i = 1
  BY SMT
<1>9. Orders(<<e>>)
  BY <1>1, <1>6, <1>7, <1>8 DEF Orders
<1> QED
  BY <1>1, <1>2, <1>3, <1>5, <1>7, <1>9

\* One message from run_flowgraph to a block.
LEMMA OneOrder ==
  ASSUME NEW b \in Nat \ {0}, NEW msg \in BlockMsgs
  PROVE  <<Send(b, FromMain, msg)>> \in Seq(Sends) /\ Orders(<<Send(b, FromMain, msg)>>)
<1>1. PICK e : e = Send(b, FromMain, msg)
  OBVIOUS
<1>2. <<"main", 0>> \in Vias
  BY DEF Vias
<1>3. e \in Letters
  BY <1>1, <1>2 DEF Send, FromMain, Letters
<1>4. <<e>> \in Seq(Sends) /\ Away(<<e>>)
  BY <1>3, AwayOne
<1> QED
  BY <1>1, <1>4, AwayConcat

\* MainSend
LEMMA MainSendStep ==
  ASSUME IndInv, MainSend
  PROVE  IndInv'
<1>1. /\ UNCHANGED Tasks /\ UNCHANGED <<deferred, active, blockError, mpc, job>>
      /\ mainout # <<>>
  BY DEF MainSend, Tasks, blockVars
<1>2. /\ mainout \in Seq(Sends) /\ Orders(mainout)
      /\ job' \in Jobs
  BY <1>1 DEF IndInv, TypeInv
<1>3. PICK e : e = Head(mainout)
  OBVIOUS
<1>4. /\ Tail(mainout) \in Seq(Sends) /\ Marked(mainout) \in Seq(Sends)
      /\ Orders(Tail(mainout)) /\ Orders(Marked(mainout))
      /\ e.to = Main => e.msg = ToMain("Terminate", 0)
  BY <1>1, <1>2, <1>3, OutboxMoves
<1>5. /\ \/ UNCHANGED mainbox
         \/ e.to = Main /\ mainbox' = Push(mainbox, e.via, e.msg, QueueSize)
      /\ mainout' = Tail(mainout) \/ mainout' = Marked(mainout)
  <2>1. CASE e.pushed
    BY <1>3, <2>1, Zenon DEF MainSend
  <2>2. CASE ~e.pushed /\ e.to = Main
    <3>1. /\ mainbox' = Push(mainbox, e.via, e.msg, QueueSize)
          /\ mainout' = IF IsParked(mainbox', e.via) THEN Marked(mainout) ELSE Tail(mainout)
      BY <1>3, <2>2, Zenon DEF MainSend, Marked
    <3>2. CASE IsParked(mainbox', e.via)
      BY <2>2, <3>1, <3>2, Zenon
    <3>3. CASE ~IsParked(mainbox', e.via)
      BY <2>2, <3>1, <3>3, Zenon
    <3> QED
      BY <3>2, <3>3
  <2>3. CASE ~e.pushed /\ e.to # Main
    <3>1. /\ UNCHANGED mainbox
          /\ mainout' = IF IsParked(inbox'[e.to], e.via) THEN Marked(mainout) ELSE Tail(mainout)
      BY <1>3, <2>3, Zenon DEF MainSend, Marked
    <3>2. CASE IsParked(inbox'[e.to], e.via)
      BY <3>1, <3>2, Zenon
    <3>3. CASE ~IsParked(inbox'[e.to], e.via)
      BY <3>1, <3>3, Zenon
    <3> QED
      BY <3>2, <3>3
  <2> QED
    BY <2>1, <2>2, <2>3
<1>6. PICK o : o = mainout'
  OBVIOUS
<1>7. o \in Seq(Sends) /\ Orders(o)
  BY <1>4, <1>5, <1>6
<1>8. CASE UNCHANGED mainbox
  BY <1>1, <1>2, <1>6, <1>7, <1>8, MainIdles
<1>9. CASE e.to = Main /\ mainbox' = Push(mainbox, e.via, e.msg, QueueSize)
  <2>1. PICK m : m = ToMain("Terminate", 0)
    OBVIOUS
  <2>2. m \in MainMsgs /\ m.type \notin EndTypes
    BY <2>1, TerminateIsNoEnd
  <2>3. mainbox'.queue = Append(mainbox.queue, m)
    BY <1>4, <1>9, <2>1 DEF Push
  <2> QED
    BY <1>1, <1>2, <1>6, <1>7, <2>2, <2>3, MainGets
<1> QED
  BY <1>5, <1>8, <1>9

\* MainInitSent and MainNotifyAll
LEMMA MainPhaseStep ==
  ASSUME IndInv, MainInitSent \/ MainNotifyAll
  PROVE  IndInv'
<1>1. /\ UNCHANGED Tasks /\ UNCHANGED <<mainbox, deferred, active, blockError, job>>
      /\ mpc \notin Aborted /\ mpc' \notin {"retOk", "retErr"}
  BY DEF MainInitSent, MainNotifyAll, Tasks, blockVars, MainAt, Aborted
<1>2. /\ mainout \in Seq(Sends) /\ Orders(mainout) /\ fg \in Flowgraphs
      /\ job' \in Jobs
  BY <1>1 DEF IndInv, TypeInv
<1>3. PICK o : o = ToAll("Notify")
  OBVIOUS
<1>4. o \in Seq(Sends) /\ Orders(o)
  BY <1>2, <1>3, ToAllAway, AwayConcat DEF BlockMsgs
<1>5. mainout' = mainout \/ mainout' = o
  BY <1>3 DEF MainInitSent, MainNotifyAll
<1> QED
  BY <1>1, <1>2, <1>4, <1>5, MainIdles

\* MainWaitInit
LEMMA MainWaitInitStep ==
  ASSUME IndInv, MainWaitInit
  PROVE  IndInv'
<1>1. /\ UNCHANGED Tasks /\ UNCHANGED <<mainout, mpc, job>> /\ mpc = "waitInit"
      /\ mainbox.queue # <<>> /\ mainbox' = Pop(mainbox)
  BY DEF MainWaitInit, Tasks, blockVars, MainAt, MainTake
<1>2. /\ mainout \in Seq(Sends) /\ Orders(mainout) /\ blockError \in BOOLEAN
      /\ job' \in Jobs
      /\ mainbox.queue \in Seq(MainMsgs) /\ deferred \in Seq(MainMsgs)
      /\ Known(mainbox.queue, Blocks) /\ Known(deferred, Blocks)
  BY <1>1 DEF IndInv, TypeInv
<1>3. mainbox'.queue = Tail(mainbox.queue)
  BY <1>1 DEF Pop
<1>4. mpc \notin Aborted /\ mpc \notin {"retOk", "retErr"}
  BY <1>1 DEF Aborted
<1>5. PICK m : m = Head(mainbox.queue)
  OBVIOUS
<1>6. CASE m.type = "Initialized"
  <2>1. UNCHANGED <<active, blockError, deferred>>
    BY <1>5, <1>6 DEF MainWaitInit, MainMessage
  <2>2. m.type \notin EndTypes
    BY <1>6 DEF EndTypes
  <2> QED
    BY <1>1, <1>2, <1>3, <1>5, <2>1, <2>2, MainDrops
<1>7. CASE m.type = "BlockError"
  <2>1. active' = active - 1 /\ blockError' = TRUE /\ UNCHANGED deferred
    BY <1>5, <1>7 DEF MainWaitInit, MainMessage, CountError
  <2>2. m.type \in EndTypes
    BY <1>7 DEF EndTypes
  <2>3. blockError' = (blockError \/ m.type = "BlockError")
    BY <1>2, <1>7, <2>1
  <2> QED
    BY <1>1, <1>2, <1>3, <1>4, <1>5, <2>1, <2>2, <2>3, MainCounts
<1>8. CASE m.type \notin {"Initialized", "BlockError"}
  <2>1. deferred' = Append(deferred, m) /\ UNCHANGED <<active, blockError>>
    BY <1>5, <1>8 DEF MainWaitInit, MainMessage
  <2>2. PICK q : q = Tail(mainbox.queue)
    OBVIOUS
  <2>3. PICK d : d = Append(deferred, m)
    OBVIOUS
  <2>4. /\ q \in Seq(MainMsgs) /\ Known(q, Blocks) /\ m \in MainMsgs
        /\ m.type \in EndTypes => m.block \in Blocks
    BY <1>1, <1>2, <1>5, <2>2, KnownKept, HeadTailProperties
  <2>5. d \in Seq(MainMsgs) /\ Known(d, Blocks)
    BY <1>2, <2>3, <2>4, KnownKept, AppendProperties
  <2>6. ASSUME NEW b \in Blocks, Token(pc[b], failed[b], outbox[b], mainbox.queue, deferred, b)
        PROVE  /\ Token(pc[b], failed[b], outbox[b], q, d, b)
               /\ Open(pc[b], outbox[b], q, d, b)
                    <=> Open(pc[b], outbox[b], mainbox.queue, deferred, b)
    BY <1>1, <1>2, <1>5, <2>2, <2>3, <2>6, TokenMoved
  <2> QED
    BY <1>1, <1>2, <1>3, <1>4, <2>1, <2>2, <2>3, <2>4, <2>5, <2>6, MainMoves
<1> QED
  BY <1>6, <1>7, <1>8

\* MainRequeue: the message is put back, or is lost with the flowgraph.
LEMMA MainRequeueStep ==
  ASSUME IndInv, MainRequeue
  PROVE  IndInv'
<1>1. /\ UNCHANGED Tasks /\ UNCHANGED <<mainout, job, active, blockError>> /\ mpc = "requeue"
      /\ deferred # <<>> /\ deferred' = Tail(deferred)
  BY DEF MainRequeue, Tasks, blockVars, MainAt
<1>2. /\ mainout \in Seq(Sends) /\ Orders(mainout) /\ blockError' \in BOOLEAN
      /\ job' \in Jobs
      /\ mainbox.queue \in Seq(MainMsgs) /\ deferred \in Seq(MainMsgs)
      /\ Known(mainbox.queue, Blocks) /\ Known(deferred, Blocks) /\ TypeInv
  BY <1>1 DEF IndInv, TypeInv
<1>3. PICK m : m = Head(deferred)
  OBVIOUS
<1>4. PICK d : d = Tail(deferred)
  OBVIOUS
<1>5. /\ d \in Seq(MainMsgs) /\ Known(d, Blocks) /\ m \in MainMsgs
      /\ m.type \in EndTypes => m.block \in Blocks
  BY <1>1, <1>2, <1>3, <1>4, KnownKept, HeadTailProperties
<1>6. CASE IsParked(mainbox, FromMain)
  <2>1. mpc' = "abortedInit" /\ UNCHANGED mainbox
    BY <1>6 DEF MainRequeue, MainTrySend
  <2>2. TypeInv'
    BY <1>1, <1>2, <1>4, <1>5, <2>1, MainTypes
  <2>3. ASSUME NEW b \in Blocks
        PROVE  Token(pc[b], failed[b], outbox[b], mainbox.queue, d, b)
    <3>1. Token(pc[b], failed[b], outbox[b], mainbox.queue, deferred, b)
      BY DEF IndInv, TokenInv
    <3>2. Token(pc[b], failed[b], outbox[b], deferred, mainbox.queue, b)
      BY <3>1, TokenSwap
    <3>3. Token(pc[b], failed[b], outbox[b], d, mainbox.queue, b)
      BY <1>1, <1>2, <1>4, <3>2, TokenTaken
    <3> QED
      BY <3>3, TokenSwap
  <2>4. Blocks' = Blocks /\ pc' = pc /\ failed' = failed /\ outbox' = outbox
    BY <1>1 DEF Tasks, Blocks, N, Kind
  <2>5. TokenInv'
    BY <1>1, <1>4, <2>1, <2>3, <2>4 DEF TokenInv
  <2> QED
    BY <2>1, <2>2, <2>5, GivenUp DEF Aborted
<1>7. CASE ~IsParked(mainbox, FromMain)
  <2>1. mainbox' = Push(mainbox, FromMain, m, QueueSize) /\ UNCHANGED mpc
    BY <1>3, <1>7 DEF MainRequeue, MainTrySend
  <2>2. PICK q : q = Append(mainbox.queue, m)
    OBVIOUS
  <2>3. mainbox'.queue = q
    BY <2>1, <2>2 DEF Push
  <2>4. q \in Seq(MainMsgs) /\ Known(q, Blocks)
    BY <1>2, <1>5, <2>2, KnownKept, AppendProperties
  <2>5. ASSUME NEW b \in Blocks, Token(pc[b], failed[b], outbox[b], mainbox.queue, deferred, b)
        PROVE  /\ Token(pc[b], failed[b], outbox[b], q, d, b)
               /\ Open(pc[b], outbox[b], q, d, b)
                    <=> Open(pc[b], outbox[b], mainbox.queue, deferred, b)
    <3>1. Token(pc[b], failed[b], outbox[b], deferred, mainbox.queue, b)
      BY <2>5, TokenSwap
    <3>2. /\ Token(pc[b], failed[b], outbox[b], d, q, b)
          /\ Open(pc[b], outbox[b], d, q, b)
               <=> Open(pc[b], outbox[b], deferred, mainbox.queue, b)
      BY <1>1, <1>2, <1>3, <1>4, <2>2, <3>1, TokenMoved
    <3> QED
      BY <3>2, TokenSwap
  <2>6. mpc' \notin {"retOk", "retErr"} /\ mpc \notin Aborted
    BY <1>1, <2>1 DEF Aborted
  <2> QED
    BY <1>1, <1>2, <1>4, <1>5, <2>1, <2>3, <2>4, <2>5, <2>6, MainMoves
<1> QED
  BY <1>6, <1>7

\* MainStarted
LEMMA MainStartedStep ==
  ASSUME IndInv, MainStarted
  PROVE  IndInv'
<1>1. /\ UNCHANGED Tasks /\ UNCHANGED <<deferred, mainout, job, active, blockError>>
      /\ mpc \notin Aborted /\ mpc' \notin {"retOk", "retErr"}
  BY DEF MainStarted, Tasks, blockVars, MainAt, Aborted
<1>2. mainout \in Seq(Sends) /\ Orders(mainout) /\ job' \in Jobs
  BY <1>1 DEF IndInv, TypeInv
<1>3. UNCHANGED mainbox \/ mainbox' = Push(mainbox, FromMain, ToMain("Terminate", 0), QueueSize)
  BY DEF MainStarted
<1>4. CASE UNCHANGED mainbox
  BY <1>1, <1>2, <1>4, MainIdles
<1>5. CASE mainbox' = Push(mainbox, FromMain, ToMain("Terminate", 0), QueueSize)
  <2>1. PICK m : m = ToMain("Terminate", 0)
    OBVIOUS
  <2>2. m \in MainMsgs /\ m.type \notin EndTypes
    BY <2>1, TerminateIsNoEnd
  <2>3. mainbox'.queue = Append(mainbox.queue, m)
    BY <1>5, <2>1 DEF Push
  <2> QED
    BY <1>1, <1>2, <2>2, <2>3, MainGets
<1> QED
  BY <1>3, <1>4, <1>5

\* MainReturn: nobody is left to be counted.
LEMMA MainReturnStep ==
  ASSUME IndInv, MainReturn
  PROVE  IndInv'
<1>1. /\ UNCHANGED Tasks /\ UNCHANGED <<mainbox, deferred, mainout, job, active, blockError>>
      /\ mpc = "loop" /\ active = 0 /\ mpc' = IF blockError THEN "retErr" ELSE "retOk"
  BY DEF MainReturn, Tasks, blockVars, MainAt
<1>2. TypeInv /\ TokenInv /\ fg \in Flowgraphs
  BY DEF IndInv, TypeInv
<1>3. /\ mainout \in Seq(Sends) /\ Orders(mainout) /\ job' \in Jobs /\ blockError' \in BOOLEAN
      /\ mainbox.queue \in Seq(MainMsgs) /\ deferred \in Seq(MainMsgs)
      /\ Known(mainbox.queue, Blocks) /\ Known(deferred, Blocks)
  BY <1>1, <1>2 DEF TypeInv
<1>4. TypeInv'
  BY <1>1, <1>2, <1>3, MainTypes
<1>5. /\ Blocks' = Blocks /\ pc' = pc /\ failed' = failed /\ outbox' = outbox
      /\ mainbox' = mainbox /\ deferred' = deferred
  BY <1>1 DEF Tasks, Blocks, N, Kind
<1>6. TokenInv'
  BY <1>2, <1>5 DEF TokenInv
<1>7. Rest' = Rest
  BY <1>5 DEF Rest
<1>8. active = Cardinality(Rest) /\ (blockError <=> \E b \in Blocks \ Rest : failed[b])
  BY <1>1 DEF IndInv, CountInv, Aborted
<1>9. Rest = {}
  <2>1. IsFiniteSet(Rest)
    <3>1. Rest \in SUBSET Blocks
      BY DEF Rest
    <3> QED
      BY <1>2, <3>1, BlocksFinite
  <2> QED
    BY <1>1, <1>8, <2>1, FS_EmptySet
<1>10. CountInv'
  BY <1>1, <1>5, <1>7, <1>8 DEF CountInv
<1>11. ReturnInv'
  BY <1>1, <1>7, <1>9 DEF ReturnInv
<1> QED
  BY <1>4, <1>6, <1>10, <1>11 DEF IndInv

\* MainLoop
LEMMA MainLoopStep ==
  ASSUME IndInv, MainLoop
  PROVE  IndInv'
<1>1. /\ UNCHANGED Tasks /\ UNCHANGED <<deferred, mpc>> /\ mpc = "loop"
      /\ mainbox.queue # <<>> /\ mainbox' = Pop(mainbox) /\ mainout = <<>>
  BY DEF MainLoop, Tasks, blockVars, MainAt, MainTake
<1>2. /\ mainout \in Seq(Sends) /\ Orders(mainout) /\ blockError \in BOOLEAN /\ job \in Jobs
      /\ mainbox.queue \in Seq(MainMsgs) /\ fg \in Flowgraphs
  BY DEF IndInv, TypeInv
<1>3. mainbox'.queue = Tail(mainbox.queue) /\ mpc \notin Aborted /\ mpc \notin {"retOk", "retErr"}
  BY <1>1 DEF Pop, Aborted
<1>4. PICK m : m = Head(mainbox.queue)
  OBVIOUS
<1>5. m \in MainMsgs
  BY <1>1, <1>2, <1>4, HeadTailProperties
<1>6. CASE m.type \in {"BlockDone", "BlockError"}
  <2>1. /\ active' = active - 1 /\ UNCHANGED job
        /\ m.type = "BlockDone" => UNCHANGED <<mainout, blockError>>
        /\ m.type = "BlockError" =>
             /\ blockError' = TRUE
             /\ mainout' = <<Send(Main, FromMain, ToMain("Terminate", 0))>>
    BY <1>4, <1>6 DEF MainLoop, MainMessage, CountError
  <2>2. PICK o : o = mainout'
    OBVIOUS
  <2>3. o \in Seq(Sends) /\ Orders(o)
    BY <1>2, <1>6, <2>1, <2>2, TerminateIsNoEnd
  <2>4. m.type \in EndTypes /\ blockError' = (blockError \/ m.type = "BlockError")
    BY <1>2, <1>6, <2>1 DEF EndTypes
  <2> QED
    BY <1>1, <1>2, <1>3, <1>4, <2>1, <2>2, <2>3, <2>4, MainCounts
<1>7. CASE m.type \notin {"BlockDone", "BlockError"}
  <2>1. m.type \notin EndTypes /\ UNCHANGED <<active, blockError>>
    BY <1>4, <1>7 DEF MainLoop, MainMessage, EndTypes
  <2>2. PICK o : o = mainout'
    OBVIOUS
  <2>3. PICK j : j = job'
    OBVIOUS
  <2>4. o \in Seq(Sends) /\ Orders(o) /\ j \in Jobs
    <3>1. CASE m.type \in {"BlockCall", "BlockCallback", "BlockDescription"} /\ m.block \in Blocks
      <4>1. PICK msg : msg = CASE m.type = "BlockCall" -> "Call"
                               [] m.type = "BlockCallback" -> "Callback"
                               [] OTHER -> "BlockDescription"
        OBVIOUS
      <4>2. PICK c : c = m.block
        OBVIOUS
      <4>3. c \in Nat \ {0} /\ msg \in BlockMsgs
        BY <1>2, <3>1, <4>1, <4>2, BlocksFinite DEF BlockMsgs
      <4>4. o = <<Send(c, FromMain, msg)>> /\ j = [type |-> m.type, client |-> m.client, rest |-> <<>>]
        BY <1>4, <2>2, <2>3, <3>1, <4>1, <4>2 DEF MainLoop, MainMessage
      <4>5. j \in Jobs
        BY <1>5, <3>1, <4>4 DEF Jobs, MainMsgs, RequestTypes
      <4> QED
        BY <4>3, <4>4, <4>5, OneOrder
    <3>2. CASE m.type = "FlowgraphDescription"
      <4>1. PICK r : r = [i \in 1..(N - 1) |-> i + 1]
        OBVIOUS
      <4>2. N \in Nat \ {0}
        BY <1>2, RuntimeAssumption DEF WellFormed, N, Kind
      <4>3. r \in Seq(Nat \ {0})
        <5>1. N - 1 \in Nat
          BY <4>2, SMT
        <5>2. r \in [1..(N - 1) -> Nat \ {0}]
          BY <4>1, <5>1, SMT
        <5> QED
          BY <5>1, <5>2, SeqDef
      <4>4. /\ o = <<Send(1, FromMain, "BlockDescription")>>
            /\ j = [[type |-> m.type, client |-> m.client, rest |-> <<>>] EXCEPT !.rest = r]
        BY <1>4, <2>2, <2>3, <3>2, <4>1 DEF MainLoop, MainMessage
      <4>5. j = [type |-> m.type, client |-> m.client, rest |-> r]
        BY <4>4
      <4>6. j \in Jobs
        BY <1>5, <3>2, <4>3, <4>5 DEF Jobs, MainMsgs, RequestTypes
      <4>7. 1 \in Nat \ {0} /\ "BlockDescription" \in BlockMsgs
        BY DEF BlockMsgs
      <4> QED
        BY <4>4, <4>6, <4>7, OneOrder
    <3>3. CASE m.type = "Terminate"
      <4>1. (o = <<>> \/ o = ToAll("Terminate")) /\ j = job
        BY <1>4, <2>2, <2>3, <3>3 DEF MainLoop, MainMessage
      <4>2. <<>> \in Seq(Sends) /\ Orders(<<>>)
        BY AwayNone, AwayConcat
      <4>3. ToAll("Terminate") \in Seq(Sends) /\ Away(ToAll("Terminate"))
        BY <1>2, ToAllAway DEF BlockMsgs
      <4> QED
        BY <1>2, <4>1, <4>2, <4>3, AwayConcat
    <3>4. CASE \/ m.type \in {"BlockCall", "BlockCallback", "BlockDescription"} /\ m.block \notin Blocks
               \/ m.type = "Initialized"
      <4>1. o = mainout /\ j = job
        BY <1>4, <2>2, <2>3, <3>4 DEF MainLoop, MainMessage
      <4> QED
        BY <1>2, <4>1
    <3>5. m.type \in {"BlockCall", "BlockCallback", "BlockDescription", "FlowgraphDescription",
                      "Terminate", "Initialized"}
      BY <1>5, <1>7 DEF MainMsgs, EndTypes, RequestTypes
    <3> QED
      BY <3>1, <3>2, <3>3, <3>4, <3>5
  <2> QED
    BY <1>1, <1>3, <1>4, <2>1, <2>2, <2>3, <2>4, MainDrops
<1> QED
  BY <1>6, <1>7

\* MainAnswer
LEMMA MainAnswerStep ==
  ASSUME IndInv, MainAnswer
  PROVE  IndInv'
<1>1. UNCHANGED Tasks /\ UNCHANGED <<mainbox, deferred, active, blockError, mpc>>
  BY DEF MainAnswer, Tasks, blockVars
<1>2. mainout \in Seq(Sends) /\ Orders(mainout) /\ job \in Jobs
  BY DEF IndInv, TypeInv
<1>3. NoJob \in Jobs
  BY DEF NoJob, Jobs
<1>4. CASE job' = NoJob /\ UNCHANGED mainout
  BY <1>1, <1>2, <1>3, <1>4, MainIdles
<1>5. CASE /\ job.rest # <<>> /\ job' = [job EXCEPT !.rest = Tail(@)]
           /\ mainout' = <<Send(Head(job.rest), FromMain, "BlockDescription")>>
  <2>1. PICK r : r = job.rest
    OBVIOUS
  <2>2. r \in Seq(Nat \ {0}) /\ r # <<>>
    BY <1>2, <1>5, <2>1 DEF Jobs
  <2>3. Head(r) \in Nat \ {0} /\ Tail(r) \in Seq(Nat \ {0})
    BY <2>2, HeadTailProperties
  <2>4. job' \in Jobs
    BY <1>2, <1>5, <2>1, <2>3 DEF Jobs
  <2>5. PICK b \in Nat \ {0} : b = Head(r)
    BY <2>3
  <2>6. PICK o : o = <<Send(b, FromMain, "BlockDescription")>>
    OBVIOUS
  <2>7. o \in Seq(Sends) /\ Orders(o)
    BY <2>6, OneOrder DEF BlockMsgs
  <2>8. mainout' = o
    BY <1>5, <2>1, <2>5, <2>6
  <2> QED
    BY <1>1, <2>4, <2>7, <2>8, MainIdles
<1> QED
  BY <1>4, <1>5 DEF MainAnswer

-----------------------------------------------------------------------------
(* The users of a handle, and the whole                                    *)

\* ClientAsk: a request is nobody's end.
LEMMA ClientAskStep ==
  ASSUME IndInv, NEW c \in Clients, NEW r \in Requests[c], ClientAsk(c, r)
  PROVE  IndInv'
<1>1. UNCHANGED Tasks /\ UNCHANGED <<deferred, mainout, job, active, blockError, mpc>>
  BY DEF ClientAsk, Tasks, blockVars, mainVars
<1>2. mainout \in Seq(Sends) /\ Orders(mainout) /\ job' \in Jobs /\ fg \in Flowgraphs
  BY <1>1 DEF IndInv, TypeInv
<1>3. PICK m : m = [type |-> r[1], block |-> r[2], client |-> c]
  OBVIOUS
<1>4. m \in MainMsgs /\ m.type \notin EndTypes
  <2>1. r \in RequestTypes \X Nat
    BY <1>2, RuntimeAssumption DEF WellFormed, Requests
  <2>2. r[1] \in RequestTypes /\ r[2] \in Nat
    BY <2>1
  <2> QED
    BY <1>3, <2>2 DEF MainMsgs, RequestTypes, EndTypes
<1>5. UNCHANGED mainbox \/ mainbox' = Push(mainbox, Via(c), m, QueueSize)
  BY <1>3 DEF ClientAsk
<1>6. CASE UNCHANGED mainbox
  BY <1>1, <1>2, <1>6, MainIdles
<1>7. CASE mainbox' = Push(mainbox, Via(c), m, QueueSize)
  <2>1. mainbox'.queue = Append(mainbox.queue, m)
    BY <1>7 DEF Push
  <2> QED
    BY <1>1, <1>2, <1>4, <2>1, MainGets
<1> QED
  BY <1>5, <1>6, <1>7

\* A step that neither run_flowgraph nor a block sees.
LEMMA Aside ==
  ASSUME IndInv, UNCHANGED <<mainbox, blockVars, mainVars>>
  PROVE  IndInv'
<1>1. UNCHANGED Tasks /\ UNCHANGED <<mainbox, deferred, mainout, job, active, blockError, mpc>>
  BY DEF Tasks, blockVars, mainVars
<1>2. mainout \in Seq(Sends) /\ Orders(mainout) /\ job' \in Jobs
  BY <1>1 DEF IndInv, TypeInv
<1> QED
  BY <1>1, <1>2, MainIdles

\* Every step.
LEMMA NextInd == IndInv /\ [Next]_vars => IndInv'
<1> SUFFICES ASSUME IndInv, [Next]_vars PROVE IndInv'
  OBVIOUS
<1>1. ASSUME NEW b \in Blocks, BlockNext(b) PROVE IndInv'
  BY <1>1, BlockStartStep, BlockSetupStep, BlockReceiveStep, BlockRunStep, BlockSendStep
  DEF BlockNext
<1>2. CASE MainNext
  BY <1>2, MainSendStep, MainPhaseStep, MainWaitInitStep, MainRequeueStep, MainStartedStep,
     MainReturnStep, MainLoopStep, MainAnswerStep DEF MainNext
<1>3. ASSUME NEW c \in Clients, ClientNext(c) PROVE IndInv'
  <2>1. CASE ClientFlushed(c)
    BY <2>1, Aside DEF ClientFlushed
  <2>2. CASE \E r \in Requests[c] : ClientAsk(c, r)
    BY <2>2, ClientAskStep
  <2> QED
    BY <1>3, <2>1, <2>2 DEF ClientNext
<1>4. CASE Quiet \/ UNCHANGED vars
  BY <1>4, Aside DEF Quiet, vars
<1> QED
  BY <1>1, <1>2, <1>3, <1>4 DEF Next

\* The inductive invariant holds in every run: the end of a block is at one
\* place only until run_flowgraph (runtime.rs) counts it, and then once.
THEOREM Inductive == Spec => []IndInv
<1>1. Init => IndInv
  BY InitInd
<1>2. IndInv /\ [Next]_vars => IndInv'
  BY NextInd
<1> QED
  BY <1>1, <1>2, PTL DEF Spec

\* active_blocks of run_flowgraph is exact in every run: it is the number of
\* blocks whose end has not been counted.
THEOREM ActiveExactHolds == Spec => []ActiveExact
<1>1. IndInv => ActiveExact
  <2> SUFFICES ASSUME IndInv, mpc \notin {"aborted", "abortedInit"}
               PROVE  active = Cardinality({b \in Blocks : Uncounted(b)})
    BY DEF ActiveExact
  <2>1. mainbox.queue \in Seq(MainMsgs) /\ deferred \in Seq(MainMsgs)
    BY DEF IndInv, TypeInv
  <2>2. /\ DOMAIN mainbox.queue = 1..Len(mainbox.queue) /\ DOMAIN deferred = 1..Len(deferred)
        /\ \A b \in Blocks : DOMAIN outbox[b] = 1..Len(outbox[b])
    BY <2>1, LenProperties DEF IndInv, TypeInv
  <2>3. \A b \in Blocks :
          Uncounted(b) <=> Open(pc[b], outbox[b], mainbox.queue, deferred, b)
    BY <2>2 DEF Uncounted, Open, Unsent, Ended, IsEnd, EndTypes
  <2>4. {b \in Blocks : Uncounted(b)} = Rest
    BY <2>3 DEF Rest
  <2> QED
    BY <2>4 DEF IndInv, CountInv, Aborted
<1> QED
  BY <1>1, Inductive, PTL

\* run_flowgraph returns only after every block has ended, and with an error
\* exactly if one has failed.
THEOREM ResultHonestHolds == Spec => []ResultHonest
<1>1. IndInv => ResultHonest
  <2> SUFFICES ASSUME IndInv, mpc \in {"retOk", "retErr"}
               PROVE  /\ \A b \in Blocks : pc[b] = "done"
                      /\ mpc = "retErr" <=> \E b \in Blocks : failed[b]
    BY DEF ResultHonest
  <2>1. Rest = {} /\ (mpc = "retErr" <=> blockError)
    BY DEF IndInv, ReturnInv
  <2>2. blockError <=> \E b \in Blocks : failed[b]
    BY <2>1 DEF IndInv, CountInv, Aborted
  <2>3. \A b \in Blocks : pc[b] = "done"
    BY <2>1 DEF Rest, Open
  <2> QED
    BY <2>1, <2>2, <2>3
<1> QED
  BY <1>1, Inductive, PTL
=============================================================================
