------------------------ MODULE FlowgraphStartProofs ------------------------
(***************************************************************************)
(* A flowgraph starts together, for every flowgraph and every size of the  *)
(* inboxes: run_flowgraph() (src/src/runtime/runtime.rs) leaves its init   *)
(* phase when every block has been initialized or has failed to, and no    *)
(* block calls work() before.                                              *)
(*                                                                         *)
(* The first word of a block, Initialized or BlockError, is a token, like  *)
(* its end: it is due until it is said, and then at one place only until   *)
(* it is taken off the count of blocks to wait for.  The message that a    *)
(* block waits for in its setup phase, Initialize, is another one, in the  *)
(* opposite direction.                                                     *)
(***************************************************************************)
EXTENDS FlowgraphRuntimeProofs

Initializing == mpc \in {"sendInit", "waitInit"}
Setup == {"start", "setup"}
FirstTypes == {"Initialized", "BlockError"}

\* m is the first word of block b; the queue q holds it, at one place only.
IsFirst(m, b) == m.type \in FirstTypes /\ m.block = b
Said(q, b) == \E i \in 1..Len(q) : IsFirst(q[i], b)
SaidOnce(q, b) == \A i, j \in 1..Len(q) : IsFirst(q[i], b) /\ IsFirst(q[j], b) => i = j

\* The first word is still in the outbox s.  What a block sends to run_flowgraph
\* is about itself, and comes last.
Saying(s) == \E i \in 1..Len(s) : ~s[i].pushed /\ s[i].to = Main /\ s[i].msg.type \in FirstTypes
Speaks(s, b) == \A i \in 1..Len(s) : s[i].to = Main => i = Len(s) /\ s[i].msg.block = b

\* Where the first word of block b is, if its task is at p with the outbox s and
\* the inbox of run_flowgraph is q; and that it has not been counted.
First(p, s, q, b) ==
    /\ SaidOnce(q, b) /\ Speaks(s, b)
    /\ p \in Setup => s = <<>> /\ ~Said(q, b)
    /\ Saying(s) => ~Said(q, b)
Silent(p, s, q, b) == p \in Setup \/ Saying(s) \/ Said(q, b)

\* The first words in q are words of blocks in B.
Speakers(q, B) == \A i \in 1..Len(q) : q[i].type \in FirstTypes => q[i].block \in B

Waited == {b \in Blocks : Silent(pc[b], outbox[b], mainbox.queue, b)}

FirstInv ==
    /\ \A b \in Blocks : First(pc[b], outbox[b], mainbox.queue, b)
    /\ Speakers(mainbox.queue, Blocks)
    /\ initLeft = Cardinality(Waited)

\* Every block is behind its setup phase.
Settled == \A b \in Blocks : pc[b] \notin Setup

StartInv ==
    NoEarlyPosts \/ OnlyInitFails => (Initializing => FirstInv) /\ (~Initializing => Settled)

\* The messages of s that are still to be pushed are for different blocks.
Due(s, b) == \E i \in 1..Len(s) : ~s[i].pushed /\ s[i].to = b
DueOnce(s) == \A i, j \in 1..Len(s) : ~s[i].pushed /\ ~s[j].pushed /\ s[i].to = s[j].to => i = j

\* A block gets one message, and sends to nobody but run_flowgraph, if its task is
\* at p with the outbox s and the inbox q, and run_flowgraph is about to send o.
Calm(p, s, q, o, b) ==
    /\ p \in Setup \cup {"loop", "done"}
    /\ \A i \in 1..Len(s) : s[i].to = Main
    /\ Len(q) <= 1
    /\ q # <<>> => ~Due(o, b)
    /\ p = "loop" => q = <<>> /\ ~Due(o, b)

Notes == BlockMsgs \cup {"ok", "err"}
AllCalm ==
    /\ \A b \in Blocks :
          io[b] = FreshIo /\ Calm(pc[b], outbox[b], inbox[b].queue, mainout, b)
    /\ DOMAIN inbox = Blocks /\ \A b \in Blocks : inbox[b].queue \in Seq(Notes)
    /\ DueOnce(mainout) /\ Away(mainout)

CalmInv == NoEarlyPosts /\ Initializing => AllCalm

BeginInv == StartInv /\ CalmInv

-----------------------------------------------------------------------------
(* First words in queues                                                   *)

\* A message behind the others.
LEMMA SaidAppend ==
  ASSUME NEW q \in Seq(MainMsgs), NEW m \in MainMsgs, NEW b
  PROVE  /\ Said(Append(q, m), b) <=> Said(q, b) \/ IsFirst(m, b)
         /\ SaidOnce(q, b) /\ (IsFirst(m, b) => ~Said(q, b)) => SaidOnce(Append(q, m), b)
<1>1. PICK t : t = Append(q, m)
  OBVIOUS
<1>2. /\ Len(q) \in Nat /\ Len(t) = Len(q) + 1
      /\ \A i \in 1..Len(q) : t[i] = q[i]
      /\ t[Len(q) + 1] = m
  BY <1>1, AppendProperties, LenProperties
<1>3. \A i : i \in 1..Len(t) <=> i \in 1..Len(q) \/ i = Len(q) + 1
  BY <1>2, SMT
<1>4. Said(t, b) <=> Said(q, b) \/ IsFirst(m, b)
  BY <1>2, <1>3 DEF Said
<1>5. ASSUME SaidOnce(q, b), IsFirst(m, b) => ~Said(q, b) PROVE SaidOnce(t, b)
  <2> SUFFICES ASSUME NEW i \in 1..Len(t), NEW j \in 1..Len(t),
                      IsFirst(t[i], b), IsFirst(t[j], b)
               PROVE  i = j
    BY DEF SaidOnce
  <2>1. CASE i \in 1..Len(q) /\ j \in 1..Len(q)
    BY <1>2, <1>5, <2>1 DEF SaidOnce
  <2>2. CASE i = Len(q) + 1 /\ j \in 1..Len(q)
    BY <1>2, <1>5, <2>2 DEF Said
  <2>3. CASE i \in 1..Len(q) /\ j = Len(q) + 1
    BY <1>2, <1>5, <2>3 DEF Said
  <2> QED
    BY <1>3, <2>1, <2>2, <2>3
<1> QED
  BY <1>1, <1>4, <1>5

\* The first message is taken.
LEMMA SaidTail ==
  ASSUME NEW q \in Seq(MainMsgs), q # <<>>, NEW b
  PROVE  /\ Said(q, b) <=> IsFirst(Head(q), b) \/ Said(Tail(q), b)
         /\ SaidOnce(q, b) => SaidOnce(Tail(q), b) /\ ~(IsFirst(Head(q), b) /\ Said(Tail(q), b))
<1>1. PICK t : t = Tail(q)
  OBVIOUS
<1>2. /\ Len(q) \in Nat \ {0} /\ Len(t) = Len(q) - 1 /\ Head(q) = q[1]
      /\ \A i \in 1..Len(t) : t[i] = q[i + 1]
  BY <1>1, HeadTailProperties, LenProperties
<1>3. /\ 1 \in 1..Len(q)
      /\ \A i \in 1..Len(t) : i + 1 \in 1..Len(q) /\ i + 1 # 1
      /\ \A i \in 1..Len(q) : i # 1 => i - 1 \in 1..Len(t) /\ (i - 1) + 1 = i
      /\ \A i, j \in 1..Len(t) : i + 1 = j + 1 => i = j
  BY <1>2, SMT
<1>4. Said(q, b) <=> IsFirst(Head(q), b) \/ Said(t, b)
  <2>1. ASSUME NEW i \in 1..Len(q), i # 1, IsFirst(q[i], b) PROVE Said(t, b)
    <3>1. i - 1 \in 1..Len(t) /\ t[i - 1] = q[i]
      BY <1>2, <1>3, <2>1
    <3> QED
      BY <2>1, <3>1 DEF Said
  <2>2. ASSUME Said(t, b) PROVE Said(q, b)
    BY <1>2, <1>3, <2>2 DEF Said
  <2>3. IsFirst(Head(q), b) => Said(q, b)
    BY <1>2, <1>3 DEF Said
  <2>4. ASSUME Said(q, b), ~Said(t, b) PROVE IsFirst(Head(q), b)
    <3>1. PICK i \in 1..Len(q) : IsFirst(q[i], b)
      BY <2>4 DEF Said
    <3> QED
      BY <1>2, <2>1, <2>4, <3>1
  <2> QED
    BY <2>2, <2>3, <2>4
<1>5. ASSUME SaidOnce(q, b) PROVE SaidOnce(t, b) /\ ~(IsFirst(Head(q), b) /\ Said(t, b))
  BY <1>2, <1>3, <1>5 DEF SaidOnce, Said
<1> QED
  BY <1>1, <1>4, <1>5

\* The speakers are blocks.
LEMMA SpeakersKept ==
  ASSUME NEW q \in Seq(MainMsgs), NEW B, Speakers(q, B)
  PROVE  /\ q # <<>> => /\ Speakers(Tail(q), B)
                        /\ Head(q).type \in FirstTypes => Head(q).block \in B
         /\ \A m \in MainMsgs : (m.type \in FirstTypes => m.block \in B)
                                   => Speakers(Append(q, m), B)
<1>1. ASSUME q # <<>>
      PROVE  Speakers(Tail(q), B) /\ (Head(q).type \in FirstTypes => Head(q).block \in B)
  <2>1. PICK t : t = Tail(q)
    OBVIOUS
  <2>2. /\ Len(q) \in Nat \ {0} /\ Len(t) = Len(q) - 1 /\ Head(q) = q[1]
        /\ \A i \in 1..Len(t) : t[i] = q[i + 1]
    BY <1>1, <2>1, HeadTailProperties, LenProperties
  <2>3. 1 \in 1..Len(q) /\ \A i \in 1..Len(t) : i + 1 \in 1..Len(q)
    BY <2>2, SMT
  <2> QED
    BY <2>1, <2>2, <2>3 DEF Speakers
<1>2. ASSUME NEW m \in MainMsgs, m.type \in FirstTypes => m.block \in B
      PROVE  Speakers(Append(q, m), B)
  <2>1. PICK t : t = Append(q, m)
    OBVIOUS
  <2>2. /\ Len(q) \in Nat /\ Len(t) = Len(q) + 1
        /\ \A i \in 1..Len(q) : t[i] = q[i]
        /\ t[Len(q) + 1] = m
    BY <2>1, AppendProperties, LenProperties
  <2>3. \A i \in 1..Len(t) : i \in 1..Len(q) \/ i = Len(q) + 1
    BY <2>2, SMT
  <2> QED
    BY <1>2, <2>1, <2>2, <2>3 DEF Speakers
<1> QED
  BY <1>1, <1>2

-----------------------------------------------------------------------------
(* First words, and Initialize, in outboxes                                *)

\* The outbox after its first message has been pushed, or flushed.
LEMMA MovedOutbox ==
  ASSUME NEW s \in Seq(Sends), s # <<>>
  PROVE  /\ Len(s) \in Nat \ {0} /\ Head(s) = s[1] /\ 1 \in 1..Len(s)
         /\ Len(Tail(s)) = Len(s) - 1
         /\ \A i \in 1..Len(Tail(s)) : Tail(s)[i] = s[i + 1] /\ i + 1 \in 1..Len(s)
         /\ Len(Marked(s)) = Len(s)
         /\ Marked(s)[1].to = s[1].to /\ Marked(s)[1].msg = s[1].msg /\ Marked(s)[1].pushed
         /\ \A i \in 1..Len(s) : i # 1 => Marked(s)[i] = s[i]
<1>1. PICK e \in Sends : e = Head(s)
  BY HeadTailProperties
<1>2. PICK t \in Seq(Sends) : t = Tail(s)
  BY HeadTailProperties
<1>3. PICK e1 : e1 = [e EXCEPT !.pushed = TRUE]
  OBVIOUS
<1>4. e1 \in Sends /\ e1.to = e.to /\ e1.msg = e.msg /\ e1.pushed
  BY <1>3 DEF Sends, Letters
<1>5. PICK u : u = <<e1>> \o t
  OBVIOUS
<1>6. u = Marked(s)
  BY <1>1, <1>2, <1>3, <1>5 DEF Marked
<1>7. /\ Len(s) \in Nat \ {0} /\ Len(t) = Len(s) - 1 /\ e = s[1]
      /\ \A i \in 1..Len(t) : t[i] = s[i + 1]
  BY <1>1, <1>2, HeadTailProperties, LenProperties
<1>8. <<e1>> \in Seq(Sends) /\ Len(<<e1>>) = 1 /\ <<e1>>[1] = e1
  BY <1>4
<1>9. /\ Len(u) = 1 + Len(t)
      /\ \A i \in 1..(1 + Len(t)) : u[i] = IF i <= 1 THEN <<e1>>[i] ELSE t[i - 1]
  BY <1>5, <1>8, ConcatProperties
<1>10. /\ 1 + Len(t) = Len(s) /\ 1 \in 1..Len(s) /\ 1 <= 1
       /\ \A i \in 1..Len(s) : i # 1 => ~(i <= 1) /\ i - 1 \in 1..Len(t) /\ (i - 1) + 1 = i
       /\ \A i \in 1..Len(t) : i + 1 \in 1..Len(s)
  BY <1>7, SMT
<1>11. Len(u) = Len(s) /\ u[1] = e1 /\ \A i \in 1..Len(s) : i # 1 => u[i] = s[i]
  BY <1>7, <1>8, <1>9, <1>10
<1> QED
  BY <1>1, <1>2, <1>4, <1>6, <1>7, <1>10, <1>11

\* The message to run_flowgraph is the last one.
LEMMA SpeaksMoved ==
  ASSUME NEW s \in Seq(Sends), s # <<>>, NEW b, Speaks(s, b)
  PROVE  /\ Speaks(Tail(s), b) /\ Speaks(Marked(s), b)
         /\ Saying(Marked(s)) <=> Saying(Tail(s))
         /\ Head(s).to # Main \/ Head(s).pushed => (Saying(s) <=> Saying(Tail(s)))
         /\ Head(s).to = Main =>
              /\ Head(s).msg.block = b /\ ~Saying(Tail(s))
              /\ ~Head(s).pushed => (Saying(s) <=> Head(s).msg.type \in FirstTypes)
<1>1. PICK t : t = Tail(s)
  OBVIOUS
<1>2. PICK u : u = Marked(s)
  OBVIOUS
<1>3. PICK n \in Nat \ {0} : n = Len(s)
  BY MovedOutbox
<1>4. /\ Head(s) = s[1] /\ 1 \in 1..n
      /\ Len(t) = n - 1
      /\ \A i \in 1..(n - 1) : t[i] = s[i + 1] /\ i + 1 \in 1..n
      /\ Len(u) = n
      /\ u[1].to = s[1].to /\ u[1].msg = s[1].msg /\ u[1].pushed
      /\ \A i \in 1..n : i # 1 => u[i] = s[i]
  BY <1>1, <1>2, <1>3, MovedOutbox
<1>5. \A i \in 1..n : s[i].to = Main => i = n /\ s[i].msg.block = b
  BY <1>3 DEF Speaks
<1>6. /\ \A i \in 1..n : i # 1 => i - 1 \in 1..(n - 1) /\ (i - 1) + 1 = i
      /\ \A i \in 1..(n - 1) : i + 1 \in 1..n /\ i + 1 # 1 /\ (i + 1 = n <=> i = n - 1)
  BY SMT
<1>7. Speaks(t, b)
  <2> SUFFICES ASSUME NEW i \in 1..(n - 1), t[i].to = Main PROVE i = n - 1 /\ t[i].msg.block = b
    BY <1>4 DEF Speaks
  <2>1. s[i + 1].to = Main /\ t[i] = s[i + 1] /\ i + 1 \in 1..n
    BY <1>4
  <2>2. i + 1 = n /\ s[i + 1].msg.block = b
    BY <1>5, <2>1
  <2> QED
    BY <1>6, <2>1, <2>2
<1>8. Speaks(u, b)
  <2> SUFFICES ASSUME NEW i \in 1..n, u[i].to = Main PROVE i = n /\ u[i].msg.block = b
    BY <1>4 DEF Speaks
  <2>1. s[i].to = Main /\ u[i].msg = s[i].msg
    BY <1>4
  <2> QED
    BY <1>5, <2>1
<1>9. Saying(t) <=>
        \E i \in 1..n : i # 1 /\ ~s[i].pushed /\ s[i].to = Main /\ s[i].msg.type \in FirstTypes
  <2>1. ASSUME Saying(t)
        PROVE  \E i \in 1..n : i # 1 /\ ~s[i].pushed /\ s[i].to = Main
                                 /\ s[i].msg.type \in FirstTypes
    <3>1. PICK i \in 1..(n - 1) : ~t[i].pushed /\ t[i].to = Main /\ t[i].msg.type \in FirstTypes
      BY <1>4, <2>1 DEF Saying
    <3> QED
      BY <1>4, <1>6, <3>1
  <2>2. ASSUME NEW i \in 1..n, i # 1, ~s[i].pushed, s[i].to = Main, s[i].msg.type \in FirstTypes
        PROVE  Saying(t)
    <3>1. t[i - 1] = s[i] /\ i - 1 \in 1..(n - 1)
      BY <1>4, <1>6, <2>2
    <3> QED
      BY <1>4, <2>2, <3>1 DEF Saying
  <2> QED
    BY <2>1, <2>2
<1>10. Saying(u) <=> Saying(t)
  <2>1. Saying(u) <=>
          \E i \in 1..n : i # 1 /\ ~s[i].pushed /\ s[i].to = Main /\ s[i].msg.type \in FirstTypes
    BY <1>4 DEF Saying
  <2> QED
    BY <1>9, <2>1
<1>11. Head(s).to # Main \/ Head(s).pushed => (Saying(s) <=> Saying(t))
  BY <1>3, <1>4, <1>9 DEF Saying
<1>12. ASSUME Head(s).to = Main
       PROVE  /\ Head(s).msg.block = b /\ ~Saying(t)
              /\ ~Head(s).pushed => (Saying(s) <=> Head(s).msg.type \in FirstTypes)
  <2>1. n = 1 /\ Head(s).msg.block = b
    BY <1>4, <1>5, <1>12
  <2>2. \A i \in 1..n : i = 1
    BY <2>1, SMT
  <2> QED
    BY <1>3, <1>4, <1>9, <1>12, <2>1, <2>2 DEF Saying
<1> QED
  BY <1>1, <1>2, <1>7, <1>8, <1>10, <1>11, <1>12

\* Messages to other blocks only.
LEMMA AwaySpeaks ==
  ASSUME NEW s \in Seq(Sends), Away(s), NEW b
  PROVE  Speaks(s, b) /\ ~Saying(s)
BY DEF Away, Speaks, Saying

\* The report of a block, possibly behind messages to other blocks.
LEMMA ReportSpeaks ==
  ASSUME NEW b, NEW type
  PROVE  LET r == <<SendToMain(type, b)>>
         IN  /\ Speaks(r, b) /\ (Saying(r) <=> type \in FirstTypes)
             /\ \A i \in 1..Len(r) : r[i].to = Main
<1>1. PICK e : e = SendToMain(type, b)
  OBVIOUS
<1>2. e.to = Main /\ e.pushed = FALSE /\ e.msg.type = type /\ e.msg.block = b
  BY <1>1 DEF SendToMain, Send, ToMain
<1>3. Len(<<e>>) = 1 /\ <<e>>[1] = e /\ \A i : i \in 1..1 <=> i = 1
  BY SMT
<1> QED
  BY <1>1, <1>2, <1>3 DEF Speaks, Saying

\* What init() posts to other blocks, and the report of the block behind it.
LEMMA PostsThenReport ==
  ASSUME NEW s \in Seq(Sends), Away(s), NEW b \in Nat
  PROVE  LET r == s \o <<SendToMain("Initialized", b)>>
         IN  Speaks(r, b) /\ Saying(r)
<1>1. PICK e : e = SendToMain("Initialized", b)
  OBVIOUS
<1>2. e.to = Main /\ e.pushed = FALSE /\ e.msg.type = "Initialized" /\ e.msg.block = b
  BY <1>1 DEF SendToMain, Send, ToMain
<1>3. <<e>> \in Seq(Sends) /\ Len(<<e>>) = 1 /\ <<e>>[1] = e
  BY <1>1, InitializedSent
<1>4. PICK r : r = s \o <<e>>
  OBVIOUS
<1>5. PICK n \in Nat : n = Len(s)
  BY LenProperties
<1>6. /\ Len(r) = n + 1
      /\ \A i \in 1..(n + 1) : r[i] = IF i <= n THEN s[i] ELSE <<e>>[i - n]
  BY <1>3, <1>4, <1>5, ConcatProperties
<1>7. /\ n + 1 \in 1..(n + 1) /\ ~(n + 1 <= n) /\ (n + 1) - n = 1
      /\ \A i \in 1..(n + 1) : i # n + 1 => i <= n /\ i \in 1..n
  BY SMT
<1>8. r[n + 1] = e /\ \A i \in 1..(n + 1) : i # n + 1 => r[i] = s[i] /\ s[i].to # Main
  BY <1>3, <1>5, <1>6, <1>7 DEF Away
<1>9. Speaks(r, b) /\ Saying(r)
  BY <1>2, <1>6, <1>7, <1>8 DEF Speaks, Saying, FirstTypes
<1> QED
  BY <1>1, <1>4, <1>9

\* What run_flowgraph has still to send.
LEMMA DueMoved ==
  ASSUME NEW s \in Seq(Sends), s # <<>>, DueOnce(s), Away(s), NEW o \in {Tail(s), Marked(s)}
  PROVE  /\ DueOnce(o) /\ Away(o)
         /\ \A b : Due(o, b) => Due(s, b)
         /\ Head(s).to # Main
         /\ ~Head(s).pushed => Due(s, Head(s).to) /\ ~Due(o, Head(s).to)
<1>1. PICK n \in Nat \ {0} : n = Len(s)
  BY MovedOutbox
<1>2. PICK t : t = Tail(s)
  OBVIOUS
<1>3. PICK u : u = Marked(s)
  OBVIOUS
<1>4. /\ Head(s) = s[1] /\ 1 \in 1..n
      /\ Len(t) = n - 1
      /\ \A i \in 1..(n - 1) : t[i] = s[i + 1] /\ i + 1 \in 1..n
      /\ Len(u) = n
      /\ u[1].to = s[1].to /\ u[1].pushed
      /\ \A i \in 1..n : i # 1 => u[i] = s[i]
  BY <1>1, <1>2, <1>3, MovedOutbox
<1>5. /\ \A i, j \in 1..n : ~s[i].pushed /\ ~s[j].pushed /\ s[i].to = s[j].to => i = j
      /\ \A i \in 1..n : s[i].to # Main
  BY <1>1 DEF DueOnce, Away
<1>6. /\ \A i \in 1..(n - 1) : i + 1 # 1
      /\ \A i, j \in 1..(n - 1) : i + 1 = j + 1 => i = j
  BY SMT
<1>7. Head(s).to # Main /\ (~Head(s).pushed => Due(s, Head(s).to))
  BY <1>1, <1>4, <1>5 DEF Due
<1>8. CASE o = t
  <2>1. DueOnce(o)
    <3> SUFFICES ASSUME NEW i \in 1..(n - 1), NEW j \in 1..(n - 1), ~t[i].pushed, ~t[j].pushed,
                        t[i].to = t[j].to
                 PROVE  i = j
      BY <1>4, <1>8 DEF DueOnce
    <3>1. i + 1 = j + 1
      BY <1>4, <1>5
    <3> QED
      BY <1>6, <3>1
  <2>2. Away(o)
    BY <1>4, <1>5, <1>8 DEF Away
  <2>3. ASSUME NEW b, Due(o, b)
        PROVE  \E i \in 1..n : i # 1 /\ ~s[i].pushed /\ s[i].to = b
    <3>1. PICK i \in 1..(n - 1) : ~t[i].pushed /\ t[i].to = b
      BY <1>4, <1>8, <2>3 DEF Due
    <3> QED
      BY <1>4, <1>6, <3>1
  <2>4. \A b : Due(o, b) => Due(s, b)
    BY <1>1, <2>3 DEF Due
  <2>5. ~Head(s).pushed => ~Due(o, Head(s).to)
    BY <1>4, <1>5, <2>3
  <2> QED
    BY <1>7, <2>1, <2>2, <2>4, <2>5
<1>9. CASE o = u
  <2>1. DueOnce(o)
    BY <1>4, <1>5, <1>9 DEF DueOnce
  <2>2. Away(o)
    BY <1>4, <1>5, <1>9 DEF Away
  <2>3. ASSUME NEW b, Due(o, b)
        PROVE  \E i \in 1..n : i # 1 /\ ~s[i].pushed /\ s[i].to = b
    BY <1>4, <1>9, <2>3 DEF Due
  <2>4. \A b : Due(o, b) => Due(s, b)
    BY <1>1, <2>3 DEF Due
  <2>5. ~Head(s).pushed => ~Due(o, Head(s).to)
    BY <1>4, <1>5, <2>3
  <2> QED
    BY <1>7, <2>1, <2>2, <2>4, <2>5
<1> QED
  BY <1>2, <1>3, <1>8, <1>9

\* What a block sends to run_flowgraph only.
LEMMA ToMainMoved ==
  ASSUME NEW s \in Seq(Sends), s # <<>>, \A i \in 1..Len(s) : s[i].to = Main,
         NEW o \in {Tail(s), Marked(s)}
  PROVE  Head(s).to = Main /\ \A i \in 1..Len(o) : o[i].to = Main
<1>1. PICK n \in Nat \ {0} : n = Len(s)
  BY MovedOutbox
<1>2. PICK t : t = Tail(s)
  OBVIOUS
<1>3. PICK u : u = Marked(s)
  OBVIOUS
<1>4. /\ Head(s) = s[1] /\ 1 \in 1..n
      /\ Len(t) = n - 1
      /\ \A i \in 1..(n - 1) : t[i] = s[i + 1] /\ i + 1 \in 1..n
      /\ Len(u) = n
      /\ u[1].to = s[1].to
      /\ \A i \in 1..n : i # 1 => u[i] = s[i]
  BY <1>1, <1>2, <1>3, MovedOutbox
<1>5. (\A i \in 1..Len(t) : t[i].to = Main) /\ \A i \in 1..Len(u) : u[i].to = Main
  BY <1>1, <1>4
<1> QED
  BY <1>1, <1>2, <1>3, <1>4, <1>5

-----------------------------------------------------------------------------
(* The first words in the init phase                                       *)

\* A step that leaves every first word due, said or counted as it was.
LEMMA NothingSaid ==
  ASSUME IndInv, FirstInv, UNCHANGED <<fg, initLeft>>,
         NEW q, mainbox'.queue = q, Speakers(q, Blocks),
         \A c \in Blocks : /\ First(pc'[c], outbox'[c], q, c)
                           /\ Silent(pc'[c], outbox'[c], q, c)
                                <=> Silent(pc[c], outbox[c], mainbox.queue, c)
  PROVE  FirstInv'
<1>1. Blocks' = Blocks
  BY DEF Blocks, N, Kind
<1>2. Waited' = Waited
  BY <1>1 DEF Waited
<1>3. initLeft' = Cardinality(Waited')
  BY <1>2 DEF FirstInv
<1>4. \A c \in Blocks' : First(pc'[c], outbox'[c], mainbox'.queue, c)
  BY <1>1
<1>5. Speakers(mainbox'.queue, Blocks')
  BY <1>1
<1> QED
  BY <1>3, <1>4, <1>5, Zenon DEF FirstInv

\* A step of block b's task that takes it to p and leaves it the outbox s.
LEMMA TaskSays ==
  ASSUME IndInv, FirstInv, NEW b \in Blocks, UNCHANGED <<fg, initLeft, mainbox>>,
         NEW p, NEW s, pc' = [pc EXCEPT ![b] = p], outbox' = [outbox EXCEPT ![b] = s],
         First(p, s, mainbox.queue, b),
         Silent(p, s, mainbox.queue, b) <=> Silent(pc[b], outbox[b], mainbox.queue, b)
  PROVE  FirstInv'
<1>1. /\ pc'[b] = p /\ outbox'[b] = s
      /\ \A c \in Blocks : c # b => pc'[c] = pc[c] /\ outbox'[c] = outbox[c]
  BY DEF IndInv, TypeInv
<1>2. PICK q : q = mainbox.queue
  OBVIOUS
<1>3. ASSUME NEW c \in Blocks
      PROVE  /\ First(pc'[c], outbox'[c], q, c)
             /\ Silent(pc'[c], outbox'[c], q, c) <=> Silent(pc[c], outbox[c], mainbox.queue, c)
  <2>1. CASE c = b
    BY <1>1, <1>2, <2>1
  <2>2. CASE c # b
    BY <1>1, <1>2, <2>2 DEF FirstInv
  <2> QED
    BY <2>1, <2>2
<1>4. mainbox'.queue = q /\ Speakers(q, Blocks)
  BY <1>2 DEF FirstInv
<1> QED
  BY <1>3, <1>4, NothingSaid

\* A block that has its first word to say.
LEMMA FirstDue ==
  ASSUME IndInv, FirstInv, NEW b \in Blocks, pc[b] \in Setup, UNCHANGED <<fg, initLeft, mainbox>>,
         NEW p, NEW s, pc' = [pc EXCEPT ![b] = p], outbox' = [outbox EXCEPT ![b] = s],
         p \in Setup => s = <<>>, p \notin Setup => Speaks(s, b) /\ Saying(s)
  PROVE  FirstInv'
<1>1. First(pc[b], outbox[b], mainbox.queue, b)
  BY DEF FirstInv
<1>2. SaidOnce(mainbox.queue, b) /\ ~Said(mainbox.queue, b)
  BY <1>1 DEF First
<1>3. Speaks(<<>>, b) /\ ~Saying(<<>>)
  BY AwayNone, AwaySpeaks
<1>4. First(p, s, mainbox.queue, b)
  BY <1>2, <1>3 DEF First
<1>5. Silent(p, s, mainbox.queue, b) /\ Silent(pc[b], outbox[b], mainbox.queue, b)
  BY DEF Silent
<1> QED
  BY <1>4, <1>5, TaskSays

\* A block that has nothing to say to run_flowgraph but its end.
LEMMA SaysNothing ==
  ASSUME IndInv, FirstInv, NEW b \in Blocks, pc[b] \notin Setup, outbox[b] = <<>>,
         UNCHANGED <<fg, initLeft, mainbox>>,
         NEW p, NEW s, pc' = [pc EXCEPT ![b] = p], outbox' = [outbox EXCEPT ![b] = s],
         p \notin Setup, Speaks(s, b), ~Saying(s)
  PROVE  FirstInv'
<1>1. First(pc[b], outbox[b], mainbox.queue, b)
  BY DEF FirstInv
<1>2. SaidOnce(mainbox.queue, b)
  BY <1>1 DEF First
<1>3. ~Saying(<<>>)
  BY AwayNone, AwaySpeaks
<1>4. First(p, s, mainbox.queue, b)
  BY <1>2 DEF First
<1>5. Silent(p, s, mainbox.queue, b) <=> Silent(pc[b], outbox[b], mainbox.queue, b)
  BY <1>3 DEF Silent
<1> QED
  BY <1>4, <1>5, TaskSays

\* BlockStart
LEMMA StartSays ==
  ASSUME IndInv, FirstInv, NEW b \in Blocks, BlockStart(b)
  PROVE  FirstInv'
<1>1. pc[b] \in Setup /\ outbox[b] = <<>> /\ UNCHANGED <<fg, initLeft, mainbox>>
  BY DEF BlockStart, Running, Setup, mainVars
<1>2. CASE Valid(b)
  <2>1. pc' = [pc EXCEPT ![b] = "setup"] /\ outbox' = [outbox EXCEPT ![b] = <<>>]
    BY <1>1, <1>2 DEF BlockStart, IndInv, TypeInv
  <2>2. "setup" \in Setup
    BY DEF Setup
  <2> QED
    BY <1>1, <2>1, <2>2, FirstDue
<1>3. CASE Fail(b)
  <2>1. PICK s : s = <<SendToMain("BlockError", b)>>
    OBVIOUS
  <2>2. Speaks(s, b) /\ Saying(s) /\ "done" \notin Setup
    BY <2>1, ReportSpeaks DEF FirstTypes, Setup
  <2>3. pc' = [pc EXCEPT ![b] = "done"] /\ outbox' = [outbox EXCEPT ![b] = s]
    BY <1>3, <2>1 DEF Fail
  <2> QED
    BY <1>1, <2>2, <2>3, FirstDue
<1> QED
  BY <1>2, <1>3 DEF BlockStart

\* BlockSetup
LEMMA SetupSays ==
  ASSUME IndInv, FirstInv, NEW b \in Blocks, BlockSetup(b)
  PROVE  FirstInv'
<1>1. /\ pc[b] = "setup" /\ outbox[b] = <<>> /\ UNCHANGED <<fg, initLeft, mainbox>>
      /\ fg \in Flowgraphs
  BY DEF BlockSetup, Running, mainVars, IndInv, TypeInv
<1>2. pc[b] \in Setup /\ "setup" \in Setup /\ "done" \notin Setup /\ "loop" \notin Setup
  BY <1>1 DEF Setup
<1>3. CASE UNCHANGED <<pc, outbox>>
  <2>1. pc' = [pc EXCEPT ![b] = "setup"] /\ outbox' = [outbox EXCEPT ![b] = <<>>]
    BY <1>1, <1>3 DEF IndInv, TypeInv
  <2> QED
    BY <1>1, <1>2, <2>1, FirstDue
<1>4. CASE Fail(b)
  <2>1. PICK s : s = <<SendToMain("BlockError", b)>>
    OBVIOUS
  <2>2. Speaks(s, b) /\ Saying(s)
    BY <2>1, ReportSpeaks DEF FirstTypes
  <2>3. pc' = [pc EXCEPT ![b] = "done"] /\ outbox' = [outbox EXCEPT ![b] = s]
    BY <1>4, <2>1 DEF Fail
  <2> QED
    BY <1>1, <1>2, <2>2, <2>3, FirstDue
<1>5. CASE /\ pc' = [pc EXCEPT ![b] = "loop"]
           /\ outbox' = [outbox EXCEPT ![b] =
                          (IF InitPost[b] = "none" THEN <<>> ELSE Posts(b, 1, InitPost[b]))
                            \o <<SendToMain("Initialized", b)>>]
  <2>1. PICK s : s = IF InitPost[b] = "none" THEN <<>> ELSE Posts(b, 1, InitPost[b])
    OBVIOUS
  <2>2. s \in Seq(Sends) /\ Away(s)
    <3>1. CASE InitPost[b] = "none"
      BY <2>1, <3>1, AwayNone
    <3>2. CASE InitPost[b] # "none"
      <4>1. InitPost[b] \in BlockMsgs
        BY <1>1, <3>2, RuntimeAssumption DEF WellFormed, InitPost, BlockMsgs, Blocks, N, Kind
      <4> QED
        BY <1>1, <2>1, <3>2, <4>1, PostsAway
    <3> QED
      BY <3>1, <3>2
  <2>3. PICK r : r = s \o <<SendToMain("Initialized", b)>>
    OBVIOUS
  <2>4. Speaks(r, b) /\ Saying(r)
    BY <1>1, <2>2, <2>3, BlocksFinite, PostsThenReport
  <2>5. outbox' = [outbox EXCEPT ![b] = r]
    BY <1>5, <2>1, <2>3
  <2> QED
    BY <1>1, <1>2, <1>5, <2>4, <2>5, FirstDue
<1> QED
  BY <1>3, <1>4, <1>5 DEF BlockSetup

\* BlockReceive, BlockDrained, BlockTimer, BlockWork and BlockDeinit, where no
\* kernel fails behind its init().
LEMMA RunSays ==
  ASSUME IndInv, FirstInv, NEW b \in Blocks, OnlyInitFails,
         \/ BlockReceive(b) \/ BlockDrained(b) \/ BlockTimer(b) \/ BlockWork(b) \/ BlockDeinit(b)
  PROVE  FirstInv'
<1>1. /\ pc[b] \in {"loop", "work", "shutdown"} /\ outbox[b] = <<>>
      /\ UNCHANGED <<fg, initLeft, mainbox>> /\ fg \in Flowgraphs
  BY DEF BlockReceive, BlockDrained, BlockTimer, BlockWork, BlockDeinit, Running, mainVars,
         IndInv, TypeInv
<1>2. /\ pc[b] \notin Setup /\ {"loop", "work", "shutdown", "done"} \cap Setup = {}
      /\ failAt[b] \notin {"handler", "work", "deinit"}
  BY <1>1 DEF Setup, OnlyInitFails
<1>3. /\ outbox \in [Blocks -> Seq(Sends)] /\ pc \in [Blocks -> Pcs] /\ Linked(fg, b)
  BY <1>1, RunningLinked DEF IndInv, TypeInv
<1>4. ASSUME NEW p \in {"loop", "work", "shutdown"}, NEW s \in Seq(Sends), Away(s),
             pc' = [pc EXCEPT ![b] = p], outbox' = [outbox EXCEPT ![b] = s]
      PROVE  FirstInv'
  <2>1. p \notin Setup /\ Speaks(s, b) /\ ~Saying(s)
    BY <1>2, <1>4, AwaySpeaks
  <2> QED
    BY <1>1, <1>2, <1>4, <2>1, SaysNothing
<1>5. CASE BlockReceive(b)
  <2>1. PICK m : m = Message(b)
    OBVIOUS
  <2>2. PICK h : h = IF m \in {"Call", "CallFinished", "Callback"}
                     THEN Handler(b, m = "CallFinished") ELSE Idle(k[b])
    OBVIOUS
  <2>3. PICK n \in Nat : n = h.posts
    <3>1. PICK last \in BOOLEAN : last = (m = "CallFinished")
      OBVIOUS
    <3>2. Handler(b, last).posts \in Nat /\ Idle(k[b]).posts \in Nat
      BY PostsCounted
    <3>3. h = Handler(b, last) \/ h = Idle(k[b])
      BY <2>2, <3>1, Zenon
    <3>4. h.posts \in Nat
      BY <3>2, <3>3, Zenon
    <3> QED
      BY <3>4
  <2>4. failAt[b] # "handler"
    BY <1>2
  <2>5. /\ outbox' = [outbox EXCEPT ![b] = Posts(b, h.posts, "Call") \o Answers(b, m)]
        /\ UNCHANGED pc
    BY <1>5, <2>1, <2>2, <2>4, Zenon DEF BlockReceive
  <2>6. PICK s : s = Posts(b, n, "Call")
    OBVIOUS
  <2>7. s \in Seq(Sends) /\ Away(s)
    BY <1>1, <2>6, PostsAway DEF BlockMsgs
  <2>8. PICK u : u = Answers(b, m)
    OBVIOUS
  <2>9. u \in Seq(Sends) /\ Away(u)
    <3>1. PICK v : v = <<"oneshot", 0>>
      OBVIOUS
    <3>2. v \in Vias /\ N + 1 \in Nat \ {0}
      BY <1>1, <3>1, BlocksFinite DEF Vias
    <3>3. ASSUME NEW res \in {"ok", "err"} PROVE Answer(res) \in Letters
      BY <3>1, <3>2 DEF Answer, Letters
    <3>4. u = <<>> \/ u = <<Answer("ok")>> \/ u = <<Answer("err")>>
      BY <2>8 DEF Answers
    <3> QED
      BY <3>3, <3>4, AwayOne, AwayNone
  <2>10. s \o u \in Seq(Sends) /\ Away(s \o u)
    BY <2>7, <2>9, AwayConcat
  <2>11. outbox' = [outbox EXCEPT ![b] = s \o u] /\ pc' = [pc EXCEPT ![b] = "loop"]
    <3>1. pc[b] = "loop"
      BY <1>5 DEF BlockReceive, Running
    <3> QED
      BY <1>3, <2>3, <2>5, <2>6, <2>8, <3>1
  <2> QED
    BY <1>4, <2>10, <2>11
<1>6. CASE BlockDrained(b)
  <2>1. CASE io[b].finished
    <3>1. pc' = [pc EXCEPT ![b] = "shutdown"] /\ outbox' = [outbox EXCEPT ![b] = Farewells(b)]
      BY <1>6, <2>1 DEF BlockDrained
    <3> QED
      BY <1>1, <1>3, <1>4, <3>1, FarewellsAway
  <2>2. CASE ~io[b].finished
    <3>1. pc' = [pc EXCEPT ![b] = "work"] /\ outbox' = outbox
      BY <1>6, <2>2 DEF BlockDrained
    <3>2. outbox' = [outbox EXCEPT ![b] = <<>>]
      BY <1>1, <1>3, <3>1
    <3> QED
      BY <1>4, <3>1, <3>2, AwayNone
  <2> QED
    BY <2>1, <2>2
<1>7. CASE BlockTimer(b)
  <2>1. pc' = [pc EXCEPT ![b] = "work"] /\ outbox' = outbox
    BY <1>7 DEF BlockTimer
  <2>2. outbox' = [outbox EXCEPT ![b] = <<>>]
    BY <1>1, <1>3, <2>1
  <2> QED
    BY <1>4, <2>1, <2>2, AwayNone
<1>8. CASE BlockWork(b)
  <2>1. failAt[b] # "work"
    BY <1>2
  <2>2. PICK r \in Outcomes(b) : outbox' = [outbox EXCEPT ![b] = Posts(b, r.posts, "Call")]
    BY <1>8, <2>1 DEF BlockWork
  <2>3. pc' = [pc EXCEPT ![b] = "loop"]
    BY <1>8, <2>1 DEF BlockWork
  <2>4. PICK n \in Nat : n = r.posts
    BY PostsCounted
  <2>5. PICK s : s = Posts(b, n, "Call")
    OBVIOUS
  <2>6. s \in Seq(Sends) /\ Away(s)
    BY <1>1, <2>5, PostsAway DEF BlockMsgs
  <2>7. outbox' = [outbox EXCEPT ![b] = s]
    BY <2>2, <2>4, <2>5
  <2> QED
    BY <1>4, <2>3, <2>6, <2>7
<1>9. CASE BlockDeinit(b)
  <2>1. PICK s : s = <<SendToMain("BlockDone", b)>>
    OBVIOUS
  <2>2. Speaks(s, b) /\ ~Saying(s)
    BY <2>1, ReportSpeaks DEF FirstTypes
  <2>3. pc' = [pc EXCEPT ![b] = "done"] /\ outbox' = [outbox EXCEPT ![b] = s]
    BY <1>2, <1>9, <2>1 DEF BlockDeinit
  <2> QED
    BY <1>1, <1>2, <2>2, <2>3, SaysNothing
<1> QED
  BY <1>5, <1>6, <1>7, <1>8, <1>9

\* Where the first message of an outbox goes while run_flowgraph runs.
LEMMA SendCases ==
  ASSUME IndInv, NEW b \in Blocks, BlockSend(b), ~Returned, NEW e, e = Head(outbox[b])
  PROVE  /\ UNCHANGED <<fg, initLeft, mpc, pc, io, mainout>>
         /\ outbox[b] # <<>> /\ outbox[b] \in Seq(Sends) /\ e \in Sends
         /\ \E s \in {Tail(outbox[b]), Marked(outbox[b])} :
              /\ outbox' = [outbox EXCEPT ![b] = s]
              /\ \/ UNCHANGED mainbox /\ (e.to # Main \/ e.pushed)
                 \/ e.to = Main /\ ~e.pushed /\ mainbox' = Push(mainbox, e.via, e.msg, QueueSize)
         /\ e.to = Main => UNCHANGED inbox
<1>1. /\ outbox[b] # <<>> /\ outbox[b] \in Seq(Sends) /\ fg \in Flowgraphs
      /\ UNCHANGED <<fg, initLeft, mpc, io, mainout>>
  BY DEF BlockSend, mainVars, IndInv, TypeInv
<1>2. e \in Sends
  BY <1>1, OutboxMoves
<1>3. 0 # N + 1 /\ Main = 0 /\ Main \notin Blocks /\ N + 1 \notin Blocks
  BY <1>1, BlocksFinite DEF Main, Blocks
<1>4. UNCHANGED pc /\ (e.to = Main => UNCHANGED inbox)
  BY <1>3, Zenon DEF BlockSend
<1> DEFINE Becomes(s) == outbox' = [outbox EXCEPT ![b] = s]
           tail == Tail(outbox[b])
           marked == Marked(outbox[b])
           pushed == mainbox' = Push(mainbox, e.via, e.msg, QueueSize)
<1>5. \/ UNCHANGED mainbox /\ (e.to # Main \/ e.pushed) /\ (Becomes(tail) \/ Becomes(marked))
      \/ e.to = Main /\ ~e.pushed /\ pushed /\ (Becomes(tail) \/ Becomes(marked))
  <2>1. CASE e.to = N + 1
    <3>1. e.to # Main
      BY <1>3, <2>1
    <3>2. UNCHANGED mainbox /\ Becomes(tail)
      BY <1>3, <2>1, <3>1, Zenon DEF BlockSend
    <3> QED
      BY <3>1, <3>2
  <2>2. CASE e.to = Main
    <3>1. \/ /\ ~e.pushed /\ pushed
             /\ outbox' = [outbox EXCEPT ![b] = IF IsParked(mainbox', e.via)
                                                THEN marked ELSE tail]
          \/ e.pushed /\ Becomes(tail) /\ UNCHANGED mainbox
      BY <1>3, <2>2, Zenon DEF BlockSend, Marked
    <3>2. CASE IsParked(mainbox', e.via)
      BY <2>2, <3>1, <3>2, Zenon
    <3>3. CASE ~IsParked(mainbox', e.via)
      BY <2>2, <3>1, <3>3, Zenon
    <3> QED
      BY <3>2, <3>3
  <2>3. CASE e.to # Main /\ e.to # N + 1
    <3>1. \/ /\ UNCHANGED mainbox
             /\ outbox' = [outbox EXCEPT ![b] = IF IsParked(inbox'[e.to], e.via)
                                                THEN marked ELSE tail]
          \/ Becomes(tail) /\ UNCHANGED mainbox
      BY <1>3, <2>3, Zenon DEF BlockSend, Marked
    <3>2. CASE IsParked(inbox'[e.to], e.via)
      BY <2>3, <3>1, <3>2, Zenon
    <3>3. CASE ~IsParked(inbox'[e.to], e.via)
      BY <2>3, <3>1, <3>3, Zenon
    <3> QED
      BY <3>2, <3>3
  <2> QED
    BY <2>1, <2>2, <2>3
<1> QED
  BY <1>1, <1>2, <1>4, <1>5, Zenon

\* BlockSend
LEMMA SendSays ==
  ASSUME IndInv, FirstInv, NEW b \in Blocks, BlockSend(b), ~Returned
  PROVE  FirstInv'
<1>1. PICK e : e = Head(outbox[b])
  OBVIOUS
<1>2. /\ UNCHANGED <<fg, initLeft, pc>> /\ outbox[b] # <<>> /\ outbox[b] \in Seq(Sends)
      /\ e \in Sends
  BY <1>1, SendCases
<1>3. PICK s \in {Tail(outbox[b]), Marked(outbox[b])} :
        /\ outbox' = [outbox EXCEPT ![b] = s]
        /\ \/ UNCHANGED mainbox /\ (e.to # Main \/ e.pushed)
           \/ e.to = Main /\ ~e.pushed /\ mainbox' = Push(mainbox, e.via, e.msg, QueueSize)
  BY <1>1, SendCases
<1>4. First(pc[b], outbox[b], mainbox.queue, b)
  BY DEF FirstInv
<1>5. /\ SaidOnce(mainbox.queue, b) /\ Speaks(outbox[b], b) /\ pc[b] \notin Setup
      /\ Saying(outbox[b]) => ~Said(mainbox.queue, b)
  BY <1>2, <1>4 DEF First
<1>6. /\ Speaks(s, b)
      /\ e.to # Main \/ e.pushed => (Saying(outbox[b]) <=> Saying(s))
      /\ e.to = Main => /\ e.msg.block = b /\ ~Saying(s)
                        /\ ~e.pushed => (Saying(outbox[b]) <=> e.msg.type \in FirstTypes)
  <2>1. /\ Speaks(Tail(outbox[b]), b) /\ Speaks(Marked(outbox[b]), b)
        /\ Saying(Marked(outbox[b])) <=> Saying(Tail(outbox[b]))
        /\ e.to # Main \/ e.pushed => (Saying(outbox[b]) <=> Saying(Tail(outbox[b])))
        /\ e.to = Main =>
              /\ e.msg.block = b /\ ~Saying(Tail(outbox[b]))
              /\ ~e.pushed => (Saying(outbox[b]) <=> e.msg.type \in FirstTypes)
    BY <1>1, <1>2, <1>5, SpeaksMoved
  <2>2. CASE s = Tail(outbox[b])
    BY <2>1, <2>2
  <2>3. CASE s = Marked(outbox[b])
    BY <2>1, <2>3
  <2> QED
    BY <1>3, <2>2, <2>3
<1>7. CASE UNCHANGED mainbox /\ (e.to # Main \/ e.pushed)
  <2>1. First(pc[b], s, mainbox.queue, b)
    BY <1>5, <1>6, <1>7 DEF First
  <2>2. Silent(pc[b], s, mainbox.queue, b) <=> Silent(pc[b], outbox[b], mainbox.queue, b)
    BY <1>6, <1>7 DEF Silent
  <2>3. pc' = [pc EXCEPT ![b] = pc[b]]
    BY <1>2 DEF IndInv, TypeInv
  <2>4. PICK p : p = pc[b]
    OBVIOUS
  <2> QED
    BY <1>2, <1>3, <1>7, <2>1, <2>2, <2>3, <2>4, TaskSays
<1>8. CASE e.to = Main /\ ~e.pushed /\ mainbox' = Push(mainbox, e.via, e.msg, QueueSize)
  <2>1. PICK m : m = e.msg
    OBVIOUS
  <2>2. PICK q : q = Append(mainbox.queue, m)
    OBVIOUS
  <2>3. mainbox'.queue = q
    BY <1>8, <2>1, <2>2 DEF Push
  <2>4. m \in MainMsgs /\ m.block = b /\ mainbox.queue \in Seq(MainMsgs)
    BY <1>2, <1>6, <1>8, <2>1 DEF Sends, Letters, Main, IndInv, TypeInv
  <2>5. Speakers(q, Blocks)
    BY <2>2, <2>4, SpeakersKept DEF FirstInv
  <2>6. outbox'[b] = s /\ \A c \in Blocks : c # b => outbox'[c] = outbox[c]
    BY <1>3 DEF IndInv, TypeInv
  <2>7. ASSUME NEW c \in Blocks
        PROVE  /\ First(pc'[c], outbox'[c], q, c)
               /\ Silent(pc'[c], outbox'[c], q, c)
                    <=> Silent(pc[c], outbox[c], mainbox.queue, c)
    <3>1. /\ Said(q, c) <=> Said(mainbox.queue, c) \/ IsFirst(m, c)
          /\ SaidOnce(mainbox.queue, c) /\ (IsFirst(m, c) => ~Said(mainbox.queue, c))
                => SaidOnce(q, c)
      BY <2>2, <2>4, SaidAppend
    <3>2. CASE c # b
      <4>1. ~IsFirst(m, c)
        BY <2>4, <3>2 DEF IsFirst
      <4>2. First(pc[c], outbox[c], mainbox.queue, c)
        BY DEF FirstInv
      <4> QED
        BY <1>2, <2>6, <3>1, <3>2, <4>1, <4>2 DEF First, Silent
    <3>3. CASE c = b
      <4>1. IsFirst(m, b) <=> Saying(outbox[b])
        BY <1>6, <1>8, <2>1, <2>4 DEF IsFirst
      <4>2. SaidOnce(q, b) /\ ~Saying(s)
        BY <1>5, <1>6, <1>8, <3>1, <3>3, <4>1
      <4>3. First(pc[b], s, q, b)
        BY <1>5, <1>6, <4>2 DEF First
      <4>4. Silent(pc[b], s, q, b) <=> Silent(pc[b], outbox[b], mainbox.queue, b)
        BY <3>1, <3>3, <4>1, <4>2 DEF Silent
      <4> QED
        BY <1>2, <2>6, <3>3, <4>3, <4>4
    <3> QED
      BY <3>2, <3>3
  <2> QED
    BY <1>2, <2>3, <2>5, <2>7, NothingSaid
<1> QED
  BY <1>3, <1>7, <1>8

\* run_flowgraph, while nobody has said anything.
LEMMA MainSilent ==
  ASSUME IndInv, FirstInv, UNCHANGED <<fg, pc, outbox, initLeft>>,
         \/ UNCHANGED mainbox
         \/ \E m \in MainMsgs : /\ m.type \notin FirstTypes
                                /\ mainbox'.queue = Append(mainbox.queue, m)
         \/ /\ mainbox.queue # <<>> /\ Head(mainbox.queue).type \notin FirstTypes
            /\ mainbox'.queue = Tail(mainbox.queue)
  PROVE  FirstInv'
<1>1. PICK q : q = mainbox'.queue
  OBVIOUS
<1>2. mainbox.queue \in Seq(MainMsgs) /\ Speakers(mainbox.queue, Blocks)
  BY DEF IndInv, TypeInv, FirstInv
<1>3. /\ Speakers(q, Blocks)
      /\ \A c \in Blocks : /\ Said(q, c) <=> Said(mainbox.queue, c)
                           /\ SaidOnce(mainbox.queue, c) => SaidOnce(q, c)
  <2>1. CASE UNCHANGED mainbox
    BY <1>1, <1>2, <2>1
  <2>2. ASSUME NEW m \in MainMsgs, m.type \notin FirstTypes,
               mainbox'.queue = Append(mainbox.queue, m)
        PROVE  /\ Speakers(q, Blocks)
               /\ \A c \in Blocks : /\ Said(q, c) <=> Said(mainbox.queue, c)
                                    /\ SaidOnce(mainbox.queue, c) => SaidOnce(q, c)
    BY <1>1, <1>2, <2>2, SaidAppend, SpeakersKept DEF IsFirst
  <2>3. CASE /\ mainbox.queue # <<>> /\ Head(mainbox.queue).type \notin FirstTypes
             /\ mainbox'.queue = Tail(mainbox.queue)
    BY <1>1, <1>2, <2>3, SaidTail, SpeakersKept DEF IsFirst
  <2> QED
    BY <2>1, <2>2, <2>3
<1>4. ASSUME NEW c \in Blocks
      PROVE  /\ First(pc'[c], outbox'[c], q, c)
             /\ Silent(pc'[c], outbox'[c], q, c) <=> Silent(pc[c], outbox[c], mainbox.queue, c)
  <2>1. First(pc[c], outbox[c], mainbox.queue, c)
    BY DEF FirstInv
  <2> QED
    BY <1>3, <2>1 DEF First, Silent
<1> QED
  BY <1>1, <1>3, <1>4, NothingSaid

\* MainSend
LEMMA MainSendSays ==
  ASSUME IndInv, FirstInv, MainSend
  PROVE  FirstInv'
<1>1. UNCHANGED <<fg, pc, outbox, initLeft>> /\ mainout # <<>>
  BY DEF MainSend, blockVars
<1>2. PICK e : e = Head(mainout)
  OBVIOUS
<1>3. e.to = Main => e.msg = ToMain("Terminate", 0)
  BY <1>1, <1>2, OutboxMoves DEF IndInv, TypeInv
<1>4. \/ UNCHANGED mainbox
      \/ e.to = Main /\ mainbox' = Push(mainbox, e.via, e.msg, QueueSize)
  BY <1>2, Zenon DEF MainSend
<1>5. CASE e.to = Main /\ mainbox' = Push(mainbox, e.via, e.msg, QueueSize)
  <2>1. PICK m : m = ToMain("Terminate", 0)
    OBVIOUS
  <2>2. m \in MainMsgs /\ m.type \notin FirstTypes
    <3>1. m.type = "Terminate" /\ m \in MainMsgs
      BY <2>1, TerminateIsNoEnd DEF ToMain
    <3> QED
      BY <3>1 DEF FirstTypes
  <2>3. mainbox'.queue = Append(mainbox.queue, m)
    BY <1>3, <1>5, <2>1 DEF Push
  <2> QED
    BY <1>1, <2>2, <2>3, MainSilent
<1> QED
  BY <1>1, <1>4, <1>5, MainSilent

\* MainWaitInit: a first word is counted, anything else is put off.
LEMMA MainWaitInitSays ==
  ASSUME IndInv, FirstInv, MainWaitInit
  PROVE  FirstInv'
<1>1. /\ UNCHANGED <<fg, pc, outbox>>
      /\ mainbox.queue # <<>> /\ mainbox' = Pop(mainbox)
  BY DEF MainWaitInit, blockVars, MainTake
<1>2. PICK m : m = Head(mainbox.queue)
  OBVIOUS
<1>3. PICK q : q = Tail(mainbox.queue)
  OBVIOUS
<1>4. mainbox'.queue = q
  BY <1>1, <1>3 DEF Pop
<1>5. mainbox.queue \in Seq(MainMsgs) /\ fg \in Flowgraphs
  BY DEF IndInv, TypeInv
<1>6. CASE m.type \notin FirstTypes
  <2>1. UNCHANGED initLeft
    BY <1>2, <1>6 DEF MainWaitInit, MainMessage, FirstTypes
  <2> QED
    BY <1>1, <1>2, <1>3, <1>4, <1>6, <2>1, MainSilent
<1>7. CASE m.type \in FirstTypes
  <2>1. initLeft' = initLeft - 1
    BY <1>2, <1>7 DEF MainWaitInit, MainMessage, FirstTypes
  <2>2. Speakers(q, Blocks) /\ m.block \in Blocks
    BY <1>1, <1>2, <1>3, <1>5, <1>7, SpeakersKept DEF FirstInv
  <2>3. PICK b \in Blocks : b = m.block
    BY <2>2
  <2>4. ASSUME NEW c \in Blocks
        PROVE  /\ First(pc[c], outbox[c], q, c)
               /\ Silent(pc[c], outbox[c], q, c)
                    <=> Silent(pc[c], outbox[c], mainbox.queue, c) /\ c # b
               /\ Silent(pc[b], outbox[b], mainbox.queue, b)
    <3>1. /\ Said(mainbox.queue, c) <=> IsFirst(m, c) \/ Said(q, c)
          /\ SaidOnce(mainbox.queue, c) => SaidOnce(q, c) /\ ~(IsFirst(m, c) /\ Said(q, c))
      BY <1>1, <1>2, <1>3, <1>5, SaidTail
    <3>2. IsFirst(m, c) <=> c = b
      BY <1>7, <2>3 DEF IsFirst
    <3>3. First(pc[c], outbox[c], mainbox.queue, c)
      BY DEF FirstInv
    <3>4. First(pc[c], outbox[c], q, c)
      BY <3>1, <3>3 DEF First
    <3>5. CASE c = b
      <4>1. Said(mainbox.queue, b) /\ ~Said(q, b) /\ pc[b] \notin Setup /\ ~Saying(outbox[b])
        BY <3>1, <3>2, <3>3, <3>5 DEF First
      <4> QED
        BY <3>4, <3>5, <4>1 DEF Silent
    <3>6. CASE c # b
      <4>1. Said(mainbox.queue, b)
        <5>1. IsFirst(Head(mainbox.queue), b)
          BY <1>2, <1>7, <2>3 DEF IsFirst
        <5> QED
          BY <1>1, <1>5, <5>1, SaidTail
      <4> QED
        BY <3>1, <3>2, <3>4, <3>6, <4>1 DEF Silent
    <3> QED
      BY <3>5, <3>6
  <2>5. Blocks' = Blocks
    BY <1>1 DEF Blocks, N, Kind
  <2>6. PICK W : W = Waited
    OBVIOUS
  <2>7. W = {c \in Blocks : Silent(pc[c], outbox[c], mainbox.queue, c)}
    BY <2>6 DEF Waited
  <2>8. Waited' = {c \in Blocks : Silent(pc[c], outbox[c], q, c)}
    BY <1>1, <1>4, <2>5 DEF Waited
  <2>9. Waited' = W \ {b} /\ b \in W
    BY <2>4, <2>7, <2>8
  <2>10. Cardinality(W \ {b}) = Cardinality(W) - 1
    <3>1. W \in SUBSET Blocks
      BY <2>7
    <3>2. IsFiniteSet(W)
      BY <1>5, <3>1, BlocksFinite
    <3> QED
      BY <2>9, <3>2, FS_RemoveElement
  <2>11. initLeft' = Cardinality(Waited')
    BY <2>1, <2>6, <2>9, <2>10 DEF FirstInv
  <2>12. \A c \in Blocks' : First(pc'[c], outbox'[c], mainbox'.queue, c)
    BY <1>1, <1>4, <2>4, <2>5
  <2>13. Speakers(mainbox'.queue, Blocks')
    BY <1>4, <2>2, <2>5
  <2> QED
    BY <2>11, <2>12, <2>13, Zenon DEF FirstInv
<1> QED
  BY <1>6, <1>7

\* Nobody is waited for: every block is behind its setup phase.
LEMMA NobodyWaited ==
  ASSUME IndInv, FirstInv, initLeft = 0
  PROVE  Settled
<1>1. Waited \in SUBSET Blocks
  BY DEF Waited
<1>2. IsFiniteSet(Waited) /\ Cardinality(Waited) = 0
  BY <1>1, BlocksFinite DEF FirstInv, IndInv, TypeInv
<1>3. Waited = {}
  BY <1>2, FS_EmptySet
<1> QED
  BY <1>3 DEF Waited, Silent, Settled

\* No block returns to its setup phase.
LEMMA NoReturn ==
  ASSUME IndInv, [Next]_vars, NEW c \in Blocks, pc[c] \notin Setup
  PROVE  pc'[c] \notin Setup
<1>1. pc \in [Blocks -> Pcs]
  BY DEF IndInv, TypeInv
<1>2. CASE UNCHANGED pc
  BY <1>2
<1>3. ASSUME NEW b \in Blocks, BlockNext(b) PROVE pc'[c] \notin Setup
  <2>1. ASSUME NEW p, pc' = [pc EXCEPT ![b] = p], p \notin Setup \/ pc[b] \in Setup
        PROVE  pc'[c] \notin Setup
    BY <1>1, <2>1
  <2>2. CASE Fail(b)
    BY <2>1, <2>2 DEF Fail, Setup
  <2>3. CASE BlockStart(b)
    BY <2>1, <2>3 DEF BlockStart, Fail, Running, Setup
  <2>4. CASE BlockSetup(b)
    BY <1>2, <2>1, <2>4 DEF BlockSetup, Fail, Running, Setup
  <2>5. CASE BlockReceive(b)
    BY <1>2, <2>2, <2>5 DEF BlockReceive
  <2>6. CASE BlockDrained(b)
    BY <2>1, <2>6 DEF BlockDrained, Setup
  <2>7. CASE BlockTimer(b)
    BY <2>1, <2>7 DEF BlockTimer, Setup
  <2>8. CASE BlockWork(b)
    BY <2>1, <2>2, <2>8 DEF BlockWork, Setup
  <2>9. CASE BlockDeinit(b)
    BY <2>1, <2>2, <2>9 DEF BlockDeinit, Setup
  <2>10. CASE BlockSend(b)
    BY <1>2, <2>2, <2>10 DEF BlockSend
  <2> QED
    BY <1>3, <2>3, <2>4, <2>5, <2>6, <2>7, <2>8, <2>9, <2>10 DEF BlockNext
<1>4. CASE MainNext
  BY <1>2, <1>4 DEF MainNext, MainSend, MainInitSent, MainWaitInit, MainNotifyAll, MainRequeue,
     MainStarted, MainReturn, MainLoop, MainAnswer, blockVars
<1>5. ASSUME NEW d \in Clients, ClientNext(d) PROVE pc'[c] \notin Setup
  BY <1>2, <1>5 DEF ClientNext, ClientAsk, ClientFlushed, blockVars
<1>6. CASE Quiet \/ UNCHANGED vars
  BY <1>2, <1>6 DEF Quiet, vars, blockVars
<1> QED
  BY <1>3, <1>4, <1>5, <1>6 DEF Next

\* The flowgraph stays, and the init phase is never entered again.
LEMMA Phases ==
  ASSUME [Next]_vars
  PROVE  fg' = fg /\ (Initializing' => Initializing) /\ (NoEarlyPosts' <=> NoEarlyPosts)
         /\ (OnlyInitFails' <=> OnlyInitFails) /\ Blocks' = Blocks
<1>1. fg' = fg /\ (Initializing' => Initializing)
  <2>1. ASSUME NEW b \in Blocks, BlockNext(b) PROVE fg' = fg /\ mpc' = mpc
    BY <2>1 DEF BlockNext, BlockStart, BlockSetup, BlockReceive, BlockDrained, BlockTimer,
       BlockWork, BlockDeinit, BlockSend, mainVars
  <2>2. ASSUME MainNext PROVE fg' = fg /\ (mpc' \in {"sendInit", "waitInit"} => Initializing)
    <3>1. CASE MainSend \/ MainWaitInit \/ MainLoop \/ MainAnswer
      BY <3>1 DEF MainSend, MainWaitInit, MainLoop, MainAnswer, blockVars, Initializing
    <3>2. CASE MainInitSent \/ MainNotifyAll \/ MainReturn
      BY <3>2 DEF MainInitSent, MainNotifyAll, MainReturn, MainAt, blockVars, Initializing
    <3>3. CASE MainRequeue \/ MainStarted
      BY <3>3 DEF MainRequeue, MainStarted, MainTrySend, MainAt, blockVars, Initializing
    <3> QED
      BY <2>2, <3>1, <3>2, <3>3 DEF MainNext
  <2>3. ASSUME NEW d \in Clients, ClientNext(d) PROVE fg' = fg /\ mpc' = mpc
    BY <2>3 DEF ClientNext, ClientAsk, ClientFlushed, blockVars, mainVars
  <2>4. ASSUME Quiet \/ UNCHANGED vars PROVE fg' = fg /\ mpc' = mpc
    BY <2>4 DEF Quiet, vars, blockVars, mainVars
  <2> QED
    BY <2>1, <2>2, <2>3, <2>4 DEF Next, Initializing
<1>2. Blocks' = Blocks
  BY <1>1 DEF Blocks, N, Kind
<1> QED
  BY <1>1, <1>2 DEF NoEarlyPosts, OnlyInitFails, InitPost, failAt

-----------------------------------------------------------------------------
(* Calm before the start                                                   *)

\* Where no init() posts, a block that is initialized waits for its first message.
LEMMA Waits ==
  ASSUME AllCalm, NEW b \in Blocks
  PROVE  ~(\/ BlockReceive(b) \/ BlockDrained(b) \/ BlockTimer(b)
           \/ BlockWork(b) \/ BlockDeinit(b))
<1>1. /\ io[b].again = FALSE /\ io[b].finished = FALSE /\ io[b].timer = "none"
      /\ pc[b] \in Setup \cup {"loop", "done"}
      /\ pc[b] = "loop" => inbox[b].queue = <<>>
  BY DEF AllCalm, FreshIo, Calm
<1>2. pc[b] \notin {"work", "shutdown"}
  BY <1>1 DEF Setup
<1> QED
  BY <1>1, <1>2 DEF BlockReceive, BlockDrained, BlockTimer, BlockWork, BlockDeinit, Running, Take

\* A step of block b's task that takes it to p and leaves it the outbox s and the
\* inbox q.
LEMMA TaskCalm ==
  ASSUME IndInv, AllCalm, NEW b \in Blocks, UNCHANGED <<fg, io, mainout>>,
         NEW p, NEW s, NEW q \in Seq(Notes),
         pc' = [pc EXCEPT ![b] = p], outbox' = [outbox EXCEPT ![b] = s],
         DOMAIN inbox' = Blocks, inbox'[b].queue = q,
         \A c \in Blocks : c # b => inbox'[c] = inbox[c],
         Calm(p, s, q, mainout, b)
  PROVE  AllCalm'
<1>1. /\ pc'[b] = p /\ outbox'[b] = s
      /\ \A c \in Blocks : c # b => pc'[c] = pc[c] /\ outbox'[c] = outbox[c]
  BY DEF IndInv, TypeInv
<1>2. Blocks' = Blocks /\ FreshIo' = FreshIo
  BY DEF Blocks, N, Kind, FreshIo
<1>3. ASSUME NEW c \in Blocks
      PROVE  /\ Calm(pc'[c], outbox'[c], inbox'[c].queue, mainout', c)
             /\ inbox'[c].queue \in Seq(Notes) /\ io'[c] = FreshIo
  <2>1. io[c] = FreshIo /\ mainout' = mainout /\ io' = io
    BY DEF AllCalm
  <2>2. CASE c = b
    BY <1>1, <2>1, <2>2
  <2>3. CASE c # b
    BY <1>1, <2>1, <2>3 DEF AllCalm
  <2> QED
    BY <2>2, <2>3
<1>4. DueOnce(mainout') /\ Away(mainout')
  BY Zenon DEF AllCalm
<1> QED
  BY <1>2, <1>3, <1>4, Zenon DEF AllCalm

\* The reports of a block leave it calm.
LEMMA ReportCalm ==
  ASSUME NEW b, NEW type, NEW p, NEW q, NEW o, p \in Setup \cup {"loop", "done"}, Len(q) <= 1,
         q # <<>> => ~Due(o, b), p = "loop" => q = <<>> /\ ~Due(o, b)
  PROVE  /\ Calm(p, <<SendToMain(type, b)>>, q, o, b)
         /\ Calm(p, <<>>, q, o, b)
<1>1. PICK r : r = <<SendToMain(type, b)>>
  OBVIOUS
<1>2. \A i \in 1..Len(r) : r[i].to = Main
  BY <1>1, ReportSpeaks
<1>3. \A i \in 1..Len(<<>>) : <<>>[i].to = Main
  <2>1. Len(<<>>) = 0 /\ 1..0 = {}
    BY SMT
  <2> QED
    BY <2>1
<1> QED
  BY <1>1, <1>2, <1>3 DEF Calm

\* BlockStart, BlockSetup and BlockSend
LEMMA BlockCalm ==
  ASSUME IndInv, AllCalm, NoEarlyPosts, ~Returned, NEW b \in Blocks, BlockNext(b)
  PROVE  AllCalm'
<1>1. BlockStart(b) \/ BlockSetup(b) \/ BlockSend(b)
  BY Waits DEF BlockNext
<1>2. PICK q \in Seq(Notes) : q = inbox[b].queue
  BY DEF AllCalm
<1>3. Calm(pc[b], outbox[b], q, mainout, b) /\ DOMAIN inbox = Blocks
  BY <1>2 DEF AllCalm
<1>4. /\ pc[b] \in Setup \cup {"loop", "done"} /\ Len(q) <= 1
      /\ q # <<>> => ~Due(mainout, b)
      /\ pc[b] = "loop" => q = <<>> /\ ~Due(mainout, b)
      /\ \A i \in 1..Len(outbox[b]) : outbox[b][i].to = Main
  BY <1>3 DEF Calm
<1>5. outbox \in [Blocks -> Seq(Sends)] /\ pc \in [Blocks -> Pcs]
  BY DEF IndInv, TypeInv
<1>6. {"start", "setup"} \subseteq Setup /\ "loop" # "done"
  BY DEF Setup
<1>7. CASE BlockStart(b)
  <2>1. UNCHANGED <<fg, io, mainout, inbox>> /\ pc[b] = "start" /\ outbox[b] = <<>>
    BY <1>7 DEF BlockStart, Running, mainVars
  <2>2. \/ pc' = [pc EXCEPT ![b] = "setup"] /\ outbox' = [outbox EXCEPT ![b] = <<>>]
        \/ /\ pc' = [pc EXCEPT ![b] = "done"]
           /\ outbox' = [outbox EXCEPT ![b] = <<SendToMain("BlockError", b)>>]
    BY <1>5, <1>7, <2>1 DEF BlockStart, Fail
  <2>3. /\ Calm("setup", <<>>, q, mainout, b)
        /\ Calm("done", <<SendToMain("BlockError", b)>>, q, mainout, b)
    BY <1>4, <1>6, ReportCalm
  <2>4. DOMAIN inbox' = Blocks /\ inbox'[b].queue = q /\ \A c \in Blocks : inbox'[c] = inbox[c]
    BY <1>2, <1>3, <2>1
  <2> QED
    BY <2>1, <2>2, <2>3, <2>4, TaskCalm
<1>8. CASE BlockSetup(b)
  <2>1. /\ UNCHANGED <<fg, io, mainout>> /\ pc[b] = "setup" /\ outbox[b] = <<>>
        /\ inbox[b].queue # <<>> /\ inbox' = [inbox EXCEPT ![b] = Pop(@)]
    BY <1>8 DEF BlockSetup, Running, Take, mainVars
  <2>2. PICK r : r = Tail(q)
    OBVIOUS
  <2>3. r \in Seq(Notes) /\ r = <<>> /\ Len(r) <= 1 /\ ~Due(mainout, b)
    <3>1. r \in Seq(Notes) /\ Len(r) = Len(q) - 1 /\ Len(q) \in Nat \ {0}
      BY <1>2, <2>1, <2>2, HeadTailProperties, LenProperties
    <3>2. Len(r) = 0 /\ 0 <= 1
      BY <1>4, <3>1, SMT
    <3>3. r = <<>>
      BY <3>1, <3>2, EmptySeq
    <3> QED
      BY <1>2, <1>4, <2>1, <3>1, <3>2, <3>3
  <2>4. /\ DOMAIN inbox' = Blocks /\ inbox'[b].queue = r
        /\ \A c \in Blocks : c # b => inbox'[c] = inbox[c]
    BY <1>2, <1>3, <2>1, <2>2 DEF Pop
  <2>5. /\ Calm("setup", <<>>, r, mainout, b)
        /\ Calm("done", <<SendToMain("BlockError", b)>>, r, mainout, b)
        /\ Calm("loop", <<SendToMain("Initialized", b)>>, r, mainout, b)
    BY <1>6, <2>3, ReportCalm
  <2>6. \/ pc' = [pc EXCEPT ![b] = "setup"] /\ outbox' = [outbox EXCEPT ![b] = <<>>]
        \/ /\ pc' = [pc EXCEPT ![b] = "done"]
           /\ outbox' = [outbox EXCEPT ![b] = <<SendToMain("BlockError", b)>>]
        \/ /\ pc' = [pc EXCEPT ![b] = "loop"]
           /\ outbox' = [outbox EXCEPT ![b] = <<SendToMain("Initialized", b)>>]
    <3>1. CASE UNCHANGED <<pc, outbox>>
      BY <1>5, <2>1, <3>1
    <3>2. CASE Fail(b)
      BY <3>2 DEF Fail
    <3>3. CASE /\ pc' = [pc EXCEPT ![b] = "loop"]
               /\ outbox' = [outbox EXCEPT ![b] =
                              (IF InitPost[b] = "none" THEN <<>> ELSE Posts(b, 1, InitPost[b]))
                                \o <<SendToMain("Initialized", b)>>]
      <4>1. PICK u : u = <<SendToMain("Initialized", b)>>
        OBVIOUS
      <4>2. u \in Seq(Sends) /\ <<>> \o u = u
        BY <4>1, InitializedSent, BlocksFinite, ConcatEmptySeq DEF IndInv, TypeInv
      <4>3. outbox' = [outbox EXCEPT ![b] = <<>> \o u]
        BY <3>3, <4>1 DEF NoEarlyPosts
      <4> QED
        BY <3>3, <4>1, <4>2, <4>3
    <3> QED
      BY <1>8, <3>1, <3>2, <3>3 DEF BlockSetup
  <2>7. ASSUME NEW p, NEW s, Calm(p, s, r, mainout, b),
               pc' = [pc EXCEPT ![b] = p], outbox' = [outbox EXCEPT ![b] = s]
        PROVE  AllCalm'
    BY <2>1, <2>3, <2>4, <2>7, TaskCalm
  <2> QED
    BY <2>5, <2>6, <2>7
<1>9. CASE BlockSend(b)
  <2>1. PICK e : e = Head(outbox[b])
    OBVIOUS
  <2>2. /\ UNCHANGED <<fg, pc, io, mainout>> /\ outbox[b] # <<>> /\ outbox[b] \in Seq(Sends)
        /\ e.to = Main => UNCHANGED inbox
    BY <1>9, <2>1, SendCases
  <2>3. PICK s \in {Tail(outbox[b]), Marked(outbox[b])} : outbox' = [outbox EXCEPT ![b] = s]
    BY <1>9, <2>1, SendCases
  <2>4. e.to = Main /\ \A i \in 1..Len(s) : s[i].to = Main
    BY <1>4, <2>1, <2>2, <2>3, ToMainMoved
  <2>5. PICK p : p = pc[b]
    OBVIOUS
  <2>6. Calm(p, s, q, mainout, b)
    BY <1>4, <2>4, <2>5 DEF Calm
  <2>7. pc' = [pc EXCEPT ![b] = p]
    BY <1>5, <2>2, <2>5
  <2>8. DOMAIN inbox' = Blocks /\ inbox'[b].queue = q /\ \A c \in Blocks : inbox'[c] = inbox[c]
    BY <1>2, <1>3, <2>2, <2>4
  <2> QED
    BY <2>2, <2>3, <2>6, <2>7, <2>8, TaskCalm
<1> QED
  BY <1>1, <1>7, <1>8, <1>9

\* MainSend
LEMMA MainCalm ==
  ASSUME IndInv, AllCalm, MainSend
  PROVE  AllCalm'
<1>1. UNCHANGED <<fg, io, pc, outbox>> /\ mainout # <<>> /\ mainout \in Seq(Sends)
  BY DEF MainSend, blockVars, IndInv, TypeInv
<1>2. PICK e : e = Head(mainout)
  OBVIOUS
<1>3. DueOnce(mainout) /\ Away(mainout) /\ DOMAIN inbox = Blocks
  BY DEF AllCalm
<1>4. ASSUME NEW o \in {Tail(mainout), Marked(mainout)}
      PROVE  /\ DueOnce(o) /\ Away(o) /\ \A b : Due(o, b) => Due(mainout, b)
             /\ e.to # Main
             /\ ~e.pushed => Due(mainout, e.to) /\ ~Due(o, e.to)
  BY <1>1, <1>2, <1>3, <1>4, DueMoved
<1>5. e.to # Main /\ e \in Sends
  BY <1>1, <1>2, <1>4, OutboxMoves
<1>6. PICK o \in {Tail(mainout), Marked(mainout)} :
        /\ mainout' = o
        /\ \/ UNCHANGED inbox
           \/ /\ ~e.pushed
              /\ inbox' = [inbox EXCEPT ![e.to] = Push(inbox[e.to], e.via, e.msg, QueueSize)]
  <2>1. CASE e.pushed
    BY <1>2, <2>1, Zenon DEF MainSend
  <2>2. CASE ~e.pushed
    <3>1. /\ inbox' = [inbox EXCEPT ![e.to] = Push(inbox[e.to], e.via, e.msg, QueueSize)]
          /\ mainout' = IF IsParked(inbox'[e.to], e.via) THEN Marked(mainout) ELSE Tail(mainout)
      BY <1>2, <1>5, <2>2, Zenon DEF MainSend, Marked
    <3>2. CASE IsParked(inbox'[e.to], e.via)
      BY <2>2, <3>1, <3>2, Zenon
    <3>3. CASE ~IsParked(inbox'[e.to], e.via)
      BY <2>2, <3>1, <3>3, Zenon
    <3> QED
      BY <3>2, <3>3
  <2> QED
    BY <2>1, <2>2
<1>7. /\ DueOnce(o) /\ Away(o) /\ \A b : Due(o, b) => Due(mainout, b)
      /\ ~e.pushed => Due(mainout, e.to) /\ ~Due(o, e.to)
  BY <1>4
<1>8. Blocks' = Blocks /\ FreshIo' = FreshIo
  BY <1>1 DEF Blocks, N, Kind, FreshIo
<1>9. DOMAIN inbox' = Blocks
  BY <1>3, <1>6
<1>10. ASSUME NEW b \in Blocks
       PROVE  /\ io'[b] = FreshIo /\ inbox'[b].queue \in Seq(Notes)
              /\ Calm(pc'[b], outbox'[b], inbox'[b].queue, o, b)
  <2>1. /\ io[b] = FreshIo /\ inbox[b].queue \in Seq(Notes)
        /\ Calm(pc[b], outbox[b], inbox[b].queue, mainout, b)
    BY DEF AllCalm
  <2>2. Calm(pc[b], outbox[b], inbox[b].queue, o, b)
    BY <1>7, <2>1 DEF Calm
  <2>3. CASE inbox'[b] = inbox[b]
    BY <1>1, <2>1, <2>2, <2>3
  <2>4. CASE /\ b = e.to /\ ~e.pushed
             /\ inbox'[b] = Push(inbox[b], e.via, e.msg, QueueSize)
    <3>1. PICK q \in Seq(Notes) : q = inbox[b].queue
      BY <2>1
    <3>2. e.msg \in Notes
      BY <1>5 DEF Sends, Letters, Main, Notes
    <3>3. inbox'[b].queue = Append(q, e.msg)
      BY <2>4, <3>1 DEF Push
    <3>4. Due(mainout, b) /\ ~Due(o, b)
      BY <1>7, <2>4
    <3>5. q = <<>> /\ pc[b] # "loop" /\ pc[b] \in Setup \cup {"loop", "done"}
          /\ \A i \in 1..Len(outbox[b]) : outbox[b][i].to = Main
      BY <2>1, <3>1, <3>4 DEF Calm
    <3>6. PICK r : r = Append(q, e.msg)
      OBVIOUS
    <3>7. r \in Seq(Notes) /\ Len(r) <= 1
      <4>1. r \in Seq(Notes) /\ Len(r) = Len(q) + 1 /\ Len(q) = 0
        BY <3>2, <3>5, <3>6, AppendProperties, EmptySeq
      <4> QED
        BY <4>1, SMT
    <3>8. Calm(pc[b], outbox[b], r, o, b)
      BY <3>4, <3>5, <3>7 DEF Calm
    <3> QED
      BY <1>1, <2>1, <3>3, <3>6, <3>7, <3>8
  <2>5. \/ inbox'[b] = inbox[b]
        \/ /\ b = e.to /\ ~e.pushed
           /\ inbox'[b] = Push(inbox[b], e.via, e.msg, QueueSize)
    <3>1. CASE UNCHANGED inbox
      BY <3>1
    <3>2. CASE /\ ~e.pushed
               /\ inbox' = [inbox EXCEPT ![e.to] = Push(inbox[e.to], e.via, e.msg, QueueSize)]
      BY <1>3, <3>2
    <3> QED
      BY <1>6, <3>1, <3>2
  <2> QED
    BY <2>3, <2>4, <2>5
<1> QED
  BY <1>6, <1>7, <1>8, <1>9, <1>10, Zenon DEF AllCalm

\* A step that leaves all this alone.
LEMMA CalmKept ==
  ASSUME AllCalm, UNCHANGED <<fg, io, pc, outbox, inbox, mainout>>
  PROVE  AllCalm'
<1>1. Blocks' = Blocks /\ FreshIo' = FreshIo
  BY DEF Blocks, N, Kind, FreshIo
<1> QED
  BY <1>1, Zenon DEF AllCalm

-----------------------------------------------------------------------------
(* Every step, and the theorems                                            *)

\* Where no init() posts, every step leaves the blocks calm.
LEMMA CalmStep ==
  ASSUME IndInv, CalmInv, [Next]_vars
  PROVE  CalmInv'
<1> SUFFICES ASSUME NoEarlyPosts', Initializing' PROVE AllCalm'
  BY DEF CalmInv
<1>1. NoEarlyPosts /\ Initializing
  BY Phases
<1>2. AllCalm /\ ~Returned
  BY <1>1 DEF CalmInv, Initializing, Returned
<1>3. ASSUME NEW b \in Blocks, BlockNext(b) PROVE AllCalm'
  BY <1>1, <1>2, <1>3, BlockCalm
<1>4. CASE MainNext
  <2>1. CASE MainSend
    BY <1>2, <2>1, MainCalm
  <2>2. CASE MainInitSent \/ MainWaitInit
    BY <1>2, <2>2, CalmKept DEF MainInitSent, MainWaitInit, blockVars
  <2>3. CASE MainNotifyAll
    BY <2>3 DEF MainNotifyAll, Initializing
  <2>4. CASE MainRequeue \/ MainStarted \/ MainReturn \/ MainLoop \/ MainAnswer
    BY <1>1, <2>4 DEF MainRequeue, MainStarted, MainReturn, MainLoop, MainAnswer, MainAt,
                      Initializing
  <2> QED
    BY <1>4, <2>1, <2>2, <2>3, <2>4 DEF MainNext
<1>5. ASSUME NEW d \in Clients, ClientNext(d) PROVE AllCalm'
  BY <1>2, <1>5, CalmKept DEF ClientNext, ClientAsk, ClientFlushed, blockVars, mainVars
<1>6. CASE Quiet \/ UNCHANGED vars
  BY <1>2, <1>6, CalmKept DEF Quiet, vars, blockVars, mainVars
<1> QED
  BY <1>3, <1>4, <1>5, <1>6 DEF Next

\* Every step keeps the tokens of the first words and their count.
LEMMA StartStep ==
  ASSUME IndInv, BeginInv, [Next]_vars
  PROVE  StartInv'
<1> SUFFICES ASSUME NoEarlyPosts' \/ OnlyInitFails'
             PROVE  (Initializing' => FirstInv') /\ (~Initializing' => Settled')
  BY DEF StartInv
<1>1. /\ NoEarlyPosts \/ OnlyInitFails
      /\ Initializing' => Initializing
      /\ Blocks' = Blocks /\ fg' = fg
  BY Phases
<1>2. CASE ~Initializing
  <2>1. Settled
    BY <1>1, <1>2 DEF BeginInv, StartInv
  <2>2. \A c \in Blocks : pc'[c] \notin Setup
    BY <2>1, NoReturn DEF Settled
  <2> QED
    BY <1>1, <1>2, <2>2 DEF Settled
<1>3. CASE Initializing
  <2>1. FirstInv /\ ~Returned /\ (NoEarlyPosts => AllCalm)
    BY <1>1, <1>3 DEF BeginInv, StartInv, CalmInv, Initializing, Returned
  <2>2. CASE UNCHANGED mpc
    <3>1. Initializing'
      BY <1>3, <2>2 DEF Initializing
    <3>2. ASSUME NEW b \in Blocks, BlockNext(b) PROVE FirstInv'
      <4>1. CASE BlockStart(b) \/ BlockSetup(b) \/ BlockSend(b)
        BY <2>1, <4>1, StartSays, SetupSays, SendSays
      <4>2. CASE \/ BlockReceive(b) \/ BlockDrained(b) \/ BlockTimer(b)
                 \/ BlockWork(b) \/ BlockDeinit(b)
        BY <1>1, <2>1, <4>2, RunSays, Waits
      <4> QED
        BY <3>2, <4>1, <4>2 DEF BlockNext
    <3>3. ASSUME MainNext PROVE FirstInv'
      <4>1. CASE MainSend \/ MainWaitInit
        BY <2>1, <4>1, MainSendSays, MainWaitInitSays
      <4>2. CASE MainInitSent \/ MainNotifyAll
        <5>1. mpc' # mpc
          BY <4>2 DEF MainInitSent, MainNotifyAll, MainAt
        <5> QED
          BY <2>2, <5>1
      <4>3. CASE MainRequeue \/ MainStarted \/ MainReturn \/ MainLoop \/ MainAnswer
        BY <1>3, <4>3 DEF MainRequeue, MainStarted, MainReturn, MainLoop, MainAnswer, MainAt,
                          Initializing
      <4> QED
        BY <3>3, <4>1, <4>2, <4>3 DEF MainNext
    <3>4. ASSUME NEW d \in Clients, ClientNext(d) PROVE FirstInv'
      <4>1. CASE ClientFlushed(d)
        BY <2>1, <4>1, MainSilent DEF ClientFlushed, blockVars, mainVars
      <4>2. CASE \E r \in Requests[d] : ClientAsk(d, r)
        BY <1>3, <4>2 DEF ClientAsk, Initializing
      <4> QED
        BY <3>4, <4>1, <4>2 DEF ClientNext
    <3>5. ASSUME Quiet \/ UNCHANGED vars PROVE FirstInv'
      BY <2>1, <3>5, MainSilent DEF Quiet, vars, blockVars, mainVars
    <3> QED
      BY <3>1, <3>2, <3>3, <3>4, <3>5 DEF Next
  <2>3. CASE mpc' # mpc
    <3>1. MainNext
      <4>1. ASSUME NEW b \in Blocks, BlockNext(b) PROVE mpc' = mpc
        BY <4>1 DEF BlockNext, BlockStart, BlockSetup, BlockReceive, BlockDrained, BlockTimer,
           BlockWork, BlockDeinit, BlockSend, mainVars
      <4>2. ASSUME NEW d \in Clients, ClientNext(d) PROVE mpc' = mpc
        BY <4>2 DEF ClientNext, ClientAsk, ClientFlushed, mainVars
      <4>3. ASSUME Quiet \/ UNCHANGED vars PROVE mpc' = mpc
        BY <4>3 DEF Quiet, vars, mainVars
      <4> QED
        BY <2>3, <4>1, <4>2, <4>3 DEF Next
    <3>2. CASE MainInitSent
      <4>1. Initializing' /\ UNCHANGED <<fg, pc, outbox, initLeft, mainbox>>
        BY <3>2 DEF MainInitSent, Initializing, blockVars
      <4> QED
        BY <2>1, <4>1, MainSilent
    <3>3. CASE MainNotifyAll
      <4>1. ~Initializing' /\ pc' = pc /\ initLeft = 0
        BY <3>3 DEF MainNotifyAll, Initializing, blockVars
      <4>2. Settled
        BY <2>1, <4>1, NobodyWaited
      <4> QED
        BY <1>1, <4>1, <4>2 DEF Settled
    <3>4. CASE MainSend \/ MainWaitInit
      BY <2>3, <3>4 DEF MainSend, MainWaitInit
    <3>5. CASE MainRequeue \/ MainStarted \/ MainReturn \/ MainLoop \/ MainAnswer
      BY <1>3, <3>5 DEF MainRequeue, MainStarted, MainReturn, MainLoop, MainAnswer, MainAt,
                        Initializing
    <3> QED
      BY <3>1, <3>2, <3>3, <3>4, <3>5 DEF MainNext
  <2> QED
    BY <2>2, <2>3
<1> QED
  BY <1>2, <1>3

\* At the beginning every block is waited for and nobody has said anything.
LEMMA InitBegins == Init => BeginInv
<1> SUFFICES ASSUME Init PROVE BeginInv
  OBVIOUS
<1>1. /\ fg \in Flowgraphs /\ mainbox = EmptyChannel
      /\ inbox = [b \in Blocks |-> EmptyChannel] /\ io = [b \in Blocks |-> FreshIo]
      /\ outbox = [b \in Blocks |-> <<>>] /\ pc = [b \in Blocks |-> "start"]
      /\ mainout = ToAll("Initialize") /\ mpc = "sendInit" /\ initLeft = N
  BY DEF Init
<1>2. Initializing /\ "start" \in Setup /\ EmptyChannel.queue = <<>>
  BY <1>1 DEF Initializing, Setup, EmptyChannel
<1>3. FirstInv
  <2>1. Len(<<>>) = 0 /\ 1..0 = {}
    BY SMT
  <2>2. \A b : ~Said(<<>>, b) /\ SaidOnce(<<>>, b) /\ Speaks(<<>>, b) /\ ~Saying(<<>>)
    BY <2>1 DEF Said, SaidOnce, Speaks, Saying
  <2>3. Speakers(<<>>, Blocks)
    BY <2>1 DEF Speakers
  <2>4. Waited = Blocks
    BY <1>1, <1>2 DEF Waited, Silent
  <2>5. initLeft = Cardinality(Waited)
    BY <1>1, <2>4, BlocksFinite
  <2> QED
    BY <1>1, <1>2, <2>2, <2>3, <2>5 DEF FirstInv, First
<1>4. AllCalm
  <2>1. mainout \in Seq(Sends) /\ Away(mainout)
    BY <1>1, ToAllAway DEF BlockMsgs
  <2>2. DueOnce(mainout)
    <3>1. PICK n \in Nat : n = N
      BY <1>1, BlocksFinite
    <3>2. PICK s : s = [b \in 1..n |-> Send(b, FromMain, "Initialize")]
      OBVIOUS
    <3>3. mainout = s /\ DOMAIN s = 1..n
      BY <1>1, <3>1, <3>2 DEF ToAll
    <3>4. Len(s) = n
      BY <2>1, <3>3, LenProperties, SMT
    <3>5. \A i \in 1..n : s[i].to = i
      BY <3>2 DEF Send
    <3> QED
      BY <3>3, <3>4, <3>5 DEF DueOnce
  <2>3. /\ \A b \in Blocks : Calm("start", <<>>, <<>>, mainout, b)
        /\ <<>> \in Seq(Notes)
    <3>1. Len(<<>>) = 0 /\ 0 <= 1 /\ <<>> \in Seq(Notes)
      BY EmptySeq, SMT
    <3> QED
      BY <1>2, <3>1, ReportCalm
  <2> QED
    BY <1>1, <1>2, <2>1, <2>2, <2>3 DEF AllCalm
<1> QED
  BY <1>2, <1>3, <1>4 DEF BeginInv, StartInv, CalmInv

\* The inductive invariant holds in every run: the first word of every block is
\* counted once, and nothing moves before all of them are (runtime.rs,
\* run_flowgraph; block.rs, the setup phase of run_impl).
THEOREM Begins == Spec => []BeginInv
<1>1. Init => BeginInv
  BY InitBegins
<1>2. IndInv /\ BeginInv /\ [Next]_vars => BeginInv'
  BY CalmStep, StartStep DEF BeginInv
<1> QED
  BY <1>1, <1>2, Inductive, PTL DEF Spec

\* run_flowgraph leaves its init phase only when no block is in its setup phase,
\* for every flowgraph in which no init() posts or no kernel fails behind its
\* init().
THEOREM AllInitializedHolds == Spec => []AllInitialized
<1>1. BeginInv => AllInitialized
  BY DEF BeginInv, StartInv, AllInitialized, Initializing, Settled, Setup
<1> QED
  BY <1>1, Begins, PTL

\* No block calls work() before every block has been initialized or has failed,
\* for every flowgraph in which no init() posts.
THEOREM StartTogetherHolds == Spec => []StartTogether
<1>1. BeginInv => StartTogether
  <2> SUFFICES ASSUME BeginInv, NoEarlyPosts, NEW b \in Blocks, pc[b] = "work"
               PROVE  \A c \in Blocks : pc[c] \notin {"start", "setup"}
    BY DEF StartTogether
  <2>1. CASE Initializing
    <3>1. Calm(pc[b], outbox[b], inbox[b].queue, mainout, b)
      BY <2>1 DEF BeginInv, CalmInv, AllCalm
    <3> QED
      BY <3>1 DEF Calm, Setup
  <2>2. CASE ~Initializing
    BY <2>2 DEF BeginInv, StartInv, Settled, Setup
  <2> QED
    BY <2>1, <2>2
<1> QED
  BY <1>1, Begins, PTL
=============================================================================
