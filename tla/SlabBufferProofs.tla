-------------------------- MODULE SlabBufferProofs --------------------------
(***************************************************************************)
(* Proofs about SlabBuffer, for every buffer length, every number of       *)
(* reserved items and every number of samples.                             *)
(*                                                                         *)
(* The order of the samples is invariant because the buffers form a chain: *)
(* the reader's current buffer starts at sample Len(got), each full buffer *)
(* starts where the one before it ends, and the writer's current buffer    *)
(* ends at sample number sent.                                             *)
(***************************************************************************)
EXTENDS SlabBuffer, TLAPS

TagSet == SUBSET [index : Nat, at : Nat]
Current == [buffer : Buffer, offset : Nat, end : Nat, tags : TagSet]
FullBuffer == [buffer : Buffer, items : Nat, tags : TagSet]

TypeInv ==
    /\ writerInput \in Seq(Buffer)
    /\ readerInput \in Seq(FullBuffer)
    /\ wcur \in Current /\ rcur \in Current
    /\ wpc \in {"idle", "sliced", "closing", "pushed", "closed"}
    /\ rpc \in {"idle", "work", "sliced", "check", "done"}
    /\ wwake \in BOOLEAN /\ rwake \in BOOLEAN
    /\ doneMsg \in BOOLEAN /\ finished \in BOOLEAN
    /\ sent \in 0..Total /\ got \in Seq(Int)

Filled == IF HasCur(wcur) THEN wcur.offset - Reserved ELSE 0

WriterInv ==
    /\ ~HasCur(wcur) => wcur = NoBuffer
    /\ HasCur(wcur) =>
         /\ wcur.end = BufferLen
         /\ wcur.offset \in Reserved..(BufferLen - 1)
         /\ \A o \in Reserved..(wcur.offset - 1) :
               wcur.buffer[o] = sent - (wcur.offset - o)
    /\ wpc = "sliced" => HasCur(wcur) /\ sent < Total
    /\ wpc = "idle" => sent < Total
    /\ wpc \in {"pushed", "closed"} => ~HasCur(wcur)
    /\ doneMsg \/ finished => wpc = "closed"

ReaderInv ==
    /\ ~HasCur(rcur) => rcur = NoBuffer
    /\ HasCur(rcur) => rcur.offset < rcur.end /\ rcur.end <= BufferLen
    /\ \A o \in rcur.offset..(rcur.end - 1) :
          rcur.buffer[o] = Len(got) + (o - rcur.offset)

\* The number of the first sample of the i-th full buffer; behind the last
\* one, of the first sample in the writer's current buffer.
Start(i) == IF i <= Len(readerInput) THEN readerInput[i].buffer[Reserved]
            ELSE sent - Filled

ChainInv ==
    /\ Start(1) = Len(got) + Left(rcur)
    /\ \A i \in 1..Len(readerInput) :
          /\ readerInput[i].items \in 1..(BufferLen - Reserved)
          /\ Start(i + 1) = Start(i) + readerInput[i].items
          /\ Start(i + 1) <= sent - Filled
          /\ \A k \in 0..(readerInput[i].items - 1) :
                readerInput[i].buffer[Reserved + k] = Start(i) + k

StopInv == rpc = "done" => wpc = "closed" /\ readerInput = <<>> /\ Left(rcur) < Need

IndInv == TypeInv /\ WriterInv /\ ReaderInv /\ ChainInv /\ StopInv

-----------------------------------------------------------------------------
\* connect() always leaves room for at least one item behind the reserved ones.
LEMMA BufferLenFact ==
    Reserved \in Nat /\ BufferLen \in Nat /\ Reserved < BufferLen
  <1>. DEFINE conf == IF WriterMinBuf # Unset \/ ReaderMinBuf # Unset
                      THEN Larger(Larger(WriterMinBuf, 0), Larger(ReaderMinBuf, 0))
                      ELSE ConfigItems
  <1>1. conf \in Nat
    BY SlabAssumption DEF Larger, Unset
  <1>2. Reserved \in Nat
    BY SlabAssumption DEF Reserved
  <1>3. BufferLen = Larger(conf, Reserved + 1)
    BY DEF BufferLen
  <1>. HIDE DEF conf
  <1>. QED  BY <1>1, <1>2, <1>3 DEF Larger

\* What pop_front() on a VecDeque returns and leaves.
LEMMA PopFront ==
    ASSUME NEW S, NEW s \in Seq(S), s # <<>>
    PROVE  /\ Head(s) \in S /\ Head(s) = s[1]
           /\ Tail(s) \in Seq(S) /\ Len(Tail(s)) = Len(s) - 1
           /\ \A i \in 1..Len(Tail(s)) : Tail(s)[i] = s[i + 1]
  OBVIOUS

\* What push_back() on a VecDeque leaves.
LEMMA PushBack ==
    ASSUME NEW S, NEW s \in Seq(S), NEW e \in S
    PROVE  /\ Append(s, e) \in Seq(S) /\ Len(Append(s, e)) = Len(s) + 1
           /\ Append(s, e)[Len(s) + 1] = e
           /\ \A i \in 1..Len(s) : Append(s, e)[i] = s[i]
  OBVIOUS

\* connect() and new() establish the chain of buffers: it is empty.
LEMMA InitInv == Init => IndInv
  <1>. SUFFICES ASSUME Init PROVE IndInv
    OBVIOUS
  <1>. USE BufferLenFact, SlabAssumption
  <1>a. [o \in Offsets |-> Default] \in Buffer
    BY DEF Buffer, Default
  <1>b. NoBuffer \in Current
    BY <1>a DEF NoBuffer, Current, TagSet
  <1>c. writerInput \in Seq(Buffer)
    BY <1>a DEF Init, NumBuffers
  <1>d. sent \in 0..Total /\ got \in Seq(Int) /\ readerInput \in Seq(FullBuffer)
    BY DEF Init
  <1>1. TypeInv
    BY <1>b, <1>c, <1>d, Zenon DEF Init, TypeInv
  <1>2. WriterInv
    BY DEF Init, WriterInv, HasCur, NoBuffer
  <1>3. ReaderInv
    BY DEF Init, ReaderInv, HasCur, NoBuffer
  <1>4. ChainInv
    BY DEF Init, ChainInv, HasCur, NoBuffer, Start, Filled, Left
  <1>5. StopInv
    BY DEF Init, StopInv
  <1>. QED  BY <1>1, <1>2, <1>3, <1>4, <1>5 DEF IndInv

\* Writer::slice_with_tags() takes an empty buffer and leaves the chain alone.
LEMMA WriterSliceInv == IndInv /\ WriterSlice => IndInv'
  <1>. SUFFICES ASSUME IndInv, WriterSlice PROVE IndInv'
    OBVIOUS
  <1>. USE BufferLenFact, SlabAssumption
  <1>a. writerInput # <<>> => Head(writerInput) \in Buffer /\ Tail(writerInput) \in Seq(Buffer)
    BY PopFront DEF IndInv, TypeInv
  <1>b. writerInput' \in Seq(Buffer)
    BY <1>a DEF IndInv, TypeInv, WriterSlice
  <1>c. wcur' \in Current
    BY <1>a DEF IndInv, TypeInv, WriterSlice, Current, TagSet
  <1>1. TypeInv'
    BY <1>b, <1>c DEF IndInv, TypeInv, WriterSlice, readerVars
  <1>2. WriterInv'
    BY DEF IndInv, TypeInv, WriterInv, WriterSlice, readerVars, HasCur, NoBuffer
  <1>3. ReaderInv'
    BY DEF IndInv, ReaderInv, WriterSlice, readerVars, HasCur
  <1>4. sent - Filled = sent' - Filled'
    BY DEF IndInv, TypeInv, WriterSlice, Filled, HasCur
  <1>5. ChainInv'
    BY <1>4 DEF IndInv, ChainInv, Start, WriterSlice, readerVars, Left
  <1>6. StopInv'
    BY DEF IndInv, StopInv, WriterSlice, readerVars, Left
  <1>. QED  BY <1>1, <1>2, <1>3, <1>5, <1>6 DEF IndInv

\* Writing n samples extends the run of consecutive samples in the current buffer.
LEMMA FillFact ==
    ASSUME IndInv, wpc = "sliced", NEW n \in Nat, n <= Room
    PROVE  LET c == Fill(wcur, n)
           IN  /\ c \in Current /\ c.end = BufferLen
               /\ c.offset = wcur.offset + n /\ c.offset <= BufferLen
               /\ \A o \in Reserved..(c.offset - 1) :
                     c.buffer[o] = (sent + n) - (c.offset - o)
  <1>. USE BufferLenFact
  <1>. DEFINE c == Fill(wcur, n)
  <1>1. /\ wcur \in Current /\ sent \in Nat /\ wcur.end = BufferLen
        /\ wcur.offset \in Reserved..(BufferLen - 1)
        /\ \A o \in Reserved..(wcur.offset - 1) : wcur.buffer[o] = sent - (wcur.offset - o)
    BY SlabAssumption DEF IndInv, TypeInv, WriterInv
  <1>2. c.buffer \in Buffer
    BY <1>1 DEF Fill, Current, Buffer
  <1>3. c.tags \in TagSet
    BY <1>1 DEF Fill, Current, TagSet
  <1>4. c.offset = wcur.offset + n /\ c.end = BufferLen /\ c.offset <= BufferLen
    BY <1>1 DEF Fill, Room
  <1>5. c \in Current
    BY <1>1, <1>2, <1>3 DEF Fill, Current
  <1>6. ASSUME NEW o \in Reserved..(c.offset - 1)
        PROVE  c.buffer[o] = (sent + n) - (c.offset - o)
    <2>1. o \in Offsets
      BY <1>1, <1>4 DEF Offsets
    <2>2. c.buffer[o] = IF o \in wcur.offset..(wcur.offset + n - 1)
                        THEN sent + (o - wcur.offset) ELSE wcur.buffer[o]
      BY <2>1 DEF Fill
    <2>. QED  BY <1>1, <1>4, <2>2
  <1>. QED  BY <1>4, <1>5, <1>6

\* A step that leaves the full buffers alone keeps the chain if the samples in
\* front of it and behind it still add up.
LEMMA SameChain ==
    ASSUME IndInv, readerInput' = readerInput,
           sent' - Filled' = sent - Filled,
           Len(got') + Left(rcur') = Len(got) + Left(rcur)
    PROVE  ChainInv'
  <1>1. \A i \in Nat : Start(i)' = Start(i)
    BY DEF Start
  <1>2. readerInput \in Seq(FullBuffer)
    BY DEF IndInv, TypeInv
  <1>. QED  BY <1>1, <1>2 DEF IndInv, ChainInv

\* Handing a filled buffer to the reader keeps the chain of full buffers.
LEMMA PushChain ==
    ASSUME IndInv, NEW c \in Current,
           c.offset \in (Reserved + 1)..BufferLen,
           sent' \in Nat,
           sent' - (c.offset - Reserved) = sent - Filled,
           \A o \in Reserved..(c.offset - 1) : c.buffer[o] = sent' - (c.offset - o),
           readerInput' = Append(readerInput, Full(c)),
           wcur' = NoBuffer,
           UNCHANGED <<rcur, got>>
    PROVE  readerInput' \in Seq(FullBuffer) /\ ChainInv'
  <1>. USE BufferLenFact
  <1>1. readerInput \in Seq(FullBuffer)
    BY DEF IndInv, TypeInv
  <1>2. Full(c) \in FullBuffer /\ Full(c).items = c.offset - Reserved /\ Full(c).buffer = c.buffer
    BY DEF Full, FullBuffer, Current
  <1>3. /\ readerInput' \in Seq(FullBuffer) /\ Len(readerInput') = Len(readerInput) + 1
        /\ readerInput'[Len(readerInput) + 1] = Full(c)
        /\ \A i \in 1..Len(readerInput) : readerInput'[i] = readerInput[i]
    BY <1>1, <1>2, PushBack
  <1>4. Filled' = 0
    BY DEF Filled, HasCur, NoBuffer
  <1>5. c.buffer[Reserved] = sent - Filled
    <2>1. c.buffer[Reserved] = sent' - (c.offset - Reserved)
      BY DEF Current
    <2>. QED  BY <2>1
  <1>6. \A i \in 1..(Len(readerInput) + 1) : Start(i)' = Start(i)
    BY <1>1, <1>2, <1>3, <1>5 DEF Start
  <1>8. Start(1)' = Len(got') + Left(rcur')
    BY <1>1, <1>6 DEF IndInv, ChainInv, Left
  <1>9. ASSUME NEW i \in 1..Len(readerInput')
        PROVE  /\ readerInput'[i].items \in 1..(BufferLen - Reserved)
               /\ Start(i + 1)' = Start(i)' + readerInput'[i].items
               /\ Start(i + 1)' <= sent' - Filled'
               /\ \A k \in 0..(readerInput'[i].items - 1) :
                     readerInput'[i].buffer[Reserved + k] = Start(i)' + k
    <2>1. CASE i <= Len(readerInput)
      <3>1. i \in 1..Len(readerInput) /\ i + 1 \in 1..(Len(readerInput) + 1)
        BY <1>1, <1>3, <2>1
      <3>2. sent - Filled <= sent' - Filled' /\ sent - Filled \in Int
        BY <1>4 DEF Current
      <3>3. /\ readerInput[i].items \in 1..(BufferLen - Reserved)
            /\ Start(i + 1) = Start(i) + readerInput[i].items
            /\ Start(i + 1) <= sent - Filled
            /\ \A k \in 0..(readerInput[i].items - 1) :
                  readerInput[i].buffer[Reserved + k] = Start(i) + k
        BY <3>1 DEF IndInv, ChainInv
      <3>4. Start(i + 1) \in Int
        <4>1. Reserved \in Offsets
          BY DEF Offsets
        <4>2. i + 1 <= Len(readerInput) => readerInput[i + 1] \in FullBuffer
          BY <1>1, <3>1
        <4>. QED  BY <3>2, <4>1, <4>2 DEF Start, FullBuffer, Buffer
      <3>5. /\ readerInput'[i] = readerInput[i]
            /\ Start(i)' = Start(i) /\ Start(i + 1)' = Start(i + 1)
        BY <1>3, <1>6, <3>1
      <3>6. Start(i + 1)' <= sent' - Filled'
        BY <1>4, <3>2, <3>3, <3>4, <3>5
      <3>. QED  BY <3>3, <3>5, <3>6, Zenon
    <2>2. CASE i = Len(readerInput) + 1
      <3>1. /\ Start(i)' = c.buffer[Reserved] /\ Start(i + 1)' = Start(i)' + Full(c).items
            /\ Start(i + 1)' <= sent' - Filled'
        <4>1. Start(i)' = c.buffer[Reserved]
          BY <1>1, <1>2, <1>3, <2>2 DEF Start
        <4>2. Start(i + 1)' = sent' - Filled'
          BY <1>1, <1>3, <2>2 DEF Start
        <4>3. sent' - Filled' = c.buffer[Reserved] + Full(c).items
          BY <1>2, <1>4, <1>5 DEF Current
        <4>. QED  BY <1>4, <4>1, <4>2, <4>3
      <3>2. \A k \in 0..(Full(c).items - 1) : c.buffer[Reserved + k] = c.buffer[Reserved] + k
        <4>1. c.offset \in Nat /\ Reserved \in Reserved..(c.offset - 1)
          BY DEF Current
        <4>2. c.buffer[Reserved] = sent' - (c.offset - Reserved)
          BY <4>1
        <4>3. ASSUME NEW k \in 0..(Full(c).items - 1)
              PROVE  c.buffer[Reserved + k] = c.buffer[Reserved] + k
          <5>1. Reserved + k \in Reserved..(c.offset - 1)
            BY <1>2, <4>1
          <5>2. c.buffer[Reserved + k] = sent' - (c.offset - (Reserved + k))
            BY <5>1
          <5>. QED  BY <4>1, <4>2, <5>2, <1>2
        <4>. QED  BY <4>3
      <3>3. Full(c).items \in 1..(BufferLen - Reserved) /\ readerInput'[i] = Full(c)
        BY <1>2, <1>3, <2>2 DEF Current
      <3>4. \A k \in 0..(Full(c).items - 1) : Full(c).buffer[Reserved + k] = Start(i)' + k
        BY <1>2, <3>1, <3>2, Zenon
      <3>. QED  BY <3>1, <3>3, <3>4, Zenon
    <2>3. i <= Len(readerInput) \/ i = Len(readerInput) + 1
      BY <1>1, <1>3
    <2>. QED  BY <2>1, <2>2, <2>3, Zenon
  <1>. QED  BY <1>3, <1>8, <1>9 DEF ChainInv

\* Writer::produce() extends the chain at its end.
LEMMA ProduceInv ==
    ASSUME IndInv, NEW n \in 0..BufferLen, Produce(n) PROVE IndInv'
  <1>. USE BufferLenFact, SlabAssumption
  <1>. DEFINE c == Fill(wcur, n)
             push == n > 0 /\ c.end - c.offset < WriterMinItems
  <1>1. /\ wpc = "sliced" /\ n \in Nat /\ n <= Room /\ n <= Total - sent
        /\ HasCur(wcur) /\ wcur.end = BufferLen
        /\ wcur.offset \in Reserved..(BufferLen - 1)
        /\ sent \in 0..Total /\ sent < Total
        /\ readerInput \in Seq(FullBuffer) /\ NoBuffer \in Current
    <2>1. NoBuffer \in Current
      BY DEF NoBuffer, Current, TagSet, Buffer, Default
    <2>. QED  BY <2>1 DEF Produce, Outputs, Room, IndInv, TypeInv, WriterInv
  <1>2. /\ c \in Current /\ c.end = BufferLen /\ c.offset = wcur.offset + n
        /\ c.offset <= BufferLen
        /\ \A o \in Reserved..(c.offset - 1) : c.buffer[o] = (sent + n) - (c.offset - o)
    BY <1>1, FillFact
  <1>. HIDE DEF c
  <1>3. /\ sent' = sent + n
        /\ wpc' = IF sent + n = Total THEN "closing" ELSE "idle"
        /\ wcur' = IF push THEN NoBuffer ELSE c
        /\ readerInput' = IF push THEN Append(readerInput, Full(c)) ELSE readerInput
        /\ rwake' \in BOOLEAN /\ wwake' \in BOOLEAN
        /\ UNCHANGED <<writerInput, doneMsg, rcur, rpc, finished, got>>
    BY DEF Produce, c, readerVars
  <1>4. sent' - (c.offset - Reserved) = sent - Filled
    BY <1>1, <1>2, <1>3 DEF Filled
  <1>c. \A o \in Reserved..(c.offset - 1) : c.buffer[o] = sent' - (c.offset - o)
    <2>1. sent + n = sent'
      BY <1>3
    <2>2. \A o \in Reserved..(c.offset - 1) : c.buffer[o] = (sent + n) - (c.offset - o)
      BY <1>2
    <2>. QED  BY <2>1, <2>2, Zenon
  <1>5. readerInput' \in Seq(FullBuffer) /\ ChainInv'
    <2>1. CASE push
      <3>1. c.offset \in (Reserved + 1)..BufferLen
        BY <1>1, <1>2, <2>1 DEF Current
      <3>3. readerInput' = Append(readerInput, Full(c)) /\ wcur' = NoBuffer /\ sent' \in Nat
        BY <1>1, <1>3, <2>1
      <3>. QED  BY <1>2, <1>3, <1>4, <1>c, <3>1, <3>3, PushChain
    <2>2. CASE ~push
      <3>1. Filled' = c.offset - Reserved
        BY <1>1, <1>2, <1>3, <2>2 DEF Filled, HasCur
      <3>2. readerInput' = readerInput /\ sent' - Filled' = sent - Filled
        BY <1>3, <1>4, <2>2, <3>1
      <3>. QED  BY <1>1, <1>3, <3>2, SameChain
    <2>. QED  BY <2>1, <2>2
  <1>6. TypeInv'
    <2>1. wcur' \in Current /\ sent' \in 0..Total
      BY <1>1, <1>2, <1>3
    <2>2. wpc' \in {"idle", "sliced", "closing", "pushed", "closed"}
      BY <1>3
    <2>. QED  BY <1>3, <1>5, <2>1, <2>2 DEF IndInv, TypeInv
  <1>7. WriterInv'
    <2>1. CASE push
      BY <1>1, <1>3, <2>1 DEF IndInv, WriterInv, HasCur, NoBuffer
    <2>2. CASE ~push
      <3>1. c.offset < BufferLen
        BY <1>1, <1>2, <2>2 DEF Current
      <3>2. wcur' = c /\ HasCur(wcur') /\ ~doneMsg' /\ ~finished'
        BY <1>1, <1>2, <1>3, <2>2 DEF HasCur, IndInv, WriterInv
      <3>4. wpc' \in {"idle", "closing"} /\ (wpc' = "idle" => sent' < Total)
        BY <1>1, <1>3
      <3>5. c.end = BufferLen /\ c.offset \in Reserved..(BufferLen - 1)
        BY <1>1, <1>2, <3>1 DEF Current
      <3>. QED  BY <1>c, <3>2, <3>4, <3>5 DEF WriterInv
    <2>. QED  BY <2>1, <2>2
  <1>8. ReaderInv'
    BY <1>3 DEF IndInv, ReaderInv, HasCur
  <1>9. StopInv'
    BY <1>1, <1>3 DEF IndInv, StopInv
  <1>. QED  BY <1>5, <1>6, <1>7, <1>8, <1>9 DEF IndInv

\* A writer that stops early, or has announced its end, leaves the chain alone.
LEMMA WriterStopInv ==
    IndInv /\ (WriterTerminate \/ WriterNotifyDone \/ ReaderDrain) => IndInv'
  <1>. SUFFICES ASSUME IndInv, WriterTerminate \/ WriterNotifyDone \/ ReaderDrain
                PROVE  IndInv'
    OBVIOUS
  <1>0. /\ UNCHANGED <<writerInput, readerInput, wcur, rcur, sent, got>>
        /\ (wpc' = wpc \/ (wpc = "idle" /\ wpc' = "closing") \/ (wpc = "pushed" /\ wpc' = "closed"))
        /\ (rpc' = rpc \/ rpc' = "work")
        /\ (doneMsg' \/ finished' => wpc' = "closed")
        /\ wwake' \in BOOLEAN /\ rwake' \in BOOLEAN
        /\ doneMsg' \in BOOLEAN /\ finished' \in BOOLEAN
    <2>1. CASE WriterTerminate
      BY <2>1 DEF WriterTerminate, readerVars, IndInv, TypeInv, WriterInv
    <2>2. CASE WriterNotifyDone
      BY <2>2 DEF WriterNotifyDone, readerVars, IndInv, TypeInv, WriterInv
    <2>3. CASE ReaderDrain
      BY <2>3 DEF ReaderDrain, writerVars, IndInv, TypeInv, WriterInv
    <2>. QED  BY <2>1, <2>2, <2>3
  <1>1. TypeInv'
    BY <1>0 DEF IndInv, TypeInv
  <1>2. WriterInv'
    BY <1>0 DEF IndInv, WriterInv, HasCur
  <1>3. ReaderInv'
    BY <1>0 DEF IndInv, ReaderInv, HasCur
  <1>4. ChainInv'
    BY <1>0 DEF IndInv, ChainInv, Start, Filled, HasCur, Left
  <1>5. StopInv'
    BY <1>0 DEF IndInv, StopInv, Left
  <1>. QED  BY <1>1, <1>2, <1>3, <1>4, <1>5 DEF IndInv

\* Writer::notify_finished() hands the partly filled buffer over to the chain.
LEMMA WriterFinishInv == ASSUME IndInv, WriterFinish PROVE IndInv'
  <1>. USE BufferLenFact, SlabAssumption
  <1>. DEFINE push == HasCur(wcur) /\ wcur.offset > Reserved
  <1>1. /\ wpc = "closing" /\ wpc' = "pushed" /\ wcur' = NoBuffer
        /\ readerInput' = IF push THEN Append(readerInput, Full(wcur)) ELSE readerInput
        /\ UNCHANGED <<writerInput, wwake, rwake, doneMsg, sent, rcur, rpc, finished, got>>
    BY DEF WriterFinish, readerVars
  <1>2. wcur \in Current /\ readerInput \in Seq(FullBuffer) /\ sent \in Nat
    BY DEF IndInv, TypeInv
  <1>3. readerInput' \in Seq(FullBuffer) /\ ChainInv'
    <2>1. CASE push
      <3>1. /\ wcur.offset \in (Reserved + 1)..BufferLen
            /\ \A o \in Reserved..(wcur.offset - 1) : wcur.buffer[o] = sent - (wcur.offset - o)
        BY <2>1 DEF IndInv, WriterInv
      <3>2. sent - (wcur.offset - Reserved) = sent - Filled
        BY <2>1 DEF Filled
      <3>. QED  BY <1>1, <1>2, <2>1, <3>1, <3>2, PushChain
    <2>2. CASE ~push
      <3>1. Filled = 0 /\ Filled' = 0
        BY <1>1, <1>2, <2>2 DEF Filled, IndInv, WriterInv, HasCur, NoBuffer
      <3>2. readerInput' = readerInput /\ sent' - Filled' = sent - Filled
        BY <1>1, <2>2, <3>1
      <3>. QED  BY <1>1, <1>2, <3>2, SameChain
    <2>. QED  BY <2>1, <2>2
  <1>4. NoBuffer \in Current
    BY DEF NoBuffer, Current, TagSet, Buffer, Default
  <1>5. TypeInv'
    BY <1>1, <1>3, <1>4 DEF IndInv, TypeInv
  <1>6. WriterInv'
    BY <1>1 DEF IndInv, WriterInv, HasCur, NoBuffer
  <1>7. ReaderInv'
    BY <1>1 DEF IndInv, ReaderInv, HasCur
  <1>8. StopInv'
    BY <1>1 DEF IndInv, StopInv
  <1>. QED  BY <1>3, <1>5, <1>6, <1>7, <1>8 DEF IndInv

\* Taking the first full buffer, merged or not, moves the chain on by one.
LEMMA PopChain ==
    ASSUME IndInv, readerInput # <<>>, rcur' \in Current,
           readerInput' = Tail(readerInput),
           Left(rcur') = Left(rcur) + Head(readerInput).items,
           UNCHANGED <<wcur, sent, got>>
    PROVE  readerInput' \in Seq(FullBuffer) /\ ChainInv'
  <1>1. readerInput \in Seq(FullBuffer) /\ rcur \in Current /\ got \in Seq(Int)
    BY DEF IndInv, TypeInv
  <1>2. /\ readerInput' \in Seq(FullBuffer) /\ Len(readerInput') = Len(readerInput) - 1
        /\ \A i \in 1..Len(readerInput') : readerInput'[i] = readerInput[i + 1]
        /\ Head(readerInput) = readerInput[1] /\ Len(readerInput) \in Nat \ {0}
    BY <1>1, PopFront
  <1>3. \A i \in Nat \ {0} : Start(i)' = Start(i + 1)
    BY <1>2 DEF Start, Filled, HasCur
  <1>4. Start(2) = Start(1) + Head(readerInput).items
    BY <1>2 DEF IndInv, ChainInv
  <1>5. Start(1)' = Len(got') + Left(rcur')
    <2>1. Left(rcur) \in Int /\ Head(readerInput).items \in Int /\ Len(got) \in Nat
      BY <1>1, <1>2 DEF Left, Current, IndInv, ChainInv
    <2>. QED  BY <1>3, <1>4, <2>1 DEF IndInv, ChainInv
  <1>6. ASSUME NEW i \in 1..Len(readerInput')
        PROVE  /\ readerInput'[i].items \in 1..(BufferLen - Reserved)
               /\ Start(i + 1)' = Start(i)' + readerInput'[i].items
               /\ Start(i + 1)' <= sent' - Filled'
               /\ \A k \in 0..(readerInput'[i].items - 1) :
                     readerInput'[i].buffer[Reserved + k] = Start(i)' + k
    <2>1. i + 1 \in 1..Len(readerInput) /\ i \in Nat \ {0} /\ i + 1 \in Nat \ {0}
      BY <1>2
    <2>2. /\ readerInput[i + 1].items \in 1..(BufferLen - Reserved)
          /\ Start((i + 1) + 1) = Start(i + 1) + readerInput[i + 1].items
          /\ Start((i + 1) + 1) <= sent - Filled
          /\ \A k \in 0..(readerInput[i + 1].items - 1) :
                readerInput[i + 1].buffer[Reserved + k] = Start(i + 1) + k
      BY <2>1 DEF IndInv, ChainInv
    <2>3. /\ readerInput'[i] = readerInput[i + 1]
          /\ Start(i)' = Start(i + 1) /\ Start(i + 1)' = Start((i + 1) + 1)
          /\ sent' - Filled' = sent - Filled
      BY <1>2, <1>3, <2>1 DEF Filled, HasCur
    <2>. QED  BY <2>2, <2>3, Zenon
  <1>. QED  BY <1>2, <1>5, <1>6 DEF ChainInv

\* The first full buffer holds the samples behind the reader's current buffer.
LEMMA FirstFull ==
    ASSUME IndInv, readerInput # <<>>
    PROVE  LET full == Head(readerInput)
           IN  /\ full \in FullBuffer
               /\ full.items \in 1..(BufferLen - Reserved)
               /\ \A k \in 0..(full.items - 1) :
                     full.buffer[Reserved + k] = Len(got) + Left(rcur) + k
  <1>1. readerInput \in Seq(FullBuffer)
    BY DEF IndInv, TypeInv
  <1>2. /\ Head(readerInput) \in FullBuffer /\ Head(readerInput) = readerInput[1]
        /\ 1 \in 1..Len(readerInput)
    BY <1>1, PopFront
  <1>3. /\ readerInput[1].items \in 1..(BufferLen - Reserved)
        /\ \A k \in 0..(readerInput[1].items - 1) :
              readerInput[1].buffer[Reserved + k] = Start(1) + k
        /\ Start(1) = Len(got) + Left(rcur)
    BY <1>2 DEF IndInv, ChainInv
  <1>. QED  BY <1>2, <1>3

\* Reader::slice_with_tags(), merging or not, takes the first buffer of the chain.
LEMMA ReaderSliceInv == ASSUME IndInv, ReaderSlice PROVE IndInv'
  <1>. USE BufferLenFact, SlabAssumption
  <1>. DEFINE full == Head(readerInput)
             merged == HasCur(rcur) /\ Left(rcur) <= Reserved /\ readerInput # <<>>
             fresh == ~HasCur(rcur) /\ readerInput # <<>>
  <1>0. /\ rpc = "work" /\ rpc' = "sliced" /\ wwake' \in BOOLEAN
        /\ UNCHANGED <<rwake, doneMsg, finished, got, wcur, wpc, sent>>
    BY DEF ReaderSlice, writerVars, IndInv, TypeInv
  <1>1. /\ rcur \in Current /\ readerInput \in Seq(FullBuffer)
        /\ writerInput \in Seq(Buffer) /\ got \in Seq(Int) /\ Len(got) \in Nat
        /\ ~HasCur(rcur) => rcur = NoBuffer
        /\ HasCur(rcur) => rcur.offset < rcur.end /\ rcur.end <= BufferLen
        /\ \A o \in rcur.offset..(rcur.end - 1) :
              rcur.buffer[o] = Len(got) + (o - rcur.offset)
    BY DEF IndInv, TypeInv, ReaderInv
  <1>2. readerInput # <<>> =>
           /\ full \in FullBuffer /\ full.items \in 1..(BufferLen - Reserved)
           /\ \A k \in 0..(full.items - 1) :
                 full.buffer[Reserved + k] = Len(got) + Left(rcur) + k
    BY FirstFull
  <1>. HIDE DEF full
  <1>3. /\ writerInput' \in Seq(Buffer) /\ readerInput' \in Seq(FullBuffer)
        /\ rcur' \in Current /\ ReaderInv' /\ ChainInv'
    <2>1. CASE merged
      <3>1. /\ rcur' = Merge(rcur, full) /\ readerInput' = Tail(readerInput)
            /\ writerInput' = Append(writerInput, rcur.buffer)
        BY <1>1, <2>1 DEF ReaderSlice, full, Left, Current
      <3>2. Left(rcur) \in 1..Reserved
        BY <1>1, <2>1 DEF Left, Current
      <3>3. /\ rcur'.offset = Reserved - Left(rcur) /\ rcur'.end = Reserved + full.items
            /\ rcur'.offset \in Nat /\ rcur'.end \in Nat /\ rcur'.end <= BufferLen
            /\ rcur'.offset < rcur'.end /\ rcur'.end > 0
        <4>1. rcur'.offset = Reserved - Left(rcur) /\ rcur'.end = Reserved + full.items
          BY <3>1 DEF Merge
        <4>2. full.items \in 1..(BufferLen - Reserved)
          BY <1>2, <2>1
        <4>. QED  BY <3>2, <4>1, <4>2
      <3>4. rcur'.buffer = [o \in Offsets |->
                              IF o \in (Reserved - Left(rcur))..(Reserved - 1)
                              THEN rcur.buffer[rcur.offset + (o - (Reserved - Left(rcur)))]
                              ELSE full.buffer[o]]
        BY <3>1 DEF Merge
      <3>5. rcur'.tags \in TagSet
        <4>1. /\ rcur.tags \in TagSet /\ full.tags \in TagSet
              /\ rcur'.tags = rcur.tags \cup {[t EXCEPT !.index = @ + Left(rcur)] : t \in full.tags}
          BY <1>1, <1>2, <2>1, <3>1 DEF Merge, Current, FullBuffer
        <4>. QED  BY <3>2, <4>1 DEF TagSet
      <3>6. ASSUME NEW o \in rcur'.offset..(rcur'.end - 1)
            PROVE  o \in Offsets /\ rcur'.buffer[o] = Len(got) + (o - rcur'.offset)
        <4>1. o \in Offsets
          BY <3>3 DEF Offsets
        <4>2. CASE o < Reserved
          <5>0. /\ rcur.offset \in Nat /\ rcur.end \in Nat /\ Left(rcur) = rcur.end - rcur.offset
                /\ o \in Nat
            BY <1>1, <4>1 DEF Left, Current, Offsets
          <5>1. /\ o \in (Reserved - Left(rcur))..(Reserved - 1)
                /\ rcur.offset + (o - (Reserved - Left(rcur))) \in rcur.offset..(rcur.end - 1)
            BY <3>2, <3>3, <4>2, <5>0
          <5>2. rcur'.buffer[o] = rcur.buffer[rcur.offset + (o - (Reserved - Left(rcur)))]
            BY <3>4, <4>1, <5>1
          <5>3. rcur'.buffer[o] = Len(got) +
                   ((rcur.offset + (o - (Reserved - Left(rcur)))) - rcur.offset)
            BY <1>1, <5>1, <5>2
          <5>. QED  BY <1>1, <3>2, <3>3, <4>1, <5>0, <5>3
        <4>3. CASE o >= Reserved
          <5>1. o - Reserved \in 0..(full.items - 1) /\ o = Reserved + (o - Reserved)
            BY <1>2, <2>1, <3>3, <4>3
          <5>2. rcur'.buffer[o] = full.buffer[Reserved + (o - Reserved)]
            BY <3>4, <4>1, <4>3, <5>1
          <5>3. rcur'.buffer[o] = Len(got) + Left(rcur) + (o - Reserved)
            BY <1>2, <2>1, <5>1, <5>2
          <5>. QED  BY <1>1, <3>2, <3>3, <4>1, <5>1, <5>3
        <4>. QED  BY <3>3, <4>1, <4>2, <4>3
      <3>7. rcur'.buffer \in Buffer
        <4>1. \A o \in Offsets : full.buffer[o] \in Int
          BY <1>2, <2>1 DEF FullBuffer, Buffer
        <4>2. ASSUME NEW o \in (Reserved - Left(rcur))..(Reserved - 1)
              PROVE  rcur.buffer[rcur.offset + (o - (Reserved - Left(rcur)))] \in Int
          <5>0. /\ rcur.offset \in Nat /\ rcur.end \in Nat /\ rcur.end <= BufferLen
                /\ Left(rcur) = rcur.end - rcur.offset
            BY <1>1, <2>1 DEF Left, Current
          <5>. HIDE DEF Left
          <5>1. rcur.offset + (o - (Reserved - Left(rcur))) \in Offsets
            BY <3>2, <5>0 DEF Offsets
          <5>. QED  BY <1>1, <5>1 DEF Current, Buffer
        <4>. QED  BY <3>4, <4>1, <4>2 DEF Buffer
      <3>8. rcur' \in Current
        BY <3>1, <3>3, <3>5, <3>7 DEF Merge, Current
      <3>9. ReaderInv'
        BY <1>0, <3>3, <3>6 DEF ReaderInv, HasCur
      <3>10. Left(rcur') = Left(rcur) + full.items
        BY <1>2, <2>1, <3>2, <3>3 DEF Left
      <3>11. readerInput' \in Seq(FullBuffer) /\ ChainInv'
        BY <1>0, <2>1, <3>1, <3>8, <3>10, PopChain DEF full
      <3>12. writerInput' \in Seq(Buffer)
        BY <1>1, <3>1, PushBack DEF Current
      <3>. QED  BY <3>8, <3>9, <3>11, <3>12
    <2>2. CASE fresh
      <3>1. /\ rcur' = Fresh(full) /\ readerInput' = Tail(readerInput)
            /\ writerInput' = writerInput
        BY <2>2 DEF ReaderSlice, full
      <3>2. /\ rcur'.offset = Reserved /\ rcur'.end = full.items + Reserved
            /\ rcur'.buffer = full.buffer /\ rcur'.end \in Nat
            /\ rcur'.end <= BufferLen /\ rcur'.offset < rcur'.end
        BY <1>2, <2>2, <3>1 DEF Fresh
      <3>3. rcur' \in Current
        BY <1>2, <2>2, <3>1, <3>2 DEF Fresh, Current, FullBuffer
      <3>4. Left(rcur) = 0
        BY <1>1, <2>2 DEF Left, NoBuffer
      <3>5. ASSUME NEW o \in rcur'.offset..(rcur'.end - 1)
            PROVE  rcur'.buffer[o] = Len(got) + (o - rcur'.offset)
        <4>1. o - Reserved \in 0..(full.items - 1) /\ o = Reserved + (o - Reserved)
          BY <1>2, <2>2, <3>2
        <4>2. full.buffer[Reserved + (o - Reserved)] = Len(got) + Left(rcur) + (o - Reserved)
          BY <1>2, <2>2, <4>1
        <4>. QED  BY <1>1, <3>2, <3>4, <4>1, <4>2
      <3>6. ReaderInv'
        BY <1>0, <3>2, <3>5 DEF ReaderInv, HasCur
      <3>7. Left(rcur') = Left(rcur) + full.items
        BY <1>2, <2>2, <3>2, <3>4 DEF Left
      <3>8. readerInput' \in Seq(FullBuffer) /\ ChainInv'
        BY <1>0, <2>2, <3>1, <3>3, <3>7, PopChain DEF full
      <3>. QED  BY <1>1, <3>1, <3>3, <3>6, <3>8
    <2>3. CASE ~merged /\ ~fresh
      <3>1. UNCHANGED <<rcur, readerInput, writerInput>>
        BY <1>1, <2>3 DEF ReaderSlice, Left, Current
      <3>2. ChainInv'
        BY <1>0, <3>1 DEF IndInv, ChainInv, Start, Filled, HasCur, Left
      <3>. QED  BY <1>0, <1>1, <3>1, <3>2 DEF ReaderInv, HasCur
    <2>. QED  BY <2>1, <2>2, <2>3
  <1>4. TypeInv'
    BY <1>0, <1>3 DEF IndInv, TypeInv
  <1>5. WriterInv'
    BY <1>0 DEF IndInv, WriterInv, HasCur
  <1>6. StopInv'
    BY <1>0 DEF StopInv
  <1>. QED  BY <1>3, <1>4, <1>5, <1>6 DEF IndInv

\* Consuming appends n samples to what the reader's kernel has seen.
LEMMA DeliveredFact ==
    ASSUME IndInv, NEW n \in Nat, n <= Left(rcur)
    PROVE  /\ Delivered(n) \in Seq(Int) /\ Len(Delivered(n)) = Len(got) + n
           /\ Delivered(n) = got \o Stream!Samples(Len(got), n)
  <1>. USE BufferLenFact
  <1>1. /\ rcur \in Current /\ got \in Seq(Int) /\ Len(got) \in Nat
        /\ \A o \in rcur.offset..(rcur.end - 1) :
              rcur.buffer[o] = Len(got) + (o - rcur.offset)
    BY DEF IndInv, TypeInv, ReaderInv
  <1>2. ASSUME NEW k \in 1..n
        PROVE  rcur.buffer[rcur.offset + k - 1] = Len(got) + k - 1
    <2>1. /\ rcur.offset \in Nat /\ rcur.end \in Nat
          /\ rcur.offset + k - 1 \in rcur.offset..(rcur.end - 1)
      BY <1>1 DEF Current, Left
    <2>2. rcur.buffer[rcur.offset + k - 1] = Len(got) + ((rcur.offset + k - 1) - rcur.offset)
      BY <1>1, <2>1
    <2>. QED  BY <1>1, <2>1, <2>2
  <1>3. [k \in 1..n |-> rcur.buffer[rcur.offset + k - 1]] = Stream!Samples(Len(got), n)
    BY <1>2 DEF Stream!Samples
  <1>4. Stream!Samples(Len(got), n) \in Seq(Int) /\ Len(Stream!Samples(Len(got), n)) = n
    BY <1>1 DEF Stream!Samples
  <1>5. Delivered(n) = got \o Stream!Samples(Len(got), n)
    BY <1>3 DEF Delivered
  <1>6. \A s, t \in Seq(Int) : s \o t \in Seq(Int) /\ Len(s \o t) = Len(s) + Len(t)
    OBVIOUS
  <1>7. /\ got \o Stream!Samples(Len(got), n) \in Seq(Int)
        /\ Len(got \o Stream!Samples(Len(got), n)) = Len(got) + n
    BY <1>1, <1>4, <1>6
  <1>. QED  BY <1>5, <1>7

\* Reader::consume() moves the beginning of the chain by what was delivered.
LEMMA ConsumeInv ==
    ASSUME IndInv, NEW n \in 0..BufferLen, Consume(n) PROVE IndInv'
  <1>. USE BufferLenFact, SlabAssumption
  <1>. DEFINE empty == n > 0 /\ Left(rcur) - n = 0
  <1>1. /\ rcur \in Current /\ rcur.offset \in Nat /\ rcur.end \in Nat
        /\ Left(rcur) = rcur.end - rcur.offset
        /\ got \in Seq(Int) /\ Len(got) \in Nat
        /\ writerInput \in Seq(Buffer) /\ NoBuffer \in Current
        /\ ~HasCur(rcur) => rcur = NoBuffer
        /\ HasCur(rcur) => rcur.offset < rcur.end /\ rcur.end <= BufferLen
        /\ \A o \in rcur.offset..(rcur.end - 1) :
              rcur.buffer[o] = Len(got) + (o - rcur.offset)
    <2>1. NoBuffer \in Current
      BY DEF NoBuffer, Current, TagSet, Buffer, Default
    <2>. QED  BY <2>1 DEF IndInv, TypeInv, ReaderInv, Current, Left
  <1>2. /\ rpc = "sliced" /\ rpc' = "check" /\ got' = Delivered(n)
        /\ rcur' = IF empty THEN NoBuffer ELSE [rcur EXCEPT !.offset = @ + n]
        /\ writerInput' = IF empty THEN Append(writerInput, rcur.buffer) ELSE writerInput
        /\ wwake' \in BOOLEAN /\ rwake' \in BOOLEAN
        /\ UNCHANGED <<readerInput, doneMsg, finished, wcur, wpc, sent>>
    BY DEF Consume, writerVars
  <1>3. n \in Nat /\ n <= Left(rcur) /\ (HasCur(rcur) => n < Left(rcur) \/ empty)
    <2>1. Left(rcur) \in Nat /\ Need \in Nat
      BY <1>1 DEF HasCur, NoBuffer
    <2>2. n \in Inputs
      BY DEF Consume
    <2>3. n <= Left(rcur)
      BY <2>1, <2>2 DEF Inputs
    <2>. QED  BY <1>1, <2>1, <2>3 DEF HasCur
  <1>4. got' \in Seq(Int) /\ Len(got') = Len(got) + n
    BY <1>2, <1>3, DeliveredFact
  <1>5. /\ rcur' \in Current /\ Left(rcur') = Left(rcur) - n /\ writerInput' \in Seq(Buffer)
        /\ ReaderInv'
    <2>1. CASE empty
      <3>1. rcur' = NoBuffer /\ writerInput' = Append(writerInput, rcur.buffer)
        BY <1>2, <2>1
      <3>2. writerInput' \in Seq(Buffer)
        BY <1>1, <3>1, PushBack DEF Current
      <3>3. rcur'.offset = 0 /\ rcur'.end = 0
        BY <3>1 DEF NoBuffer
      <3>. QED  BY <1>1, <2>1, <3>1, <3>2, <3>3 DEF Left, ReaderInv, HasCur
    <2>2. CASE ~empty
      <3>1. rcur' = [rcur EXCEPT !.offset = @ + n] /\ writerInput' = writerInput
        BY <1>2, <2>2
      <3>2. /\ rcur' \in Current /\ rcur'.offset = rcur.offset + n /\ rcur'.end = rcur.end
            /\ rcur'.buffer = rcur.buffer
        <4>1. /\ rcur'.offset = rcur.offset + n /\ rcur'.end = rcur.end
              /\ rcur'.buffer = rcur.buffer /\ rcur'.tags = rcur.tags
          BY <1>1, <3>1 DEF Current
        <4>2. rcur.offset + n \in Nat
          BY <1>1, <1>3
        <4>3. rcur' \in Current
          BY <1>1, <3>1, <4>2 DEF Current
        <4>. QED  BY <4>1, <4>3
      <3>3. Left(rcur') = Left(rcur) - n
        BY <1>1, <1>3, <3>2 DEF Left
      <3>4. ASSUME NEW o \in rcur'.offset..(rcur'.end - 1)
            PROVE  rcur'.buffer[o] = Len(got') + (o - rcur'.offset)
        <4>1. o \in rcur.offset..(rcur.end - 1)
          BY <1>1, <1>3, <3>2
        <4>2. rcur'.buffer[o] = Len(got) + (o - rcur.offset)
          BY <1>1, <3>2, <4>1
        <4>. QED  BY <1>1, <1>3, <1>4, <3>2, <4>1, <4>2
      <3>5. ~HasCur(rcur) => n = 0 /\ rcur' = rcur
        BY <1>1, <1>3, <3>1 DEF HasCur, NoBuffer
      <3>6. HasCur(rcur) => rcur'.offset < rcur'.end /\ rcur'.end <= BufferLen
        BY <1>1, <1>3, <2>2, <3>2
      <3>7. HasCur(rcur') <=> HasCur(rcur)
        BY <3>2 DEF HasCur
      <3>. QED  BY <1>1, <3>1, <3>2, <3>3, <3>4, <3>5, <3>6, <3>7 DEF ReaderInv
    <2>. QED  BY <2>1, <2>2
  <1>6. ChainInv'
    <2>1. readerInput' = readerInput /\ sent' - Filled' = sent - Filled
      BY <1>2 DEF Filled, HasCur
    <2>2. Len(got') + Left(rcur') = Len(got) + Left(rcur)
      BY <1>1, <1>3, <1>4, <1>5
    <2>. QED  BY <2>1, <2>2, SameChain
  <1>7. TypeInv'
    BY <1>2, <1>4, <1>5 DEF IndInv, TypeInv
  <1>8. WriterInv'
    BY <1>2 DEF IndInv, WriterInv, HasCur
  <1>9. StopInv'
    BY <1>2 DEF StopInv
  <1>. QED  BY <1>5, <1>6, <1>7, <1>8, <1>9 DEF IndInv

\* A kernel that stops because of Reader::finished() has seen the whole chain.
LEMMA ReaderCheckInv == ASSUME IndInv, ReaderCheck PROVE IndInv'
  <1>1. /\ UNCHANGED <<writerInput, readerInput, rcur, wwake, rwake, doneMsg,
                       finished, got, wcur, wpc, sent>>
        /\ rpc' \in {"done", "idle"}
        /\ rpc' = "done" => finished /\ readerInput = <<>> /\ Left(rcur) < Need
    BY DEF ReaderCheck, writerVars
  <1>2. TypeInv'
    BY <1>1 DEF IndInv, TypeInv
  <1>3. WriterInv'
    BY <1>1 DEF IndInv, WriterInv, HasCur
  <1>4. ReaderInv'
    BY <1>1 DEF IndInv, ReaderInv, HasCur
  <1>5. ChainInv'
    BY <1>1 DEF IndInv, ChainInv, Start, Filled, HasCur, Left
  <1>6. StopInv'
    BY <1>1 DEF IndInv, StopInv, WriterInv, Left
  <1>. QED  BY <1>2, <1>3, <1>4, <1>5, <1>6 DEF IndInv

\* A step that changes nothing keeps the invariant.
LEMMA StutterInv == ASSUME IndInv, UNCHANGED vars PROVE IndInv'
  <1>1. TypeInv' /\ WriterInv'
    BY DEF vars, IndInv, TypeInv, WriterInv, HasCur
  <1>2. ReaderInv' /\ StopInv'
    BY DEF vars, IndInv, ReaderInv, HasCur, StopInv, Left
  <1>3. ChainInv'
    BY DEF vars, IndInv, ChainInv, Start, Filled, HasCur, Left
  <1>. QED  BY <1>1, <1>2, <1>3 DEF IndInv

\* Every step of either block keeps the inductive invariant.
LEMMA StepInv == IndInv /\ [Next]_vars => IndInv'
  <1>. SUFFICES ASSUME IndInv, [Next]_vars PROVE IndInv'
    OBVIOUS
  <1>1. CASE WriterNext
    BY <1>1, WriterSliceInv, ProduceInv, WriterFinishInv, WriterStopInv DEF WriterNext
  <1>2. CASE WriterTerminate
    BY <1>2, WriterStopInv
  <1>3. CASE ReaderNext
    BY <1>3, WriterStopInv, ReaderSliceInv, ConsumeInv, ReaderCheckInv DEF ReaderNext
  <1>4. CASE Ended \/ UNCHANGED vars
    BY <1>4, StutterInv DEF Ended
  <1>. QED  BY <1>1, <1>2, <1>3, <1>4 DEF Next

\* The chain of buffers is an invariant of the slab buffer.
THEOREM IndInvHolds == Spec => []IndInv
  BY InitInv, StepInv, PTL DEF Spec

\* Every index slab.rs computes stays inside its buffer, for all buffer sizes.
THEOREM TypeOKHolds == Spec => []TypeOK
  <1>. DEFINE full == [buffer : Buffer, items : 1..(BufferLen - Reserved), tags : TagSet]
              cur  == [buffer : Buffer, offset : 0..BufferLen, end : 0..BufferLen, tags : TagSet]
  <1>1. IndInv => TypeOK
    <2>. SUFFICES ASSUME IndInv PROVE TypeOK
      OBVIOUS
    <2>. USE BufferLenFact, SlabAssumption
    <2>1. \A i \in 1..Len(readerInput) : readerInput[i] \in full
      <3>. SUFFICES ASSUME NEW i \in 1..Len(readerInput) PROVE readerInput[i] \in full
        OBVIOUS
      <3>1. readerInput[i] \in FullBuffer
        BY DEF IndInv, TypeInv
      <3>2. readerInput[i].items \in 1..(BufferLen - Reserved)
        BY DEF IndInv, ChainInv
      <3>. QED  BY <3>1, <3>2 DEF FullBuffer
    <2>2. readerInput \in Seq(full)
      <3>. HIDE DEF full
      <3>. QED  BY <2>1 DEF IndInv, TypeInv
    <2>3. wcur \in cur
      BY DEF IndInv, TypeInv, WriterInv, Current, NoBuffer, HasCur
    <2>4. rcur \in cur
      BY DEF IndInv, TypeInv, ReaderInv, Current, NoBuffer, HasCur
    <2>. QED  BY <2>2, <2>3, <2>4 DEF IndInv, TypeInv, TypeOK, TagSet
  <1>. QED  BY <1>1, IndInvHolds, PTL

\* Every slice the reader's kernel gets holds the next unread samples in order,
\* whatever was merged in slice_with_tags(), for all buffer sizes.
THEOREM ReaderSeesNextHolds == Spec => []ReaderSeesNext
  <1>1. IndInv => ReaderSeesNext
    BY BufferLenFact DEF IndInv, TypeInv, ReaderInv, ReaderSeesNext, Current, Offsets, HasCur, NoBuffer
  <1>. QED  BY <1>1, IndInvHolds, PTL

\* The first full buffer does not start behind what was produced.
LEMMA StartBound == IndInv => Start(1) <= sent /\ Start(1) \in Int
  <1>. SUFFICES ASSUME IndInv PROVE Start(1) <= sent /\ Start(1) \in Int
    OBVIOUS
  <1>1. /\ sent \in Nat /\ readerInput \in Seq(FullBuffer) /\ Filled \in Nat
        /\ rcur \in Current /\ got \in Seq(Int)
    BY BufferLenFact DEF IndInv, TypeInv, WriterInv, Filled, Current
  <1>2. Start(1) \in Int
    BY <1>1 DEF IndInv, ChainInv, Left, Current
  <1>3. CASE readerInput = <<>>
    BY <1>1, <1>3 DEF Start
  <1>4. CASE readerInput # <<>>
    <2>1. /\ 1 \in 1..Len(readerInput)
          /\ readerInput[1].items \in 1..(BufferLen - Reserved)
          /\ Start(1 + 1) = Start(1) + readerInput[1].items /\ Start(1 + 1) <= sent - Filled
      BY <1>1, <1>4 DEF IndInv, ChainInv
    <2>. QED  BY <1>1, <1>2, <2>1, BufferLenFact
  <1>. QED  BY <1>2, <1>3, <1>4

\* When the reader has stopped, less than one unit is unread.
LEMMA DoneBound == IndInv => NothingLeftBehind
  <1>. SUFFICES ASSUME IndInv, rpc = "done" PROVE sent - Len(got) < Need
      BY DEF NothingLeftBehind
  <1>1. readerInput = <<>> /\ Left(rcur) < Need /\ ~HasCur(wcur)
      BY DEF IndInv, StopInv, WriterInv
  <1>2. Start(1) = sent
      BY <1>1 DEF Start, Filled, IndInv, TypeInv
  <1>. QED  BY <1>1, <1>2, SlabAssumption DEF IndInv, ChainInv, TypeInv, Left, Current

\* When the reader's kernel stops, less than one of its work units is unread.
THEOREM NothingLeftBehindHolds == Spec => []NothingLeftBehind
  BY DoneBound, IndInvHolds, PTL

-----------------------------------------------------------------------------
(* No lost wake-up.  A buffer that is large enough is never seen by a      *)
(* kernel that cannot use it, so the self-notifications of produce() and   *)
(* consume() cover every case in which a queue is not empty.               *)

Announced == rwake \/ doneMsg \/ wpc = "pushed"

SleepInv ==
    /\ wpc \in {"idle", "sliced"} /\ HasCur(wcur) => Room >= WriterMinItems
    /\ WriterNotForgotten
    /\ \A i \in 1..Len(readerInput) :
          \/ readerInput[i].items >= Need
          \/ i = Len(readerInput) /\ wpc \in {"pushed", "closed"}
    /\ readerInput # <<>> /\ (rpc \in {"idle", "check"} \/ (rpc = "sliced" /\ Left(rcur) < Need))
          => Announced

Bit(b) == IF b THEN 1 ELSE 0
CountInv ==
    LET held == Len(writerInput) + Len(readerInput) + Bit(HasCur(wcur)) + Bit(HasCur(rcur))
    IN  held = NumBuffers \/ (held = NumBuffers - 1 /\ wpc \in {"pushed", "closed"})

\* Every hand-over of a buffer keeps the number of buffers.
LEMMA CountStep == IndInv /\ CountInv /\ [Next]_vars => CountInv'
  <1>. SUFFICES ASSUME IndInv, CountInv, [Next]_vars PROVE CountInv'
    OBVIOUS
  <1>. USE BufferLenFact, SlabAssumption DEF NumBuffers
  <1>0. /\ writerInput \in Seq(Buffer) /\ readerInput \in Seq(FullBuffer)
        /\ wcur \in Current /\ rcur \in Current
    BY DEF IndInv, TypeInv
  <1>1. CASE WriterSlice
    BY <1>0, <1>1, PopFront DEF WriterSlice, readerVars, CountInv, Bit, HasCur
  <1>2. ASSUME NEW n \in 0..BufferLen, Produce(n) PROVE CountInv'
    <2>1. /\ wpc = "sliced" /\ HasCur(wcur) /\ Fill(wcur, n).end = wcur.end
          /\ Full(Fill(wcur, n)) \in FullBuffer
      <3>1. n \in Nat /\ n <= Room /\ wpc = "sliced"
        BY <1>2, <1>0 DEF Produce, Outputs, Room, Current, IndInv, WriterInv
      <3>2. Fill(wcur, n) \in Current /\ Fill(wcur, n).offset >= Reserved
        BY <3>1, FillFact DEF IndInv, WriterInv
      <3>. QED  BY <3>1, <3>2 DEF IndInv, WriterInv, Fill, Full, FullBuffer, Current
    <2>2. wpc' \in {"idle", "closing"} /\ UNCHANGED <<writerInput, rcur>>
      BY <1>2 DEF Produce, readerVars
    <2>3. \/ readerInput' = readerInput /\ HasCur(wcur')
          \/ Len(readerInput') = Len(readerInput) + 1 /\ ~HasCur(wcur')
      BY <1>0, <1>2, <2>1, PushBack DEF Produce, HasCur, NoBuffer
    <2>. QED  BY <1>0, <2>1, <2>2, <2>3 DEF CountInv, Bit
  <1>3. CASE WriterFinish
    <2>1. HasCur(wcur) => Full(wcur) \in FullBuffer
      BY <1>0 DEF IndInv, WriterInv, Full, FullBuffer, Current
    <2>2. wpc = "closing" /\ wpc' = "pushed" /\ ~HasCur(wcur') /\ UNCHANGED <<writerInput, rcur>>
      BY <1>3 DEF WriterFinish, readerVars, HasCur, NoBuffer
    <2>3. \/ readerInput' = readerInput
          \/ Len(readerInput') = Len(readerInput) + 1 /\ HasCur(wcur)
      BY <1>0, <1>3, <2>1, PushBack DEF WriterFinish
    <2>. QED  BY <1>0, <2>2, <2>3 DEF CountInv, Bit
  <1>4. CASE WriterNotifyDone \/ WriterTerminate \/ ReaderDrain \/ ReaderCheck
    BY <1>0, <1>4 DEF WriterNotifyDone, WriterTerminate, ReaderDrain, ReaderCheck,
                      readerVars, writerVars, CountInv, Bit, HasCur
  <1>5. CASE ReaderSlice
    <2>1. readerInput # <<>> => /\ Len(Tail(readerInput)) = Len(readerInput) - 1
                                /\ Head(readerInput).items \in Nat \ {0}
      BY <1>0, PopFront, FirstFull
    <2>2. Len(Append(writerInput, rcur.buffer)) = Len(writerInput) + 1
      BY <1>0, PushBack DEF Current
    <2>3. UNCHANGED <<wcur, wpc>>
      BY <1>5 DEF ReaderSlice, writerVars
    <2>4. readerInput # <<>> => /\ HasCur(Merge(rcur, Head(readerInput)))
                                /\ HasCur(Fresh(Head(readerInput)))
      BY <2>1 DEF HasCur, Merge, Fresh
    <2>5. \/ /\ HasCur(rcur) /\ HasCur(rcur') /\ Len(readerInput') = Len(readerInput) - 1
             /\ Len(writerInput') = Len(writerInput) + 1
          \/ UNCHANGED <<rcur, readerInput, writerInput>>
          \/ /\ ~HasCur(rcur) /\ HasCur(rcur') /\ Len(readerInput') = Len(readerInput) - 1
             /\ writerInput' = writerInput
      BY <1>5, <2>1, <2>2, <2>4 DEF ReaderSlice
    <2>. QED  BY <1>0, <2>3, <2>5 DEF CountInv, Bit
  <1>6. ASSUME NEW n \in 0..BufferLen, Consume(n) PROVE CountInv'
    <2>1. Len(Append(writerInput, rcur.buffer)) = Len(writerInput) + 1
      BY <1>0, PushBack DEF Current
    <2>2. UNCHANGED <<readerInput, wcur, wpc>>
      BY <1>6 DEF Consume, writerVars
    <2>3. n > 0 /\ Left(rcur) - n = 0 => HasCur(rcur)
      BY <1>0 DEF Left, HasCur, Current
    <2>4. \/ HasCur(rcur) /\ ~HasCur(rcur') /\ Len(writerInput') = Len(writerInput) + 1
          \/ (HasCur(rcur) <=> HasCur(rcur')) /\ writerInput' = writerInput
      <3>1. CASE n > 0 /\ Left(rcur) - n = 0
        BY <1>6, <2>1, <2>3, <3>1 DEF Consume, HasCur, NoBuffer
      <3>2. CASE ~(n > 0 /\ Left(rcur) - n = 0)
        BY <1>0, <1>6, <3>2 DEF Consume, HasCur, Current
      <3>. QED  BY <3>1, <3>2
    <2>. QED  BY <1>0, <2>2, <2>4 DEF CountInv, Bit
  <1>7. CASE UNCHANGED vars
    BY <1>7 DEF vars, CountInv, Bit, HasCur
  <1>. QED  BY <1>1, <1>2, <1>3, <1>4, <1>5, <1>6, <1>7 DEF Next, WriterNext, ReaderNext, Ended

\* No hand-over loses or duplicates a buffer.
THEOREM BuffersConservedHolds == Spec => []BuffersConserved
  <1>1. Init => CountInv
    BY DEF Init, CountInv, Bit, HasCur, NoBuffer, NumBuffers
  <1>2. IndInv /\ CountInv => BuffersConserved
    BY DEF CountInv, Bit, BuffersConserved, NumBuffers
  <1>. QED  BY <1>1, <1>2, CountStep, IndInvHolds, PTL DEF Spec

\* Every step leaves a wake-up for one of the two blocks.
LEMMA SleepStep == LargeEnough /\ IndInv /\ IndInv' /\ SleepInv /\ [Next]_vars => SleepInv'
  <1>. SUFFICES ASSUME LargeEnough, IndInv, IndInv', SleepInv, [Next]_vars PROVE SleepInv'
    OBVIOUS
  <1>. USE BufferLenFact, SlabAssumption
  <1>0. /\ writerInput \in Seq(Buffer) /\ readerInput \in Seq(FullBuffer)
        /\ wcur \in Current /\ rcur \in Current /\ sent \in 0..Total
        /\ wwake \in BOOLEAN /\ rwake \in BOOLEAN /\ doneMsg \in BOOLEAN
        /\ Left(rcur) \in Int
    BY DEF IndInv, TypeInv, Left, Current
  <1>1. CASE WriterSlice
    <2>1. WriterNotForgotten'
      BY <1>0, <1>1 DEF WriterSlice, WriterNotForgotten, HasCur
    <2>2. wpc' \in {"idle", "sliced"} /\ HasCur(wcur') => Room' >= WriterMinItems
      BY <1>0, <1>1 DEF WriterSlice, SleepInv, LargeEnough, HasCur, Room
    <2>3. UNCHANGED <<readerInput, rwake, doneMsg, rpc, rcur>> /\ wpc = "idle" /\ wpc' \in {"idle", "sliced"}
      BY <1>1 DEF WriterSlice, readerVars
    <2>. QED  BY <2>1, <2>2, <2>3 DEF SleepInv, Announced, Left
  <1>2. ASSUME NEW n \in 0..BufferLen, Produce(n) PROVE SleepInv'
    <2>. DEFINE c == Fill(wcur, n)
               push == n > 0 /\ c.end - c.offset < WriterMinItems
    <2>1. /\ wpc = "sliced" /\ HasCur(wcur) /\ Room >= WriterMinItems /\ n \in Outputs
          /\ wcur.end = BufferLen /\ wcur.offset \in Reserved..(BufferLen - 1) /\ sent < Total
      BY <1>2 DEF Produce, IndInv, WriterInv, SleepInv
    <2>2. n \in Nat /\ n <= Room
      BY <1>0, <2>1 DEF Outputs, Room
    <2>3. /\ c \in Current /\ c.end = BufferLen /\ c.offset = wcur.offset + n
          /\ c.offset \in Nat /\ c.offset <= BufferLen
      BY <2>1, <2>2, FillFact DEF Current
    <2>. HIDE DEF c
    <2>4. /\ wcur' = IF push THEN NoBuffer ELSE c
          /\ readerInput' = IF push THEN Append(readerInput, Full(c)) ELSE readerInput
          /\ rwake' = (rwake \/ push)
          /\ wwake' = (wwake \/ (push /\ writerInput # <<>>) \/ (Room >= WriterMinItems /\ n < Room))
          /\ wpc' \in {"idle", "closing"}
          /\ UNCHANGED <<writerInput, doneMsg, rpc, rcur>>
      BY <1>2 DEF Produce, c, readerVars
    <2>5. CASE push
      <3>1. ~HasCur(wcur') /\ rwake' /\ (writerInput' # <<>> => wwake')
        <4>1. wcur' = NoBuffer
          BY <2>4, <2>5
        <4>2. ~HasCur(wcur')
          BY <4>1 DEF HasCur, NoBuffer
        <4>3. rwake' /\ (writerInput' # <<>> => wwake')
          BY <2>4, <2>5, Zenon
        <4>. QED  BY <4>2, <4>3
      <3>2. Full(c) \in FullBuffer /\ Full(c).items >= Need
        BY <2>1, <2>2, <2>3, <2>5 DEF Full, FullBuffer, Current, LargeEnough
      <3>3. /\ Len(readerInput') = Len(readerInput) + 1
            /\ readerInput'[Len(readerInput) + 1] = Full(c)
            /\ \A i \in 1..Len(readerInput) : readerInput'[i] = readerInput[i]
        BY <1>0, <2>4, <2>5, <3>2, PushBack
      <3>4. \A i \in 1..Len(readerInput) : readerInput[i].items >= Need
        BY <2>1 DEF SleepInv
      <3>5. \A i \in 1..Len(readerInput') : readerInput'[i].items >= Need
        BY <1>0, <3>2, <3>3, <3>4
      <3>. QED  BY <2>4, <3>1, <3>5 DEF SleepInv, Announced, WriterNotForgotten
    <2>6. CASE ~push
      <3>1. wcur' = c /\ c.end - c.offset >= WriterMinItems /\ readerInput' = readerInput
        <4>1. n = 0 => c.end - c.offset = Room
          BY <2>1, <2>3 DEF Room
        <4>. QED  BY <2>1, <2>2, <2>3, <2>4, <2>6, <4>1
      <3>2. n < Room
        BY <2>1, <2>2, <2>3, <3>1 DEF Room
      <3>3. wwake' /\ Room' >= WriterMinItems
        <4>1. Room >= WriterMinItems /\ n < Room
          BY <2>1, <3>2
        <4>2. wwake'
          BY <2>4, <4>1, Zenon
        <4>3. Room' >= WriterMinItems
          BY <3>1 DEF Room
        <4>. QED  BY <4>2, <4>3
      <3>4. \A i \in 1..Len(readerInput) : readerInput[i].items >= Need
        BY <2>1 DEF SleepInv
      <3>5. Announced => Announced'
        BY <2>1, <2>4 DEF Announced
      <3>. QED  BY <2>4, <3>1, <3>3, <3>4, <3>5 DEF SleepInv, WriterNotForgotten, Left
    <2>. QED  BY <2>5, <2>6
  <1>3. CASE WriterFinish
    <2>1. wpc = "closing" /\ wpc' = "pushed" /\ UNCHANGED <<writerInput, rpc, rcur, rwake, doneMsg>>
      BY <1>3 DEF WriterFinish, readerVars
    <2>2. Announced'
      BY <2>1 DEF Announced
    <2>3. \A i \in 1..Len(readerInput) : readerInput[i].items >= Need
      BY <2>1 DEF SleepInv
    <2>4. \A i \in 1..Len(readerInput') : readerInput'[i].items >= Need \/ i = Len(readerInput')
      <3>1. CASE HasCur(wcur) /\ wcur.offset > Reserved
        <4>1. Full(wcur) \in FullBuffer
          BY <1>0, <3>1 DEF Full, FullBuffer, Current
        <4>2. readerInput' = Append(readerInput, Full(wcur))
          BY <1>3, <3>1 DEF WriterFinish
        <4>. QED  BY <1>0, <2>3, <4>1, <4>2, PushBack
      <3>2. CASE ~(HasCur(wcur) /\ wcur.offset > Reserved)
        BY <1>3, <2>3, <3>2 DEF WriterFinish
      <3>. QED  BY <3>1, <3>2
    <2>. QED  BY <2>1, <2>2, <2>4 DEF SleepInv, WriterNotForgotten
  <1>4. CASE WriterNotifyDone
    <2>1. /\ wpc = "pushed" /\ wpc' = "closed" /\ doneMsg'
          /\ UNCHANGED <<writerInput, readerInput, wcur, wwake, rwake, rpc, rcur>>
      BY <1>4 DEF WriterNotifyDone, readerVars
    <2>. QED  BY <2>1 DEF SleepInv, Announced, WriterNotForgotten, Left
  <1>5. CASE WriterTerminate
    <2>1. /\ wpc = "idle" /\ wpc' = "closing"
          /\ UNCHANGED <<writerInput, readerInput, wcur, wwake, rwake, doneMsg, rpc, rcur>>
      BY <1>5 DEF WriterTerminate, readerVars
    <2>. QED  BY <2>1 DEF SleepInv, Announced, WriterNotForgotten, Left
  <1>6. CASE ReaderDrain
    <2>1. rpc' = "work" /\ UNCHANGED <<writerInput, readerInput, wcur, wwake, wpc>>
      BY <1>6 DEF ReaderDrain, writerVars
    <2>. QED  BY <2>1 DEF SleepInv, WriterNotForgotten, HasCur, Room
  <1>7. CASE ReaderSlice
    <2>1. rpc' = "sliced" /\ UNCHANGED <<rwake, doneMsg, wcur, wpc>>
      BY <1>7 DEF ReaderSlice, writerVars
    <2>2. WriterNotForgotten'
      BY <1>7, <2>1 DEF ReaderSlice, WriterNotForgotten, SleepInv, HasCur
    <2>3. CASE readerInput = <<>>
      <3>1. readerInput' = <<>>
        BY <1>7, <2>3 DEF ReaderSlice
      <3>. QED  BY <1>0, <2>1, <2>2, <3>1 DEF SleepInv, HasCur, Room
    <2>4. CASE HasCur(rcur) /\ Left(rcur) > Reserved
      <3>1. UNCHANGED <<rcur, readerInput>>
        BY <1>0, <1>7, <2>4 DEF ReaderSlice
      <3>2. Left(rcur') >= Need
        BY <1>0, <2>4, <3>1 DEF Reserved
      <3>. QED  BY <1>0, <2>1, <2>2, <3>1, <3>2 DEF SleepInv, HasCur, Room
    <2>5. CASE readerInput # <<>> /\ ~(HasCur(rcur) /\ Left(rcur) > Reserved)
      <3>. DEFINE full == Head(readerInput)
      <3>1. readerInput' = Tail(readerInput) /\ rcur' \in {Merge(rcur, full), Fresh(full)}
        BY <1>0, <1>7, <2>5 DEF ReaderSlice
      <3>2. /\ full \in FullBuffer /\ full = readerInput[1] /\ Len(readerInput) \in Nat \ {0}
            /\ readerInput' \in Seq(FullBuffer) /\ Len(readerInput') = Len(readerInput) - 1
            /\ \A i \in 1..Len(readerInput') : readerInput'[i] = readerInput[i + 1]
        BY <1>0, <2>5, <3>1, PopFront
      <3>3. Left(rcur) \in Nat
        BY <1>0 DEF IndInv, ReaderInv, Left, HasCur, Current, NoBuffer
      <3>4. Left(rcur') >= full.items
        BY <1>0, <3>1, <3>2, <3>3 DEF Left, Merge, Fresh, FullBuffer
      <3>5. readerInput' # <<>> => full.items >= Need
        BY <3>2 DEF SleepInv
      <3>6. \A i \in 1..Len(readerInput') :
                \/ readerInput'[i].items >= Need
                \/ i = Len(readerInput') /\ wpc' \in {"pushed", "closed"}
        <4>1. ASSUME NEW i \in 1..Len(readerInput')
              PROVE  \/ readerInput'[i].items >= Need
                     \/ i = Len(readerInput') /\ wpc' \in {"pushed", "closed"}
          <5>1. i + 1 \in 1..Len(readerInput) /\ readerInput'[i] = readerInput[i + 1]
            BY <3>2
          <5>. QED  BY <2>1, <3>2, <5>1 DEF SleepInv
        <4>. QED  BY <4>1
      <3>7. Left(rcur') \in Int /\ full.items \in Int
        <4>1. rcur' \in Current
          BY DEF IndInv, TypeInv
        <4>. QED  BY <3>2, <4>1 DEF Left, Current, FullBuffer
      <3>8. readerInput' # <<>> => Left(rcur') >= Need
        BY <3>4, <3>5, <3>7
      <3>. QED  BY <2>1, <2>2, <3>6, <3>7, <3>8 DEF SleepInv, HasCur, Room
    <2>. QED  BY <2>3, <2>4, <2>5
  <1>8. ASSUME NEW n \in 0..BufferLen, Consume(n) PROVE SleepInv'
    <2>1. rpc = "sliced" /\ rpc' = "check" /\ UNCHANGED <<readerInput, doneMsg, wcur, wpc>>
      BY <1>8 DEF Consume, writerVars
    <2>2. WriterNotForgotten'
      BY <1>8, <2>1 DEF Consume, WriterNotForgotten, SleepInv, HasCur
    <2>3. readerInput # <<>> => Announced'
      <3>1. CASE Left(rcur) < Need
        BY <1>0, <1>8, <2>1, <3>1 DEF SleepInv, Announced, Consume
      <3>2. CASE Left(rcur) >= Need
        <4>1. n \in Nat /\ n > 0 /\ Left(rcur) - n < Need
          BY <1>0, <1>8, <3>2 DEF Consume, Inputs
        <4>2. Left(rcur) - n <= Reserved
          BY <1>0, <4>1 DEF Reserved
        <4>. QED  BY <1>8, <4>1, <4>2 DEF Consume, Announced
      <3>. QED  BY <1>0, <3>1, <3>2
    <2>. QED  BY <2>1, <2>2, <2>3 DEF SleepInv, HasCur, Room
  <1>9. CASE ReaderCheck
    <2>1. rpc = "check" /\ UNCHANGED <<writerInput, readerInput, wcur, wwake, rwake, doneMsg, wpc>>
          /\ rpc' \in {"idle", "done"}
      BY <1>9 DEF ReaderCheck, writerVars
    <2>. QED  BY <2>1 DEF SleepInv, Announced, WriterNotForgotten, HasCur, Room
  <1>10. CASE UNCHANGED vars
    BY <1>10 DEF vars, SleepInv, Announced, WriterNotForgotten, HasCur, Room, Left
  <1>. QED  BY <1>1, <1>2, <1>3, <1>4, <1>5, <1>6, <1>7, <1>8, <1>9, <1>10
            DEF Next, WriterNext, ReaderNext, Ended

\* With buffers that hold a work unit of either kernel, SleepInv is an invariant.
LEMMA SleepInvHolds ==
    ASSUME LargeEnough PROVE Spec => []SleepInv
  <1>1. Init => SleepInv
    BY DEF Init, SleepInv, HasCur, NoBuffer, WriterNotForgotten
  <1>2. IndInv /\ IndInv' /\ SleepInv /\ [Next]_vars => SleepInv'
    BY LargeEnough, SleepStep
  <1>. QED  BY <1>1, <1>2, IndInvHolds, PTL DEF Spec

\* With such buffers, the reader of a slab stream does not sleep while there is
\* a full buffer to read, whatever Notify messages were merged.
THEOREM ReaderNotForgottenHolds ==
    ASSUME LargeEnough PROVE Spec => []ReaderNotForgotten
  <1>1. SleepInv => ReaderNotForgotten
    BY DEF SleepInv, Announced, ReaderNotForgotten
  <1>. QED  BY <1>1, SleepInvHolds, PTL

\* Nor does the writer sleep while there is an empty one to write.
THEOREM WriterNotForgottenHolds ==
    ASSUME LargeEnough PROVE Spec => []WriterNotForgotten
  <1>1. SleepInv => WriterNotForgotten
    BY DEF SleepInv
  <1>. QED  BY <1>1, SleepInvHolds, PTL

\* And so the two blocks are never both asleep.
THEOREM NeverBothAsleepHolds ==
    ASSUME LargeEnough PROVE Spec => []NeverBothAsleep
  <1>1. BuffersConserved /\ SleepInv => NeverBothAsleep
    <2>. SUFFICES ASSUME BuffersConserved, SleepInv, wpc = "idle", ~wwake,
                         rpc = "idle", ~rwake, ~doneMsg
                  PROVE  FALSE
      BY DEF NeverBothAsleep
    <2>1. writerInput = <<>> /\ ~HasCur(wcur) /\ readerInput = <<>>
      BY DEF SleepInv, Announced, WriterNotForgotten
    <2>. QED  BY <2>1 DEF BuffersConserved, NumBuffers
  <1>. QED  BY <1>1, SleepInvHolds, BuffersConservedHolds, PTL

\* The slab buffer implements a sample stream: initial states are initial
\* states, and every step writes, reads, closes, stops or changes nothing.
THEOREM ImplementsStreamHolds == Spec => ImplementsStream
  <1>1. Init => Stream!StreamInit
    BY DEF Init, Stream!StreamInit
  <1>2. IndInv /\ IndInv' /\ [Next]_vars => [Stream!StreamNext]_(Stream!svars)
    <2>. SUFFICES ASSUME IndInv, IndInv', [Next]_vars
                  PROVE  Stream!StreamNext \/ UNCHANGED Stream!svars
      OBVIOUS
    <2>0. /\ sent \in Nat /\ sent' \in Nat /\ got \in Seq(Int) /\ Len(got) \in Nat
          /\ Left(rcur) \in Nat /\ rcur \in Current /\ BufferLen \in Nat
      <3>1. /\ sent \in Nat /\ sent' \in Nat /\ got \in Seq(Int) /\ rcur \in Current
        BY SlabAssumption DEF IndInv, TypeInv
      <3>2. Left(rcur) \in Nat
        BY <3>1 DEF IndInv, ReaderInv, Left, HasCur, Current, NoBuffer
      <3>. QED  BY <3>1, <3>2, BufferLenFact
    <2>1. CASE WriterSlice \/ WriterFinish \/ WriterTerminate \/ ReaderDrain
                 \/ ReaderSlice \/ UNCHANGED vars
      BY <2>1 DEF WriterSlice, WriterFinish, WriterTerminate, ReaderDrain, ReaderSlice,
                  vars, readerVars, writerVars, Stream!svars
    <2>2. ASSUME NEW n \in 0..BufferLen, Produce(n)
          PROVE  Stream!StreamNext \/ UNCHANGED Stream!svars
      <3>1. wpc = "sliced" /\ wpc' # "closed" /\ sent' = sent + n /\ UNCHANGED <<got, rpc>>
        BY <2>2 DEF Produce, readerVars
      <3>. QED  BY <2>0, <3>1 DEF Stream!StreamNext, Stream!Write, Stream!svars
    <2>3. CASE WriterNotifyDone
      BY <2>3 DEF WriterNotifyDone, readerVars, Stream!StreamNext, Stream!Close
    <2>4. ASSUME NEW n \in 0..BufferLen, Consume(n)
          PROVE  Stream!StreamNext \/ UNCHANGED Stream!svars
      <3>1. rpc = "sliced" /\ rpc' = "check" /\ got' = Delivered(n) /\ UNCHANGED <<sent, wpc>>
        BY <2>4 DEF Consume, writerVars
      <3>2. n \in Nat /\ n <= Left(rcur)
        BY <2>0, <2>4 DEF Consume, Inputs
      <3>3. got' = got \o Stream!Samples(Len(got), n) /\ Len(got') = Len(got) + n /\ got' \in Seq(Int)
        BY <3>1, <3>2, DeliveredFact
      <3>4. Left(rcur) <= sent - Len(got)
        BY <2>0, StartBound DEF IndInv, ChainInv
      <3>5. CASE n = 0
        <4>1. Stream!Samples(Len(got), 0) = <<>>
          BY DEF Stream!Samples
        <4>2. got' = got
          BY <2>0, <3>3, <3>5, <4>1
        <4>. QED  BY <3>1, <4>2 DEF Stream!svars
      <3>6. CASE n > 0
        <4>1. n \in 1..(sent - Len(got)) /\ ~(rpc = "done") /\ ~(rpc' = "done")
          BY <2>0, <3>1, <3>2, <3>4, <3>6
        <4>. QED  BY <3>1, <3>3, <4>1 DEF Stream!StreamNext, Stream!Read
      <3>. QED  BY <3>2, <3>5, <3>6
    <2>5. CASE ReaderCheck
      <3>1. rpc = "check" /\ UNCHANGED <<sent, got, wpc>>
        BY <2>5 DEF ReaderCheck, writerVars
      <3>2. CASE rpc' = "done"
        <4>1. wpc = "closed" /\ readerInput = <<>> /\ Left(rcur) < Need /\ ~HasCur(wcur)
          BY <2>5, <3>2 DEF ReaderCheck, IndInv, WriterInv
        <4>2. sent - Len(got) <= Need - 1
          <5>1. Start(1) = sent
            BY <2>0, <4>1 DEF Start, Filled
          <5>. QED  BY <2>0, <4>1, <5>1, SlabAssumption DEF IndInv, ChainInv
        <4>. QED  BY <3>1, <3>2, <4>1, <4>2 DEF Stream!StreamNext, Stream!Stop
      <3>3. CASE rpc' # "done"
        BY <3>1, <3>3 DEF Stream!svars
      <3>. QED  BY <3>2, <3>3
    <2>. QED  BY <2>1, <2>2, <2>3, <2>4, <2>5 DEF Next, WriterNext, ReaderNext, Ended
  <1>. QED  BY <1>1, <1>2, IndInvHolds, PTL DEF Spec, ImplementsStream, Stream!StreamSpec
=============================================================================
