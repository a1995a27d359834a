----------------------------- MODULE SlabBuffer -----------------------------
(***************************************************************************)
(* The slab stream buffer (src/src/runtime/buffer/slab.rs): a writer and a *)
(* reader, owned by two blocks on two executor threads, that exchange four *)
(* fixed buffers through two queues under one mutex.  The reader may leave *)
(* up to reserved_items items unread; slice_with_tags() then copies them   *)
(* in front of the next full buffer, so that the kernel sees one slice.    *)
(*                                                                         *)
(* Every critical section of the mutex is one action.  A sample is its     *)
(* number in the stream, so a buffer is a function from offsets to sample  *)
(* numbers and the content the reader sees can be compared with the        *)
(* samples it should see.  An inbox is reduced to what the buffer uses it  *)
(* for: "some message is pending" (the block will call work() again), and, *)
(* for the reader, "StreamInputDone is pending".  A try_send that fails    *)
(* fails because the inbox is full, so the message is pending either way.  *)
(***************************************************************************)
EXTENDS Integers, Sequences

CONSTANTS
    ReaderMinItems,  \* set_min_items() of the reader, 0 when it is not called
    WriterMinItems,  \* set_min_items() of the writer, 1 when it is not called
    ReaderMinBuf,    \* set_min_buffer_size_in_items() of the reader, or Unset
    WriterMinBuf,    \* set_min_buffer_size_in_items() of the writer, or Unset
    ConfigItems,     \* config().buffer_size / size_of::<D>()
    Need,            \* items the reader's kernel needs for one unit of work
    Total,           \* samples the writer's kernel produces before it finishes
    TagAt            \* numbers of the samples that carry a tag

Unset == -1

ASSUME SlabAssumption ==
    /\ ReaderMinItems \in Nat /\ WriterMinItems \in Nat \ {0}
    /\ ReaderMinBuf \in Nat \cup {Unset} /\ WriterMinBuf \in Nat \cup {Unset}
    /\ ConfigItems \in Nat
    /\ Need \in Nat \ {0} /\ Need <= ReaderMinItems + 1
    /\ Total \in Nat \ {0} /\ TagAt \subseteq Nat

Larger(a, b) == IF a >= b THEN a ELSE b

\* connect(): the reader's min_items is the space kept free in front of every
\* buffer; the length is the configured one, but at least one item more.
Reserved == ReaderMinItems

\* Mutant: the configured size is forgotten.
BufferLenMinimal == Reserved + 1

BufferLen ==
    LET configured == IF WriterMinBuf # Unset \/ ReaderMinBuf # Unset
                      THEN Larger(Larger(WriterMinBuf, 0), Larger(ReaderMinBuf, 0))
                      ELSE ConfigItems
    IN  Larger(configured, Reserved + 1)
NumBuffers == 4

\* A buffer the writer has filled holds at least one unit of the reader's
\* kernel, and an empty one has room for one unit of the writer's.
LargeEnough == Need + WriterMinItems <= (BufferLen - Reserved) + 1

Offsets == 0..(BufferLen - 1)
Default == -1                                   \* D::default()
Buffer  == [Offsets -> Int]
NoBuffer == [buffer |-> [o \in Offsets |-> Default], offset |-> 0,
             end |-> 0, tags |-> {}]          \* current = None

VARIABLES
    writerInput,  \* state.writer_input: empty buffers
    readerInput,  \* state.reader_input: full buffers
    wcur,         \* Writer::current
    rcur,         \* Reader::current
    wpc,          \* the writer block: idle, sliced, closing, pushed, closed
    rpc,          \* the reader block: idle, work, sliced, check, done
    wwake,        \* a message is pending for the writer block, or call_again
    rwake,        \* a message is pending for the reader block
    doneMsg,      \* StreamInputDone is in the reader block's inbox
    finished,     \* Reader::finished
    sent,         \* samples produced so far
    got           \* samples consumed so far

vars == <<writerInput, readerInput, wcur, rcur, wpc, rpc, wwake, rwake,
          doneMsg, finished, sent, got>>
writerVars == <<wcur, wpc, sent>>
readerVars == <<rcur, rpc, finished, got>>

HasCur(c) == c.end > 0
Left(c) == c.end - c.offset

Init ==
    /\ writerInput = [i \in 1..NumBuffers |-> [o \in Offsets |-> Default]]
    /\ readerInput = <<>>
    /\ wcur = NoBuffer /\ rcur = NoBuffer
    /\ wpc = "idle" /\ rpc = "idle"
    /\ wwake = TRUE /\ rwake = TRUE       \* the runtime's Notify to all blocks
    /\ doneMsg = FALSE /\ finished = FALSE
    /\ sent = 0 /\ got = <<>>

-----------------------------------------------------------------------------
(* The writer block.                                                       *)

Room == wcur.end - wcur.offset

\* work() starts: Writer::slice_with_tags().
WriterSlice ==
    /\ wpc = "idle" /\ wwake
    /\ wwake' = FALSE
    /\ \/ /\ HasCur(wcur)
          /\ wpc' = "sliced"
          /\ UNCHANGED <<wcur, writerInput>>
       \/ /\ ~HasCur(wcur) /\ writerInput # <<>>
          /\ wcur' = [buffer |-> Head(writerInput), offset |-> Reserved,
                      end |-> BufferLen, tags |-> {}]
          /\ writerInput' = Tail(writerInput)
          /\ wpc' = "sliced"
       \/ /\ ~HasCur(wcur) /\ writerInput = <<>>   \* an empty slice: no output
          /\ UNCHANGED <<wcur, writerInput, wpc>>
    /\ UNCHANGED <<readerInput, rwake, doneMsg, sent, readerVars>>

\* What one call of work() may produce: nothing when the slice is smaller than
\* the kernel's unit, else some of what fits and is left to send, or nothing
\* when the kernel's own input is empty.
Outputs == IF Room < WriterMinItems THEN {0} ELSE {n \in 0..Room : n <= Total - sent}

Fill(c, n) ==
    [buffer |-> [o \in Offsets |-> IF o \in c.offset..(c.offset + n - 1)
                                   THEN sent + (o - c.offset) ELSE c.buffer[o]],
     offset |-> c.offset + n,
     end    |-> c.end,
     tags   |-> c.tags \cup {[index |-> k + c.offset, at |-> sent + k] :
                               k \in {k \in 0..(n - 1) : sent + k \in TagAt}}]

Full(c) == [buffer |-> c.buffer, items |-> c.offset - Reserved, tags |-> c.tags]

\* Mutant: the writer does not notify itself when another buffer is queued.
ProduceForgetsItself(n) ==
    /\ wpc = "sliced" /\ n \in Outputs
    /\ sent' = sent + n
    /\ wpc' = IF sent + n = Total THEN "closing" ELSE "idle"
    /\ LET c == Fill(wcur, n)
           push == n > 0 /\ c.end - c.offset < WriterMinItems
       IN  /\ wcur' = IF push THEN NoBuffer ELSE c
           /\ readerInput' = IF push THEN Append(readerInput, Full(c)) ELSE readerInput
           /\ rwake' = (rwake \/ push)
           /\ wwake' = (wwake \/ (Room >= WriterMinItems /\ n < Room))
    /\ UNCHANGED <<writerInput, doneMsg, readerVars>>

\* The kernel writes n samples and calls Writer::produce(n).  A kernel that
\* fills less than it could waits for its own input, which wakes it again.
Produce(n) ==
    /\ wpc = "sliced" /\ n \in Outputs
    /\ sent' = sent + n
    /\ wpc' = IF sent + n = Total THEN "closing" ELSE "idle"
    /\ LET c == Fill(wcur, n)
           push == n > 0 /\ c.end - c.offset < WriterMinItems
       IN  /\ wcur' = IF push THEN NoBuffer ELSE c
           /\ readerInput' = IF push THEN Append(readerInput, Full(c)) ELSE readerInput
           /\ rwake' = (rwake \/ push)
           /\ wwake' = (\/ wwake
                        \/ push /\ writerInput # <<>>
                        \/ Room >= WriterMinItems /\ n < Room)
    /\ UNCHANGED <<writerInput, doneMsg, readerVars>>

\* Terminate, or StreamOutputDone, reaches the writer block between two calls
\* of work(): it stops early.
WriterTerminate ==
    /\ wpc = "idle"
    /\ wpc' = "closing"
    /\ UNCHANGED <<writerInput, readerInput, wcur, wwake, rwake, doneMsg, sent, readerVars>>

\* Mutant: a buffer that was not written to is handed over, too.
WriterFinishAlways ==
    /\ wpc = "closing"
    /\ wpc' = "pushed"
    /\ wcur' = NoBuffer
    /\ readerInput' = IF HasCur(wcur) THEN Append(readerInput, Full(wcur)) ELSE readerInput
    /\ UNCHANGED <<writerInput, wwake, rwake, doneMsg, sent, readerVars>>

\* Mutant: the current buffer is handed over but not taken from the writer.
WriterFinishKeeps ==
    /\ wpc = "closing"
    /\ wpc' = "pushed"
    /\ readerInput' = IF HasCur(wcur) /\ wcur.offset > Reserved
                      THEN Append(readerInput, Full(wcur)) ELSE readerInput
    /\ UNCHANGED <<writerInput, wcur, wwake, rwake, doneMsg, sent, readerVars>>

\* Writer::notify_finished(): a partly filled buffer is handed over ...
WriterFinish ==
    /\ wpc = "closing"
    /\ wpc' = "pushed"
    /\ wcur' = NoBuffer
    /\ readerInput' = IF HasCur(wcur) /\ wcur.offset > Reserved
                      THEN Append(readerInput, Full(wcur)) ELSE readerInput
    /\ UNCHANGED <<writerInput, wwake, rwake, doneMsg, sent, readerVars>>

\* Mutant: StreamInputDone is sent with try_send() and lost.
WriterNotifyDoneLost ==
    /\ wpc = "pushed"
    /\ wpc' = "closed"
    /\ UNCHANGED <<writerInput, readerInput, wcur, wwake, rwake, doneMsg, sent, readerVars>>

\* ... and then StreamInputDone is sent to the reader block.
WriterNotifyDone ==
    /\ wpc = "pushed"
    /\ wpc' = "closed" /\ doneMsg' = TRUE
    /\ UNCHANGED <<writerInput, readerInput, wcur, wwake, rwake, sent, readerVars>>

-----------------------------------------------------------------------------
(* The reader block.                                                       *)

\* The block loop empties the inbox before it calls work().
ReaderDrain ==
    /\ rpc = "idle" /\ (rwake \/ doneMsg)
    /\ finished' = (finished \/ doneMsg)
    /\ rwake' = FALSE /\ doneMsg' = FALSE
    /\ rpc' = "work"
    /\ UNCHANGED <<writerInput, readerInput, rcur, wwake, got, writerVars>>

\* Mutant: the items are copied from the wrong offset.
MergeUnshifted(c, full) ==
    LET left == Left(c)
    IN  [buffer |-> [o \in Offsets |-> IF o \in (Reserved - left)..(Reserved - 1)
                                       THEN c.buffer[o] ELSE full.buffer[o]],
         offset |-> Reserved - left,
         end    |-> Reserved + full.items,
         tags   |-> c.tags \cup full.tags]

\* The items left in the current buffer are copied in front of the next one.
Merge(c, full) ==
    LET left == Left(c)
    IN  [buffer |-> [o \in Offsets |-> IF o \in (Reserved - left)..(Reserved - 1)
                                       THEN c.buffer[c.offset + (o - (Reserved - left))]
                                       ELSE full.buffer[o]],
         offset |-> Reserved - left,
         end    |-> Reserved + full.items,
         tags   |-> c.tags \cup {[t EXCEPT !.index = @ + left] : t \in full.tags}]

\* Mutant: the reserved items are taken for samples.
FreshAtZero(full) == [buffer |-> full.buffer, offset |-> 0,
                      end |-> full.items, tags |-> full.tags]

Fresh(full) == [buffer |-> full.buffer, offset |-> Reserved,
                end |-> full.items + Reserved, tags |-> full.tags]

\* Reader::slice_with_tags().
ReaderSlice ==
    /\ rpc = "work" /\ rpc' = "sliced"
    /\ \/ /\ HasCur(rcur) /\ Left(rcur) <= Reserved /\ readerInput # <<>>
          /\ rcur' = Merge(rcur, Head(readerInput))
          /\ readerInput' = Tail(readerInput)
          /\ writerInput' = Append(writerInput, rcur.buffer)
          /\ wwake' = TRUE
       \/ /\ HasCur(rcur) /\ (Left(rcur) > Reserved \/ readerInput = <<>>)
          /\ UNCHANGED <<rcur, readerInput, writerInput, wwake>>
       \/ /\ ~HasCur(rcur) /\ readerInput # <<>>
          /\ rcur' = Fresh(Head(readerInput))
          /\ readerInput' = Tail(readerInput)
          /\ UNCHANGED <<writerInput, wwake>>
       \/ /\ ~HasCur(rcur) /\ readerInput = <<>>
          /\ UNCHANGED <<rcur, readerInput, writerInput, wwake>>
    /\ UNCHANGED <<rwake, doneMsg, finished, got, writerVars>>

\* A kernel works through all complete units: less than Need items are left.
Inputs == IF Left(rcur) < Need THEN {0}
          ELSE {n \in 1..Left(rcur) : Left(rcur) - n < Need}

Delivered(n) == got \o [k \in 1..n |-> rcur.buffer[rcur.offset + k - 1]]

\* Reader::consume(n): an emptied buffer goes back to the writer.  The block
\* notifies itself if another buffer could be read or merged.
Consume(n) ==
    /\ rpc = "sliced" /\ n \in Inputs
    /\ rpc' = "check"
    /\ got' = Delivered(n)
    /\ LET left == Left(rcur) - n
           empty == n > 0 /\ left = 0
       IN  /\ rcur' = IF empty THEN NoBuffer ELSE [rcur EXCEPT !.offset = @ + n]
           /\ writerInput' = IF empty THEN Append(writerInput, rcur.buffer) ELSE writerInput
           /\ wwake' = (wwake \/ empty)
           /\ rwake' = (rwake \/ (n > 0 /\ left <= Reserved /\ readerInput # <<>>))
    /\ UNCHANGED <<readerInput, doneMsg, finished, writerVars>>

\* Mutant: finished() does not look at the queue.
ReaderCheckEarly ==
    /\ rpc = "check"
    /\ rpc' = IF finished /\ Left(rcur) < Need THEN "done" ELSE "idle"
    /\ UNCHANGED <<writerInput, readerInput, rcur, wwake, rwake, doneMsg,
                   finished, got, writerVars>>

\* Mutant: the kernel waits for an empty buffer, not for an incomplete unit.
ReaderCheckEmpty ==
    /\ rpc = "check"
    /\ rpc' = IF finished /\ readerInput = <<>> /\ Left(rcur) = 0
              THEN "done" ELSE "idle"
    /\ UNCHANGED <<writerInput, readerInput, rcur, wwake, rwake, doneMsg,
                   finished, got, writerVars>>

\* The kernel asks Reader::finished() and stops when nothing more will come.
ReaderCheck ==
    /\ rpc = "check"
    /\ rpc' = IF finished /\ readerInput = <<>> /\ Left(rcur) < Need
              THEN "done" ELSE "idle"
    /\ UNCHANGED <<writerInput, readerInput, rcur, wwake, rwake, doneMsg,
                   finished, got, writerVars>>

-----------------------------------------------------------------------------
WriterNext == \/ WriterSlice
              \/ \E n \in 0..BufferLen : Produce(n)
              \/ WriterFinish \/ WriterNotifyDone

ReaderNext == \/ ReaderDrain \/ ReaderSlice
              \/ \E n \in 0..BufferLen : Consume(n)
              \/ ReaderCheck

\* Both blocks have ended.
Ended == wpc = "closed" /\ rpc = "done" /\ UNCHANGED vars

Next == WriterNext \/ WriterTerminate \/ ReaderNext \/ Ended

Spec == Init /\ [][Next]_vars

\* The executor polls every woken task: each block keeps taking steps while it
\* has one to take, and the writer's own input delivers again and again.
FairSpec == /\ Spec
            /\ WF_vars(WriterNext) /\ WF_vars(ReaderNext)
            /\ SF_vars(\E n \in 1..BufferLen : Produce(n))

-----------------------------------------------------------------------------
(* Properties.                                                             *)

\* Types and bounds: every index the code computes stays inside its buffer and
\* a full buffer holds at least one item (slab.rs relies on left > 0).
TypeOK ==
    /\ writerInput \in Seq(Buffer)
    /\ readerInput \in Seq([buffer : Buffer, items : 1..(BufferLen - Reserved),
                            tags : SUBSET [index : Nat, at : Nat]])
    /\ {wcur, rcur} \subseteq [buffer : Buffer, offset : 0..BufferLen, end : 0..BufferLen,
                               tags : SUBSET [index : Nat, at : Nat]]
    /\ wpc \in {"idle", "sliced", "closing", "pushed", "closed"}
    /\ rpc \in {"idle", "work", "sliced", "check", "done"}
    /\ {wwake, rwake, doneMsg, finished} \subseteq BOOLEAN
    /\ sent \in 0..Total /\ got \in Seq(Int)

\* No buffer is lost or duplicated by the hand-overs of slice_with_tags(),
\* produce(), consume() and notify_finished(): the four buffers connect() makes
\* stay between the two queues and the two current buffers.  Only a finishing
\* writer may drop one, the current buffer it has not written to.
BuffersConserved ==
    LET held == Len(writerInput) + Len(readerInput)
                  + (IF HasCur(wcur) THEN 1 ELSE 0) + (IF HasCur(rcur) THEN 1 ELSE 0)
    IN  /\ wpc \notin {"pushed", "closed"} => held = NumBuffers
        /\ held \in {NumBuffers - 1, NumBuffers}

\* Whatever was merged, the slice the reader's kernel gets holds exactly the
\* next unread samples of the stream, in order: never a stale item of a
\* recycled buffer, never a repeated or a skipped one.
ReaderSeesNext ==
    \A o \in rcur.offset..(rcur.end - 1) :
        o \in Offsets /\ rcur.buffer[o] = Len(got) + (o - rcur.offset)

\* A sleeping reader has no full buffer waiting, except the one a finishing
\* writer has pushed and is about to announce with StreamInputDone.
ReaderNotForgotten ==
    rpc = "idle" /\ ~rwake /\ ~doneMsg /\ wpc # "pushed" => readerInput = <<>>

\* A sleeping writer has no buffer to write to.
WriterNotForgotten ==
    wpc = "idle" /\ ~wwake => writerInput = <<>> /\ ~HasCur(wcur)

\* The two ends of a stream never wait for each other: no sequence of dropped
\* and merged Notify messages leaves both blocks asleep.
NeverBothAsleep ==
    ~(wpc = "idle" /\ ~wwake /\ rpc = "idle" /\ ~rwake /\ ~doneMsg)

\* Reader::finished() is not true too early: when the reader's kernel stops,
\* less than one unit of what the writer produced is unread.
NothingLeftBehind == rpc = "done" => sent - Len(got) < Need

\* The slab buffer is a sample stream.
Stream == INSTANCE SampleStream WITH
            MaxLeft <- Need - 1, closed <- (wpc = "closed"), done <- (rpc = "done")
ImplementsStream == Stream!StreamSpec

\* Everything sent arrives: the reader gets to its end, so the writer was never
\* left without a buffer nor the reader without a wake-up.
EverythingArrives == <>(rpc = "done" /\ wpc = "closed")

\* ItemTag::index is the index of the sample in the buffer: it points at the
\* sample the writer's kernel attached the tag to.
TagsPointAtSamples ==
    rpc = "sliced" =>
        \A t \in rcur.tags : t.index \in Offsets /\ rcur.buffer[t.index] = t.at
=============================================================================
