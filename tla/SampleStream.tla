---------------------------- MODULE SampleStream ----------------------------
(***************************************************************************)
(* What every stream connection of FutureSDR promises its two blocks: a    *)
(* FIFO of samples.  Sample number i is the i-th item the writer produced; *)
(* the reader obtains the samples in that order, none skipped, none twice, *)
(* and it stops only after the writer has closed the stream, when less     *)
(* than one work unit of the reader's kernel is left.                      *)
(***************************************************************************)
EXTENDS Naturals, Sequences

CONSTANT MaxLeft    \* items a reader may leave unread when it stops

VARIABLES sent,     \* number of items the writer has produced
          got,      \* the items the reader has consumed, in order
          closed,   \* the writer has notified the reader that it is done
          done      \* the reader has stopped

svars == <<sent, got, closed, done>>

StreamInit == sent = 0 /\ got = <<>> /\ closed = FALSE /\ done = FALSE

\* Samples i+1 .. i+n of the stream (the i-th item carries the number i - 1).
Samples(i, n) == [k \in 1..n |-> i + k - 1]

Write == /\ ~closed
         /\ sent' \in Nat /\ sent' > sent
         /\ UNCHANGED <<got, closed, done>>

Read == /\ ~done
        /\ \E n \in 1..(sent - Len(got)) : got' = got \o Samples(Len(got), n)
        /\ UNCHANGED <<sent, closed, done>>

Close == ~closed /\ closed' = TRUE /\ UNCHANGED <<sent, got, done>>

Stop == /\ closed /\ ~done
        /\ sent - Len(got) <= MaxLeft
        /\ done' = TRUE
        /\ UNCHANGED <<sent, got, closed>>

StreamNext == Write \/ Read \/ Close \/ Stop

StreamSpec == StreamInit /\ [][StreamNext]_svars
=============================================================================
