------------------------------- MODULE Kernels -------------------------------
(***************************************************************************)
(* Kernel::work() and the message handlers of the blocks the flowgraph     *)
(* models are built from, with the data abstracted to numbers of items.    *)
(* A kernel sees the items in its input buffer (ilen), the space in its    *)
(* output buffer (olen), whether the input port was marked finished, and   *)
(* its own counter k.  An outcome says what the call did:                  *)
(*   cons, prod  items consumed and produced                               *)
(*   k           the counter afterwards                                    *)
(*   fin         io.finished was set                                       *)
(*   posts       messages posted on the message output                     *)
(*   timer       io.block_on(sleep) was called                             *)
(***************************************************************************)
EXTENDS Naturals

CONSTANTS Items,      \* items in a VectorSource, n_items of a Head
          Burst,      \* n_messages of MessageBurst and MessageSource
          MaxCount    \* bound on the counters of the sinks

ASSUME KernelsAssumption ==
    /\ Items \in Nat /\ Burst \in Nat /\ MaxCount \in Nat
    /\ Items <= MaxCount /\ Burst <= MaxCount

Least(a, b) == IF a <= b THEN a ELSE b

Idle(k) == [cons |-> 0, prod |-> 0, k |-> k, fin |-> FALSE, posts |-> 0, timer |-> FALSE]

VectorSource(k, olen) ==
    LET n == Least(olen, Items - k)
    IN  [Idle(k + n) EXCEPT !.prod = n, !.fin = (n > 0 /\ k + n = Items)]

NullSource(k, olen) == [Idle(k) EXCEPT !.prod = olen]

\* Mutant: the space in the output buffer is not looked at.
CopyOverrun(k, ilen, olen, finished) ==
    [Idle(k) EXCEPT !.cons = ilen, !.prod = ilen, !.fin = finished]

\* Mutant: finished although the input buffer is not empty.
CopyEager(k, ilen, olen, finished) ==
    LET m == Least(ilen, olen)
    IN  [Idle(k) EXCEPT !.cons = m, !.prod = m, !.fin = finished]

Copy(k, ilen, olen, finished) ==
    LET m == Least(ilen, olen)
    IN  [Idle(k) EXCEPT !.cons = m, !.prod = m, !.fin = (finished /\ m = ilen)]

\* Here k is what is left of n_items.
HeadBlock(k, ilen, olen) ==
    LET m == Least(k, Least(ilen, olen))
    IN  [Idle(k - m) EXCEPT !.cons = m, !.prod = m, !.fin = (m > 0 /\ k = m)]

NullSink(k, ilen, finished) ==
    [Idle(Least(k + ilen, MaxCount)) EXCEPT !.cons = ilen, !.fin = finished]

MessageBurst(k) == [Idle(k) EXCEPT !.posts = Burst, !.fin = TRUE]

\* due: the interval since the last message has passed; k counts messages.
MessageSource(k, due) ==
    IF due THEN [Idle(k + 1) EXCEPT !.posts = 1, !.fin = (k + 1 = Burst), !.timer = TRUE]
    ELSE [Idle(k) EXCEPT !.timer = TRUE]

\* Handlers of the message input, for an ordinary message or Pmt::Finished.
MessageSinkHandler(k, last) ==
    IF last THEN [Idle(k) EXCEPT !.fin = TRUE] ELSE Idle(Least(k + 1, MaxCount))

MessageCopyHandler(k, last) ==
    IF last THEN [Idle(k) EXCEPT !.fin = TRUE] ELSE [Idle(k) EXCEPT !.posts = 1]
=============================================================================
