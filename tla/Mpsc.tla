-------------------------------- MODULE Mpsc --------------------------------
(***************************************************************************)
(* The bounded multi-producer channel of the futures crate, as FutureSDR   *)
(* uses it for every inbox (src/src/lib.rs re-exports it as                *)
(* futuresdr::channel::mpsc).  Each clone of a Sender owns one slot beyond *)
(* the buffer: a push by a clone that is not parked always succeeds, and   *)
(* the clone parks itself when the queue is then longer than the buffer.   *)
(* Taking a message unparks the clone that has waited longest.             *)
(*   send().await  waits until the clone is not parked, pushes, and then   *)
(*                 waits until it is not parked again (flush);             *)
(*   try_send()    fails, and drops the message, when the clone is parked. *)
(***************************************************************************)
EXTENDS Naturals, Sequences

EmptyChannel == [queue |-> <<>>, parked |-> <<>>]

IsParked(ch, sender) == \E i \in DOMAIN ch.parked : ch.parked[i] = sender

Push(ch, sender, msg, buffer) ==
    [queue  |-> Append(ch.queue, msg),
     parked |-> IF Len(ch.queue) + 1 > buffer THEN Append(ch.parked, sender) ELSE ch.parked]

TrySend(ch, sender, msg, buffer) ==
    IF IsParked(ch, sender) THEN ch ELSE Push(ch, sender, msg, buffer)

Pop(ch) ==
    [queue  |-> Tail(ch.queue),
     parked |-> IF ch.parked = <<>> THEN <<>> ELSE Tail(ch.parked)]
=============================================================================
