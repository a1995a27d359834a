---------------------------- MODULE MCFlowgraph ----------------------------
(* Flowgraphs for TLC: the instances of FlowgraphRuntime.                  *)
EXTENDS FlowgraphRuntime

Graph(kind, size) ==
    LET all(x) == [b \in 1..Len(kind) |-> x]
    IN  [kind |-> kind, down |-> all(0), msgOut |-> all(<<>>), initPost |-> all("none"),
         failAt |-> all("none"), queueSize |-> size, requests |-> <<>>]

\* Exactly one block fails, at one of the points where its kernel can.
OneFails(g, points) == {[g EXCEPT !.failAt[f[1]] = f[2]] : f \in points}

\* VectorSource -> Copy -> NullSink
Stream(size) == [Graph(<<"source", "copy", "sink">>, size) EXCEPT !.down = <<2, 3, 0>>]

\* NullSource -> Head -> NullSink
HeadOf(size) == [Graph(<<"null_source", "head", "sink">>, size) EXCEPT !.down = <<2, 3, 0>>]

\* MessageBurst -> MessageCopy -> two MessageSinks
Messages == [Graph(<<"burst", "msg_copy", "msg_sink", "msg_sink">>, 1) EXCEPT
                !.msgOut = <<<<2>>, <<3, 4>>, <<>>, <<>>>>]

\* MessageSource -> MessageSink
Ticker == [Graph(<<"ticker", "msg_sink">>, 1) EXCEPT !.msgOut = <<<<2>>, <<>>>>]

\* MessageBurst -> MessageSink and another burst, where init() of the first posts
Early(size, msg) == [Graph(<<"burst", "msg_sink", "burst">>, size) EXCEPT
                        !.msgOut = <<<<2>>, <<>>, <<>>>>, !.initPost = <<msg, "none", "none">>]

\* NullSource -> NullSink
Pair(size) == [Graph(<<"null_source", "sink">>, size) EXCEPT !.down = <<2, 0>>]

\* NullSource -> NullSink, and a MessageBurst nothing is connected to
Endless(size) == [Graph(<<"null_source", "sink", "burst">>, size) EXCEPT !.down = <<2, 0, 0>>]

\* VectorSource -> NullSink, or MessageBurst -> MessageSink, each beside a
\* MessageSink nothing is connected to, which does not end by itself
StreamBeside(size) == [Graph(<<"source", "sink", "msg_sink">>, size) EXCEPT !.down = <<2, 0, 0>>]
BurstBeside(size)  == [Graph(<<"burst", "msg_sink", "msg_sink">>, size) EXCEPT
                         !.msgOut = <<<<2>>, <<>>, <<>>>>]

\* A NullSink whose input is not connected, beside a flowgraph that is fine
Loose(size) == [Graph(<<"null_source", "sink", "sink">>, size) EXCEPT !.down = <<2, 0, 0>>]

\* Two MessageSinks nothing is connected to
Sinks(size) == Graph(<<"msg_sink", "msg_sink">>, size)

Asked(g, requests) == [g EXCEPT !.requests = requests]
Queries   == {<<"BlockCallback", 1>>, <<"FlowgraphDescription", 0>>, <<"BlockDescription", 9>>}
Terminate == <<"Terminate", 0>>

Finite  == {Stream(3), HeadOf(6), Messages, Ticker, Early(4, "CallFinished")}
Failing == OneFails(StreamBeside(8), {1, 2} \X {"init", "work", "deinit"})
             \cup OneFails(BurstBeside(8), {<<1, "work">>, <<1, "deinit">>,
                                           <<2, "handler">>, <<2, "deinit">>})
             \cup OneFails(Endless(8), {1, 2} \X {"init", "work"} \cup {3} \X {"work", "deinit"})
             \cup OneFails(Early(8, "Call"), {<<2, "handler">>})
             \cup {Loose(8)}
Ending  == Finite \cup Failing

\* A user may make two requests, one after the other.
Used == {Asked(Sinks(1), <<Queries, Queries>>),
         Asked(Sinks(4), <<{<<"BlockCallback", 1>>, <<"FlowgraphDescription", 0>>, Terminate},
                           {<<"BlockCall", 2>>, Terminate}>>),
         Asked(Pair(4), <<{<<"BlockCallback", 1>>, <<"BlockDescription", 2>>}, {Terminate}>>)}

HeadFull  == {HeadOf(2)}
DeadQuery == {Asked(Stream(8), <<{<<"BlockDescription", 2>>}>>)}
=============================================================================
