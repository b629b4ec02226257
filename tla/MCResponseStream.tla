------------------------- MODULE MCResponseStream -------------------------
(* Tags of three characters, tokens that cut them at every place.          *)
EXTENDS ResponseStream

Char_ == {"<", ">", "o", "c", "t", "e", "x", "y", "n", "%", "!"}
Open_ == <<"<", "o", ">">>
Close_ == <<"<", "c", ">">>
ToolOpen_ == <<"<", "t", ">">>
ToolClose_ == <<"<", "e", ">">>
Calls_ == {<<"x">>, <<"y">>}
Known_ == {<<"x">>}
Note_ == <<"!">>

Request(chat, stream, tools, start, stop, vocab, maxTokens) ==
  [chat |-> chat, stream |-> stream, tools |-> tools, start |-> start, stop |-> stop,
   usage |-> tools, emitReasoning |-> TRUE, vocab |-> vocab, maxTokens |-> maxTokens]

XY == <<"x", "y">>
PlainTokens == {<<"x">>, <<"y">>, <<"y", "%">>, XY}
ThinkTokens == {<<"<">>, <<"c", ">", "n">>, <<"n", "x">>,
                <<"<", "<", "c">>, <<">">>, <<"x", "%">>}
ToolTokens == {<<"<">>, <<"<", "t">>, <<">", "x">>,
               <<"<", "e", ">">>, <<"x">>, <<"y">>}
BothTokens == {<<"x", "<">>, <<"c", ">", "n">>,
               <<"n", "<", "t", ">", "x">>, <<"<", "e", ">", "y">>}
SpanTokens == {<<"c", ">", "n", "<">>, <<"t", ">", "x", "<", "e", ">", "n">>,
               <<"y">>, <<"x", "<">>}
OpenTokens == {<<"<">>, <<"o", ">", "x", "<", "c", ">">>, <<"t", ">", "x">>,
               <<"<", "t", ">", "y">>, <<"<", "e", ">", "x">>}

(* Plain completion; thinking without tools; tools without thinking, the   *)
(* stop string able to straddle, or part of the opener; both, with a span  *)
(* that may begin the answer; a model that opens its own span.             *)
Requests_ ==
  {Request(FALSE, TRUE, FALSE, "answer", {XY}, PlainTokens, 3)}
    \cup {Request(TRUE, s, FALSE, "reasoning", {<<"x", "x">>}, ThinkTokens, 3) : s \in BOOLEAN}
    \cup {Request(TRUE, s, TRUE, "answer", {XY}, ToolTokens, 3) : s \in BOOLEAN}
    \cup {Request(TRUE, TRUE, TRUE, "answer", {<<"t", ">">>}, ToolTokens, 3)}
    \cup {Request(TRUE, s, TRUE, "reasoning", {}, SpanTokens, 3) : s \in BOOLEAN}
    \cup {Request(TRUE, s, TRUE, "reasoning", {<<"y">>}, BothTokens, 4) : s \in BOOLEAN}
    \cup {Request(TRUE, s, TRUE, "expect", {}, OpenTokens, 4) : s \in BOOLEAN}
    \cup {[Request(TRUE, TRUE, FALSE, "expect", {}, OpenTokens \cup {<<"o", ">">>}, 3)
             EXCEPT !.emitReasoning = FALSE]}
============================================================================
