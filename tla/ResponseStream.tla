-------------------------- MODULE ResponseStream --------------------------
(***************************************************************************)
(* One request's reply: the worker thread of Engine::RunRequest decodes    *)
(* tokens, cuts the text at stop strings, gates it for tool calls and      *)
(* hands it to the response sink; the HTTP thread takes the reply out of   *)
(* the sink.  A StreamingSink is a bounded queue of SSE chunks between the *)
(* two threads; a BufferingSink collects the reply and wakes the HTTP      *)
(* thread once.  The client may leave at any moment.                       *)
(*                                                                         *)
(* The worker is inside a sink call while `out` holds chunks it still has  *)
(* to push: each Push waits for room or for Close.  A token's text work    *)
(* touches nothing another thread reads and is one step.                   *)
(***************************************************************************)
EXTENDS StreamText

CONSTANTS
  Requests,   \* the requests to serve, see RequestOK
  Lookback,   \* how far EmitToken looks back for a stop string (63 bytes)
  QueueSize   \* max_size of the streaming queue (256)

(* A request: its endpoint, whether it streams, offers tools, wants usage  *)
(* and reasoning text; where its generation starts (ReasoningStart); its   *)
(* stop strings, its budget and the token texts the model may generate.    *)
RequestOK(r) ==
  /\ r.chat \in BOOLEAN /\ r.stream \in BOOLEAN /\ r.tools \in BOOLEAN
  /\ r.usage \in BOOLEAN /\ r.emitReasoning \in BOOLEAN
  /\ r.maxTokens \in Nat
  /\ r.stop \subseteq Seq(Char) /\ r.vocab \subseteq Seq(Char)
  /\ r.start \in {"expect", "reasoning", "answer"}
  /\ ~r.chat => r.start = "answer" /\ ~r.tools

(* No generation reaches the length that stands for std::string::npos.     *)
TextFits(r) ==
  \E longest \in 0 .. NPos :
    (\A t \in r.vocab : Len(t) <= longest) /\ r.maxTokens * longest < NPos

ASSUME StreamAssumption ==
  /\ \A r \in Requests : RequestOK(r) /\ TextFits(r)
  /\ Lookback \in Nat /\ QueueSize \in Nat \ {0}

VARIABLES
  req,       \* the request
  gen,       \* RunRequest's locals: text so far, watermarks, locator, gate
  sink,      \* the sink's splitter, and BufferingSink's collected reply
  pc,        \* the worker's place in RunRequest
  tokens,    \* tokens generated
  finish,    \* finish_reason
  out,       \* chunks of the current sink call not pushed yet
  queue,     \* StreamingSink's queue_
  closed,    \* queue_.closed_
  cancelled, \* StreamingSink::cancelled_
  gone,      \* what the request log records as `cancelled`
  http,      \* the HTTP thread's place
  chunk,     \* the chunk the HTTP thread has popped
  alive,     \* the client is connected
  got        \* what the client has received

vars == <<req, gen, sink, pc, tokens, finish, out, queue, closed, cancelled,
          gone, http, chunk, alive, got>>

workerVars == <<gen, sink, pc, tokens, finish, out, gone>>
httpVars == <<http, chunk, alive, got>>

Live(r) == r.tools /\ r.stream
Splits(r) == r.chat /\ r.start # "answer"
Chunk(kind, text) == [kind |-> kind, text |-> text]

---------------------------------------------------------------------------
(* The sinks.                                                              *)

\* The chunks PushSplitDelta queues for a list of events.
DeltaChunks(r, ev) ==
  FlattenSeq([i \in 1 .. Len(ev) |->
    IF ev[i].reasoning /\ ~r.emitReasoning THEN <<>>
    ELSE <<Chunk(IF ev[i].reasoning THEN "reasoning" ELSE "content", ev[i].text)>>])

\* OnToken of both sinks: the new splitter and the events.
OnToken(r, s, piece) ==
  IF Splits(r) /\ ~s.delivered THEN SplitPush(s.sp, piece)
  ELSE [sp |-> s.sp, ev |-> Event(FALSE, piece)]

\* The sink after an OnToken, BufferingSink's text included.
AfterToken(s, split) ==
  [s EXCEPT !.sp = split.sp,
            !.text = @ \o TextOf(split.ev, FALSE),
            !.raw = @ \o TextOf(split.ev, TRUE)]

\* A sink call by the worker that yields these events.
Deliver(r, s, split) ==
  /\ sink' = AfterToken(s, split)
  /\ out' = IF r.stream THEN DeltaChunks(r, split.ev) ELSE <<>>

---------------------------------------------------------------------------
(* RunRequest's text bookkeeping.  Each operator returns the new locals    *)
(* and the text handed to the sink.                                        *)

Noted(g, loc) ==
  IF g.loc.state = "answer" THEN g
  ELSE IF loc.state # "answer" THEN [g EXCEPT !.loc = loc]
  ELSE [g EXCEPT !.loc = loc, !.floor = loc.end, !.thinkEnd = loc.end]

NoteReasoningProgress(g) == Noted(g, LocatorUpdate(g.loc, g.acc))

(* FlushGated in its three parts: find where the answer begins, feed the   *)
(* gate what it has not seen, forward what it lets through.                *)
FindAnswer(g) ==
  [g EXCEPT !.begin = IF @ = NPos /\ g.thinkEnd # NPos
                      THEN AnswerBegin(g.loc, g.acc, g.streamable) ELSE @]

FeedGate(g) ==
  IF g.begin = NPos \/ g.streamable <= g.begin + g.fed THEN g
  ELSE [g EXCEPT !.gate = GatePush(@, SubSeq(g.acc, g.begin + g.fed + 1, g.streamable)),
                 !.fed = g.streamable - g.begin]

FinishGate(g, finishing) ==
  IF finishing /\ g.begin # NPos THEN [g EXCEPT !.gate = GateFinish(@)] ELSE g

ForwardSafe(g) ==
  LET safe == IF g.begin = NPos THEN g.streamable ELSE g.begin + g.gate.streamed
  IN  [g |-> [g EXCEPT !.forwarded = Max({@, safe})],
       text |-> SubSeq(g.acc, g.forwarded + 1, safe)]

FlushGated(g, finishing) ==
  ForwardSafe(FinishGate(FeedGate(FindAnswer(NoteReasoningProgress(g))), finishing))

\* The router every surviving text goes through.
Forward(r, g, text) ==
  LET s == g.streamable + Len(text)
      bounded == [g EXCEPT !.streamable =
                    IF g.stopPos # NPos /\ s > g.stopPos THEN g.stopPos ELSE s]
  IN  IF Live(r) THEN FlushGated(bounded, FALSE)
      ELSE [g |-> g, text |-> IF r.tools THEN <<>> ELSE text]

\* FindEarliestStop.
FindEarliestStop(text, stops, from) == Min({NPos} \cup {Find(text, s, from) : s \in stops})

\* What is handed to the sink of a piece in which a stop string was found at
\* match, or nowhere.
Kept(piece, already, match) ==
  IF match = NPos THEN piece ELSE Take(piece, Max({0, match - already}))

Routed(r, g, text) == IF text = <<>> THEN [g |-> g, text |-> <<>>] ELSE Forward(r, g, text)

Cut(routed, already, match) ==
  [g |-> NoteReasoningProgress(
           [routed.g EXCEPT !.stopPos = match,
                            !.cut = IF match = NPos THEN NPos ELSE already]),
   text |-> routed.text, hit |-> match # NPos]

EmitUpTo(r, g, piece, already, match) ==
  Cut(Routed(r, g, Kept(piece, already, match)), already, match)

\* A decoded piece: append it, look for a stop string, forward what survives.
EmitPiece(r, g, piece, already) ==
  EmitUpTo(r, g, piece, already,
           FindEarliestStop(g.acc, r.stop, Max({already - Min({already, Lookback}), g.floor})))

Decoded(r, g, dec) ==
  IF dec.piece = <<>> THEN [g |-> [g EXCEPT !.hold = dec.hold], text |-> <<>>, hit |-> FALSE]
  ELSE EmitPiece(r, [g EXCEPT !.hold = dec.hold, !.acc = @ \o dec.piece], dec.piece, Len(g.acc))

\* Engine::EmitToken, then the call site's NoteReasoningProgress.
EmitToken(r, g, token) == Decoded(r, g, DecoderPush(g.hold, token))

Init ==
  /\ req \in Requests
  /\ gen = [acc |-> <<>>, hold |-> <<>>, tail |-> <<>>, stopPos |-> NPos, cut |-> NPos,
            loc |-> Locator(req.start),
            floor |-> IF req.start = "answer" THEN 0 ELSE NPos,
            thinkEnd |-> IF req.start = "answer" THEN 0 ELSE NPos,
            begin |-> IF req.start = "answer" THEN 0 ELSE NPos,
            forwarded |-> 0, streamable |-> 0, fed |-> 0, gate |-> Gate]
  /\ sink = [sp |-> Splitter(req.start), delivered |-> FALSE, done |-> FALSE,
             errored |-> FALSE, text |-> <<>>, raw |-> <<>>, reasoning |-> <<>>,
             calls |-> <<>>]
  /\ pc = "start" /\ tokens = 0 /\ finish = "length"
  /\ out = <<>> /\ queue = <<>> /\ closed = FALSE /\ cancelled = FALSE
  /\ gone = FALSE
  /\ http = IF req.stream THEN "pop" ELSE "wait"
  /\ chunk = Chunk("none", <<>>) /\ alive = TRUE
  /\ got = [kinds |-> <<>>, content |-> <<>>, reasoning |-> <<>>,
            calls |-> <<>>, whole |-> FALSE]

---------------------------------------------------------------------------
(* The worker.                                                             *)

\* Mutant: the client's flag is read after OnDone has closed the queue.
AfterLate ==
  [start |-> "decode", decode |-> "tail", tail |-> "parse", log |-> "ended",
   parse |-> "done", done |-> "close", close |-> "log"]

\* The order of RunRequest's parts.
After ==
  [start |-> "decode", decode |-> "tail", tail |-> "log", log |-> "parse",
   parse |-> "done", done |-> "close", close |-> "ended"]

\* The worker runs on: it is in no sink call.
At(place) == pc = place /\ out = <<>>

OnStart ==
  /\ At("start")
  /\ pc' = After[pc]
  /\ out' = IF req.stream /\ req.chat THEN <<Chunk("role", <<>>)>> ELSE <<>>
  /\ UNCHANGED <<req, gen, sink, tokens, finish, queue, closed, cancelled, gone>>
  /\ UNCHANGED httpVars

\* The loop's poll of IsCancelled(); a BufferingSink never says yes.
SeesCancel == cancelled

\* The loop ends: cancelled, an end-of-sequence token, or the budget spent.
LeaveLoop ==
  /\ At("decode")
  /\ pc' = After[pc]
  /\ finish' = IF tokens = req.maxTokens THEN finish
               ELSE IF SeesCancel THEN "cancelled" ELSE "stop"
  /\ UNCHANGED <<req, gen, sink, tokens, out, queue, closed, cancelled, gone>>
  /\ UNCHANGED httpVars

Emit(e) ==
  /\ gen' = e.g
  /\ Deliver(req, sink, OnToken(req, sink, e.text))
  /\ pc' = IF e.hit THEN After[pc] ELSE pc
  /\ finish' = IF e.hit THEN "stop" ELSE finish

DecodeToken(token) ==
  /\ At("decode") /\ tokens < req.maxTokens /\ ~SeesCancel
  /\ Emit(EmitToken(req, gen, token))
  /\ tokens' = tokens + 1
  /\ UNCHANGED <<req, queue, closed, cancelled, gone>>
  /\ UNCHANGED httpVars

\* Two sink calls in a row, the second after what the first did to the splitter.
DeliverSecond(first, text) ==
  LET second == OnToken(req, [sink EXCEPT !.sp = first.sp], text)
  IN  Deliver(req, sink, [sp |-> second.sp, ev |-> first.ev \o second.ev])

FlushGate(tail, last) ==
  /\ gen' = last.g
  /\ DeliverSecond(OnToken(req, sink, tail.text), last.text)

FlushDecoder(tail) ==
  FlushGate(tail, IF Live(req) THEN FlushGated(tail.g, TRUE)
                  ELSE [g |-> NoteReasoningProgress(tail.g), text |-> <<>>])

\* The decoder's held bytes, then the gate's.
FlushTail ==
  /\ At("tail")
  /\ FlushDecoder(Routed(req, [gen EXCEPT !.acc = @ \o gen.hold, !.hold = <<>>, !.tail = gen.hold],
                         gen.hold))
  /\ pc' = After[pc]
  /\ UNCHANGED <<req, tokens, finish, queue, closed, cancelled, gone>>
  /\ UNCHANGED httpVars

\* The log's view of the client, taken before OnDone.
NoteClientGone ==
  /\ At("log")
  /\ gone' = (cancelled \/ finish = "cancelled")
  /\ pc' = After[pc]
  /\ UNCHANGED <<req, gen, sink, tokens, finish, out, queue, closed, cancelled>>
  /\ UNCHANGED httpVars

\* The generation as the tool parser sees it: cut at a matched stop string.
ToolParseSource(g) == IF g.stopPos < Len(g.acc) THEN Take(g.acc, g.stopPos) ELSE g.acc

\* The content the client has not been given yet.
StillOwed(r, g, source, content) ==
  IF Live(r)
  THEN ToolStreamRemainder(Take(source, Min({g.gate.streamed, Len(source)})), content)
  ELSE content

\* The tool_mode block: split, parse, deliver the rest and the calls.
ParseTools ==
  /\ At("parse")
  /\ pc' = After[pc]
  /\ IF ~req.tools
     THEN UNCHANGED <<sink, out, finish>>
     ELSE LET text == ToolParseSource(gen)
              pushed == SplitPush(Splitter(req.start), text)
              ev == pushed.ev \o SplitFinish(pushed.sp)
              source == IF req.start = "answer" THEN text ELSE TextOf(ev, FALSE)
              parsed == DropUnknownToolCalls(ParseToolCalls(source))
              oneShot == req.start # "answer" /\ ~req.stream
              reasoning == IF oneShot /\ req.emitReasoning
                           THEN TrimReasoningWhitespace(TextOf(ev, TRUE))
                           ELSE sink.reasoning
              s == [sink EXCEPT !.delivered = @ \/ oneShot, !.reasoning = reasoning,
                                !.calls = parsed.calls]
              owed == OnToken(req, s, StillOwed(req, gen, source, parsed.content))
          IN  /\ sink' = AfterToken(s, owed)
              /\ out' = IF ~req.stream THEN <<>>
                        ELSE DeltaChunks(req, owed.ev)
                             \o IF parsed.calls = <<>> THEN <<>>
                                ELSE <<Chunk("calls", parsed.calls)>>
              /\ finish' = IF parsed.calls # <<>> /\ finish # "cancelled"
                           THEN "tool_calls" ELSE finish
  /\ UNCHANGED <<req, gen, tokens, queue, closed, cancelled, gone>>
  /\ UNCHANGED httpVars

\* OnDone: the splitter's tail, then the finish, usage and [DONE] chunks.
OnDone ==
  /\ At("done")
  /\ LET flush == IF Splits(req) /\ ~sink.delivered THEN SplitFinish(sink.sp) ELSE <<>>
         s == AfterToken(sink, [sp |-> sink.sp, ev |-> flush])
     IN  IF req.stream
         THEN /\ out' = DeltaChunks(req, flush) \o <<Chunk("finish", <<>>)>>
                          \o (IF req.usage THEN <<Chunk("usage", <<>>)>> ELSE <<>>)
                          \o <<Chunk("done", <<>>)>>
              /\ sink' = s
         ELSE /\ out' = <<>>
              /\ sink' = [s EXCEPT !.done = TRUE, !.reasoning =
                            IF Splits(req) /\ ~s.delivered /\ req.emitReasoning
                            THEN TrimReasoningWhitespace(s.raw) ELSE @]
  /\ pc' = After[pc]
  /\ UNCHANGED <<req, gen, tokens, finish, queue, closed, cancelled, gone>>
  /\ UNCHANGED httpVars

\* Anything RunRequest calls on the model throws: the catch block, OnError.
OnError ==
  /\ At("start") \/ At("decode") \/ (At("tail") /\ gen.stopPos # NPos)
  /\ out' = IF req.stream THEN <<Chunk("error", <<>>), Chunk("done", <<>>)>> ELSE <<>>
  /\ sink' = IF req.stream THEN sink ELSE [sink EXCEPT !.errored = TRUE, !.done = TRUE]
  /\ pc' = "close"
  /\ UNCHANGED <<req, gen, tokens, finish, queue, closed, cancelled, gone>>
  /\ UNCHANGED httpVars

\* The predicate Push waits for.
CanPush == closed \/ Len(queue) < QueueSize

\* BoundedQueue::Push of the sink call's next chunk.
Push ==
  /\ out # <<>>
  /\ CanPush
  /\ out' = Tail(out)
  /\ queue' = IF closed THEN queue ELSE Append(queue, Head(out))
  /\ UNCHANGED <<req, gen, sink, pc, tokens, finish, closed, cancelled, gone>>
  /\ UNCHANGED httpVars

\* queue_.Close() at the end of OnDone and OnError.
CloseQueue ==
  /\ At("close")
  /\ closed' = (closed \/ req.stream)
  /\ pc' = After[pc]
  /\ UNCHANGED <<req, gen, sink, tokens, finish, out, queue, cancelled, gone>>
  /\ UNCHANGED httpVars

---------------------------------------------------------------------------
(* The HTTP thread and its client.                                         *)

ClientLeaves ==
  /\ alive /\ http # "ended"
  /\ alive' = FALSE
  /\ UNCHANGED <<req, queue, closed, cancelled, http, chunk, got>>
  /\ UNCHANGED workerVars

\* Mutant: Pop reports the end as soon as the queue is closed.
DrainedEarly == closed

\* Pop returns nothing: closed and drained.
Drained == closed /\ queue = <<>>

\* The provider's Next(): a chunk, or the end of the stream and ds.done().
StreamNext ==
  /\ http = "pop"
  /\ \/ /\ queue # <<>> /\ ~Drained
        /\ chunk' = Head(queue) /\ queue' = Tail(queue)
        /\ http' = "write"
        /\ UNCHANGED got
     \/ /\ Drained
        /\ http' = "release"
        /\ got' = [got EXCEPT !.whole = alive]
        /\ UNCHANGED <<chunk, queue>>
  /\ UNCHANGED <<req, closed, cancelled, alive>>
  /\ UNCHANGED workerVars

\* What the client makes of a chunk, and its view after one; runs of deltas
\* count once.
KindOf(c) == IF c.kind \in {"content", "reasoning"} THEN "delta" ELSE c.kind
Received(view, c) ==
  [kinds |-> IF view.kinds # <<>> /\ Last(view.kinds) = KindOf(c) THEN view.kinds
             ELSE Append(view.kinds, KindOf(c)),
   content |-> IF c.kind = "content" THEN view.content \o c.text ELSE view.content,
   reasoning |-> IF c.kind = "reasoning" THEN view.reasoning \o c.text ELSE view.reasoning,
   calls |-> IF c.kind = "calls" THEN view.calls \o c.text ELSE view.calls,
   whole |-> view.whole]

\* ds.write succeeds; what is written after the client left reaches nobody.
WriteChunk ==
  /\ http = "write"
  /\ http' = "pop" /\ chunk' = Chunk("none", <<>>)
  /\ got' = IF alive THEN Received(got, chunk) ELSE got
  /\ UNCHANGED <<req, queue, closed, cancelled, alive>>
  /\ UNCHANGED workerVars

\* ds.write fails: the provider calls Cancel(), whose first half is the flag.
WriteFails ==
  /\ http = "write" /\ ~alive
  /\ cancelled' = TRUE
  /\ http' = "cancel" /\ chunk' = Chunk("none", <<>>)
  /\ UNCHANGED <<req, queue, closed, alive, got>>
  /\ UNCHANGED workerVars

\* Mutant: Cancel only sets the flag.
CancelClosesNothing == closed

\* The second half of Cancel(): queue_.Close().
CancelCloses == TRUE

CancelClose ==
  /\ http = "cancel"
  /\ closed' = CancelCloses
  /\ http' = "release"
  /\ UNCHANGED <<req, queue, cancelled, chunk, alive, got>>
  /\ UNCHANGED workerVars

\* The provider is released, after a clean end too: Cancel() once more.
Release ==
  /\ http = "release"
  /\ cancelled' = TRUE /\ closed' = CancelCloses
  /\ http' = "ended"
  /\ UNCHANGED <<req, queue, chunk, alive, got>>
  /\ UNCHANGED workerVars

\* BufferingSink::Wait returns and the handler answers in one piece.
Respond ==
  /\ http = "wait" /\ sink.done
  /\ http' = "ended"
  /\ got' = IF ~alive THEN got
            ELSE IF sink.errored THEN [got EXCEPT !.kinds = <<"error">>]
            ELSE [kinds |-> <<"finish">>, content |-> sink.text,
                  reasoning |-> sink.reasoning, calls |-> sink.calls, whole |-> TRUE]
  /\ UNCHANGED <<req, queue, closed, cancelled, chunk, alive>>
  /\ UNCHANGED workerVars

Worker ==
  \/ OnStart \/ LeaveLoop \/ FlushTail \/ NoteClientGone \/ ParseTools
  \/ OnDone \/ OnError \/ Push \/ CloseQueue
  \/ \E token \in req.vocab : DecodeToken(token)

Http == StreamNext \/ WriteChunk \/ WriteFails \/ CancelClose \/ Release \/ Respond

Next == Worker \/ Http \/ ClientLeaves

Spec == Init /\ [][Next]_vars

(* The operating system runs both threads; a write to a client that does   *)
(* not read ends by the socket's time-out.  The worker's weak fairness is  *)
(* written with its enabling condition spelled out: the worker can move    *)
(* unless it has ended or waits in Push.                                   *)
WorkerReady == pc # "ended" /\ (out = <<>> \/ CanPush)

WorkerFairness == []<>~WorkerReady \/ []<><<Worker>>_vars

FairSpec == Spec /\ WorkerFairness /\ WF_vars(Http)

---------------------------------------------------------------------------
(* Properties.                                                             *)

TypeOK ==
  /\ req \in Requests /\ RequestOK(req)
  /\ pc \in DOMAIN After \cup {"ended"}
  /\ tokens \in 0 .. req.maxTokens
  /\ finish \in {"length", "stop", "cancelled", "tool_calls"}
  /\ Len(queue) <= QueueSize
  /\ {closed, cancelled, gone, alive, got.whole} \subseteq BOOLEAN
  /\ http \in {"pop", "write", "cancel", "release", "wait", "ended"}
  /\ gen.forwarded <= gen.streamable /\ gen.streamable <= Len(gen.acc)

(* The reference: what a generation says, cut at once and not by pieces.   *)
ReasoningOf(r, text) ==
  LET body == IF r.start = "expect" THEN Drop(text, Len(OpenTag)) ELSE text
      c == Find(body, CloseTag, 0)
  IN  CASE r.start = "answer" -> <<>>
        [] r.start = "expect" /\ ~IsPrefix(OpenTag, text) -> <<>>
        [] OTHER -> IF c = NPos THEN body ELSE Take(body, c)

AnswerOf(r, text) ==
  LET body == IF r.start = "expect" THEN Drop(text, Len(OpenTag)) ELSE text
      c == Find(body, CloseTag, 0)
      after == Drop(body, c + Len(CloseTag))
  IN  CASE r.start = "answer" -> text
        [] r.start = "expect" /\ ~IsPrefix(OpenTag, text) -> text
        [] OTHER -> IF c = NPos THEN <<>> ELSE Drop(after, LeadingBlanks(after))

Reply(r, text) ==
  IF r.tools THEN DropUnknownToolCalls(ParseToolCalls(AnswerOf(r, text)))
  ELSE [content |-> AnswerOf(r, text), calls |-> <<>>]

(* A stop string that completed across a token's end: part of it may be    *)
(* out already (docs/server.md).                                           *)
Straddled == gen.stopPos # NPos /\ gen.cut > gen.stopPos

\* The text the reply is made of.
ReplyText ==
  CASE req.tools -> ToolParseSource(gen)
    [] ~req.tools /\ gen.stopPos = NPos -> gen.acc
    [] OTHER -> Take(gen.acc, Max({gen.stopPos, gen.cut})) \o gen.tail

(* Characters that could still have become the opener of a reasoning span  *)
(* the model writes itself went to the sink raw, and the gate never let    *)
(* them through: see StreamEqualsBuffered.                                 *)
OpenerForwarded ==
  /\ req.start = "expect" /\ gen.loc.state # "reasoning" /\ ~gen.loc.byTag
  /\ gen.forwarded > gen.gate.streamed

(* The answer begins with a span, right behind the closing tag: the sink's *)
(* splitter has seen no answer when it is given the content behind the     *)
(* span, and drops that content's leading blanks: see StreamEqualsBuffered.*)
SpanLeads == Live(req) /\ gen.loc.byTag /\ gen.gate.streamed = 0

Finished == got.whole /\ \A i \in DOMAIN got.kinds : got.kinds[i] # "error"

ContentIsExact ==
  LET exact == Reply(req, ReplyText).content
  IN  IF Live(req) /\ Straddled
      THEN /\ IsPrefix(exact, got.content)
           /\ IsPrefix(got.content, AnswerOf(req, Take(gen.acc, gen.cut)))
      ELSE got.content = IF SpanLeads THEN Drop(exact, LeadingBlanks(exact)) ELSE exact

(* A client that was served to the end has, from all the deltas together,  *)
(* the answer, the reasoning and the calls of the whole generation: no     *)
(* byte is lost, doubled or put on the wrong side wherever the tokens cut  *)
(* the tags (StreamingSink, BufferingSink, FlushGated, ToolStreamRemainder *)
(* and the splitter's Finish), and the calls come behind all the content.  *)
ReceivedIsExact ==
  (Finished /\ ~(Live(req) /\ OpenerForwarded)) =>
    LET reasoning == ReasoningOf(req, ReplyText) IN
    /\ ContentIsExact
    /\ got.calls = Reply(req, ReplyText).calls
    /\ \A i \in DOMAIN got.kinds, j \in DOMAIN got.kinds :
         got.kinds[i] = "calls" /\ got.kinds[j] = "delta" => j < i
    /\ got.reasoning = IF ~req.emitReasoning THEN <<>>
                       ELSE IF req.stream THEN reasoning
                       ELSE TrimReasoningWhitespace(reasoning)

\* All the content that has left the worker or is about to.
ContentOf(c) == IF c.kind = "content" THEN c.text ELSE <<>>
Contents(chunks) == FlattenSeq([i \in 1 .. Len(chunks) |-> ContentOf(chunks[i])])
Emitted == got.content \o Contents((<<chunk>> \o queue) \o out)

(* While a tool-offering reply streams, a connected client is given a part *)
(* of the answer that ends before the first tool-call opener: no byte of   *)
(* an opener is given away, not even one that only later tokens turn into  *)
(* an opener (ToolStreamGate's hold, docs/server.md).                      *)
NoOpenerShown ==
  LET answer == AnswerOf(req, ToolParseSource(gen))
      p == Find(answer, ToolOpen, 0)
  IN  (alive /\ Live(req) /\ pc \in {"decode", "tail", "log", "parse"} /\ p # NPos) =>
        IsPrefix(Emitted, Take(answer, p))

(* The order of a stream's chunks: contents and calls may alternate. *)
Rank == [role |-> 1, delta |-> 2, calls |-> 2, finish |-> 3, error |-> 3,
         usage |-> 4, done |-> 5]
Before(k, m) == Rank[k] < Rank[m] \/ (Rank[k] = 2 /\ Rank[m] = 2)

(* A stream has its chunks in the order the API promises, one verdict at   *)
(* most, and when the server terminates it cleanly the verdict and [DONE]  *)
(* are there: Pop drains a closed queue, and nothing is pushed after.      *)
StreamIsWhole ==
  req.stream =>
    /\ \A i, j \in DOMAIN got.kinds : i < j => Before(got.kinds[i], got.kinds[j])
    /\ got.whole => /\ Last(got.kinds) = "done"
                    /\ {"finish", "error"} \cap Range(got.kinds) # {}
                    /\ ("usage" \in Range(got.kinds))
                         = (req.usage /\ "finish" \in Range(got.kinds))

(* The request log says a client went away only when it did, although the  *)
(* HTTP layer cancels the sink of every finished stream too.               *)
CancelIsReal == (gone \/ finish = "cancelled") => ~alive

(* Nobody waits for ever: the worker's pushes end however full the queue   *)
(* was when the client left, and the HTTP thread is let go by success,     *)
(* error and cancellation alike.                                           *)
EveryoneEnds == <>(pc = "ended" /\ http = "ended")

(* docs/server.md: the deltas of a streaming request are, byte for byte,   *)
(* the content the non-streaming path returns for the same generation      *)
(* (but for a stop string completed across a token's end).                 *)
StreamEqualsBuffered ==
  (Finished /\ Live(req) /\ ~Straddled) => got.content = Reply(req, ReplyText).content

---------------------------------------------------------------------------
(* The inductive invariant behind StreamIsWhole and CancelIsReal           *)
(* (ResponseStreamProofs).                                                 *)

Sequential(s) == s \in Seq({s[i] : i \in DOMAIN s})
ChunkKinds == {"role", "content", "reasoning", "calls", "finish", "error", "usage", "done"}
Places == DOMAIN After \cup {"ended"}

Shapes ==
  /\ Sequential(out) /\ Sequential(queue) /\ Sequential(got.kinds)
  /\ \A i \in DOMAIN out : out[i].kind \in ChunkKinds
  /\ \A i \in DOMAIN queue : queue[i].kind \in ChunkKinds
  /\ http = "write" => chunk.kind \in ChunkKinds
  /\ \A i \in DOMAIN got.kinds : got.kinds[i] \in DOMAIN Rank
  /\ pc \in Places
  /\ alive \in BOOLEAN
  /\ got \in [kinds : {got.kinds}, content : {got.content}, reasoning : {got.reasoning},
             calls : {got.calls}, whole : BOOLEAN]

(* Who closes the queue, and when the sink counts as cancelled: a failed   *)
(* write, or an end the worker has reached.                                *)
CloseIsCause ==
  /\ closed \/ cancelled => ~alive \/ pc = "ended"
  /\ http = "cancel" => ~alive
  /\ http = "release" => closed
  /\ gone \/ finish = "cancelled" => ~alive
  /\ pc = "ended" => out = <<>>
  /\ ~req.stream => http \in {"wait", "ended"} /\ ~closed /\ ~cancelled
  /\ req.stream => http # "wait"

(* What a connected client has or will get, and how far each place of the  *)
(* worker lets it be.                                                      *)
Waiting == IF http = "write" THEN <<chunk>> ELSE <<>>
InOrder(s, t) == \A i \in DOMAIN s, j \in DOMAIN t : Before(KindOf(s[i]), KindOf(t[j]))
Sorted(s) == \A i, j \in DOMAIN s : i < j => Before(KindOf(s[i]), KindOf(s[j]))
KindsIn(s) == {KindOf(s[i]) : i \in DOMAIN s}
Sent == {got.kinds[i] : i \in DOMAIN got.kinds}
Seen == Sent \cup KindsIn(Waiting) \cup KindsIn(queue) \cup KindsIn(out)
Level(place) == CASE place = "start" -> 0 [] place \in {"close", "ended"} -> 5 [] OTHER -> 2

Behind(s) == \A k \in Sent, i \in DOMAIN s : Before(k, KindOf(s[i]))
Lined ==
  /\ Sorted(queue) /\ Sorted(out)
  /\ InOrder(Waiting, queue) /\ InOrder(Waiting, out) /\ InOrder(queue, out)
  /\ Behind(Waiting) /\ Behind(queue) /\ Behind(out)
  /\ \A k \in Seen : Rank[k] <= Level(pc)
  /\ pc \in {"close", "ended"} =>
       /\ "done" \in Seen /\ {"finish", "error"} \cap Seen # {}
       /\ "usage" \in Seen <=> req.usage /\ "finish" \in Seen

IInv ==
  /\ Shapes /\ CloseIsCause /\ StreamIsWhole
  /\ req.stream /\ alive => Lined

---------------------------------------------------------------------------
(* The inductive invariant behind NoOpenerShown (ResponseStreamProofs):    *)
(* while a tool-offering reply streams, the locator, the gate and the      *)
(* sink's splitter, fed piece by piece, are where one look at the whole    *)
(* text would put them.                                                    *)

Streaming == {"start", "decode", "tail", "log", "parse"}
Flushed == {"log", "parse"}

\* The parts of RunRequest's locals and of the sink.
Fields == {"acc", "hold", "tail", "stopPos", "cut", "loc", "floor", "thinkEnd", "begin",
           "forwarded", "streamable", "fed", "gate"}
SinkFields == {"sp", "delivered", "done", "errored", "text", "raw", "reasoning", "calls"}
IsGen(g) == g = [f \in Fields |-> g[f]]
IsSink(s) == s = [f \in SinkFields |-> s[f]]

\* What a splitter fed a text has let through as content.
Shown(start, text) == TextOf(SplitPush(Splitter(start), text).ev, FALSE)

\* The text so far, and how long so many tokens can have made it.
Texts(r, g, spent) ==
  /\ IsGen(g) /\ g.acc \in Seq(Char) /\ g.hold \in Seq(Char) /\ spent \in 0 .. r.maxTokens
  /\ \A longest \in 0 .. NPos : (\A t \in r.vocab : Len(t) <= longest) =>
       Len(g.acc) + Len(g.hold) <= spent * longest

Located(r, g) ==
  /\ g.loc = LocatorUpdate(Locator(r.start), g.acc)
  /\ g.floor = g.loc.end /\ g.thinkEnd = g.loc.end

\* How far text may be streamed, and what is known once a stop string was found.
StopIn(g) ==
  /\ g.stopPos \in Nat /\ g.streamable \in Min({g.stopPos, Len(g.acc)}) .. Len(g.acc)
  /\ g.stopPos # NPos => g.loc.state = "answer" /\ g.loc.end <= g.stopPos

\* Where the answer begins, and how much of it the gate has seen.
Begun(g) ==
  IF g.begin = NPos THEN g.fed = 0
  ELSE /\ g.loc.state = "answer"
       /\ g.begin \in g.loc.end .. Len(g.acc)
       /\ IF g.loc.byTag
          THEN /\ g.begin < Len(g.acc) /\ g.acc[g.begin + 1] # Newline
               /\ \A i \in g.loc.end + 1 .. g.begin : g.acc[i] = Newline
          ELSE g.begin = 0
       /\ g.fed \in 0 .. Len(g.acc) - g.begin

\* The gate: fed that much at once, and finished when the tail is flushed.
FedIn(g) == SubSeq(g.acc, g.begin + 1, g.begin + g.fed)
GatedIn(g) == g.gate = GatePush(Gate, FedIn(g))
FinishedIn(g) == g.gate = GateFinish(GatePush(Gate, FedIn(g)))
FedAll(g) == g.begin # NPos => g.begin + g.fed >= g.streamable

ForwardedIn(r, g) ==
  /\ g.forwarded \in 0 .. Len(g.acc)
  /\ Shown(r.start, Take(g.acc, g.forwarded)) # <<>> =>
       g.begin # NPos /\ g.forwarded <= g.begin + g.gate.streamed

Sunk(r, g, s) ==
  /\ IsSink(s) /\ ~s.delivered
  /\ s.sp = SplitPush(Splitter(r.start), Take(g.acc, g.forwarded)).sp

\* The chunks on their way to a connected client hold what the splitter let
\* through.
Carried ==
  /\ got.content \in Seq(Char)
  /\ http # "write" => chunk.kind = "none"
  /\ \A i \in DOMAIN queue : ContentOf(queue[i]) \in Seq(Char)
  /\ \A i \in DOMAIN out : ContentOf(out[i]) \in Seq(Char)
  /\ ContentOf(chunk) \in Seq(Char)
  /\ Emitted = Shown(req.start, Take(gen.acc, gen.forwarded))

\* The locals at each place of the worker.
Bookkept(r, g, place) ==
  /\ Located(r, g) /\ StopIn(g) /\ Begun(g) /\ ForwardedIn(r, g)
  /\ place \in {"start", "decode"} => g.stopPos = NPos
  /\ IF place \in Flushed THEN FinishedIn(g) /\ FedAll(g) ELSE GatedIn(g)

TextInv ==
  Live(req) /\ pc \in Streaming =>
    /\ Texts(req, gen, tokens) /\ Bookkept(req, gen, pc) /\ Sunk(req, gen, sink)
    /\ alive => Carried
============================================================================
