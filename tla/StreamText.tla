---------------------------- MODULE StreamText ----------------------------
(***************************************************************************)
(* The text algorithms of the server's reply path, as pure operators:      *)
(* ReasoningSplitter and ReasoningLocator (reasoning_splitter.cpp), the    *)
(* tool-call gate and its remainder (tool_stream_gate.cpp), the span       *)
(* scanner of the tool-call parsers (tool_call_parser.cpp) and the UTF-8   *)
(* hold of the tokenizer's StreamDecoder.                                  *)
(*                                                                         *)
(* A text is a sequence of characters.  Offsets count from zero as in the  *)
(* code.  The tags are constants: only that they are texts which may       *)
(* arrive cut at any place matters.                                        *)
(***************************************************************************)
EXTENDS Integers, Sequences, FiniteSetsExt, SequencesExt

CONSTANTS
  Char,       \* the characters
  OpenTag,    \* ReasoningSyntax::open, generated by the model itself (Gemma)
  CloseTag,   \* ReasoningSyntax::close
  ToolOpen,   \* ModelDialect::tool_open
  ToolClose,  \* ModelDialect::tool_close
  Calls,      \* the span bodies that parse as a call
  KnownCalls, \* those of them that name a tool the request offered
  Newline,    \* a blank-line character
  LeadByte,   \* the first half of a two-byte character
  Note,       \* what DropUnknownToolCalls writes for a dropped call
  NPos        \* std::string::npos, more than the length of any text

(* A dialect's closing tag never begins inside its opening tag.            *)
ASSUME TagsAssumption ==
  /\ \A t \in {OpenTag, CloseTag, ToolOpen, ToolClose} : t \in Seq(Char) /\ Len(t) > 0
  /\ \A p \in 0 .. Len(OpenTag) - 1 : \E i \in 1 .. Len(CloseTag) :
       p + i <= Len(OpenTag) /\ OpenTag[p + i] # CloseTag[i]
  /\ KnownCalls \subseteq Calls

(* The offset that says nowhere is not the start of a text.                *)
ASSUME NPosAssumption == NPos \in Nat \ {0}

Take(s, n) == SubSeq(s, 1, n)
Drop(s, n) == SubSeq(s, n + 1, Len(s))

\* std::string::find.
Find(s, t, from) ==
  LET at == {p \in from .. Len(s) - Len(t) : SubSeq(s, p + 1, p + Len(t)) = t}
  IN  IF at = {} THEN NPos ELSE Min(at)

\* Mutant: the scan of the held-back suffix starts one byte too short.
LongestTagPrefixSuffixShort(buf, tag) ==
  Max({k \in 0 .. Len(tag) - 2 : k <= Len(buf) /\ IsSuffix(Take(tag, k), buf)})

\* The longest suffix of buf that could still grow into the tag.
LongestTagPrefixSuffix(buf, tag) ==
  Max({k \in 0 .. Len(tag) - 1 : k <= Len(buf) /\ IsSuffix(Take(tag, k), buf)})

LeadingBlanks(s) ==
  Max({i \in 0 .. Len(s) : \A j \in 1 .. i : s[j] = Newline})

---------------------------------------------------------------------------
(* ReasoningSplitter: fed the pieces of a generation, it yields events,    *)
(* each a run of reasoning or of answer text.                              *)

Splitter(start) ==
  [mode |-> start, tagHold |-> <<>>, nlHold |-> <<>>,
   started |-> start = "answer", skipBlank |-> FALSE]

Event(reasoning, text) ==
  IF text = <<>> THEN <<>> ELSE <<[reasoning |-> reasoning, text |-> text]>>

ProcessAnswer(sp, buf) ==
  LET combined == sp.nlHold \o buf
      i == LeadingBlanks(combined)
  IN  IF sp.started \/ ~sp.skipBlank
      THEN [sp |-> [sp EXCEPT !.started = TRUE], ev |-> Event(FALSE, buf)]
      ELSE IF i = Len(combined)
      THEN [sp |-> [sp EXCEPT !.nlHold = combined], ev |-> <<>>]
      ELSE [sp |-> [sp EXCEPT !.nlHold = <<>>, !.started = TRUE],
            ev |-> Event(FALSE, Drop(combined, i))]

\* The reasoning side of Push: up to the close tag, less what may be its start.
ScanForClose(sp, buf) ==
  LET p == Find(buf, CloseTag, 0)
      emit == Len(buf) - LongestTagPrefixSuffix(buf, CloseTag)
      answer == ProcessAnswer([sp EXCEPT !.mode = "answer", !.tagHold = <<>>,
                                         !.skipBlank = TRUE],
                              Drop(buf, p + Len(CloseTag)))
  IN  IF p = NPos
      THEN [sp |-> [sp EXCEPT !.mode = "reasoning", !.tagHold = Drop(buf, emit)],
            ev |-> Event(TRUE, Take(buf, emit))]
      ELSE [sp |-> answer.sp, ev |-> Event(TRUE, Take(buf, p)) \o answer.ev]

\* ReasoningSplitter::Push.
SplitPush(sp, piece) ==
  LET buf == sp.tagHold \o piece
  IN  CASE piece = <<>> -> [sp |-> sp, ev |-> <<>>]
        [] piece # <<>> /\ sp.mode = "answer" -> ProcessAnswer(sp, piece)
        [] piece # <<>> /\ sp.mode = "reasoning" -> ScanForClose(sp, buf)
        [] OTHER -> \* "expect"
             IF IsPrefix(OpenTag, buf)
             THEN ScanForClose(sp, Drop(buf, Len(OpenTag)))
             ELSE IF IsPrefix(buf, OpenTag)
             THEN [sp |-> [sp EXCEPT !.tagHold = buf], ev |-> <<>>]
             ELSE [sp |-> [sp EXCEPT !.mode = "answer", !.started = TRUE,
                                     !.tagHold = <<>>],
                   ev |-> Event(FALSE, buf)]

\* ReasoningSplitter::Finish: a held tag prefix was text; held blanks are not.
SplitFinish(sp) ==
  IF sp.mode = "answer" THEN <<>> ELSE Event(sp.mode = "reasoning", sp.tagHold)

\* The text of one kind in a list of events.
TextOf(ev, reasoning) ==
  FlattenSeq([i \in 1 .. Len(ev) |->
                IF ev[i].reasoning = reasoning THEN ev[i].text ELSE <<>>])

TrimReasoningWhitespace(s) ==
  LET front == Drop(s, LeadingBlanks(s))
  IN  Take(front, Len(front) - LeadingBlanks(Reverse(front)))

---------------------------------------------------------------------------
(* ReasoningLocator: the same boundary, found in the accumulated text.     *)

Locator(start) ==
  [state |-> start, end |-> IF start = "answer" THEN 0 ELSE NPos, byTag |-> FALSE]

LocatorUpdate(loc, text) ==
  LET pending == loc.state = "expect"
      p == Find(text, CloseTag, IF pending THEN Len(OpenTag) ELSE 0)
      closed == [state |-> "answer", end |-> p + Len(CloseTag), byTag |-> TRUE]
      inside == IF p = NPos THEN [loc EXCEPT !.state = "reasoning"] ELSE closed
  IN  IF loc.state = "answer" THEN loc
      ELSE IF ~pending \/ IsPrefix(OpenTag, text) THEN inside
      ELSE IF IsPrefix(text, OpenTag) THEN loc
      ELSE [state |-> "answer", end |-> 0, byTag |-> FALSE]

\* ReasoningLocator::AnswerBegin.
AnswerBegin(loc, text, limit) ==
  LET lim == Min({limit, Len(text)})
      blanks == LeadingBlanks(SubSeq(text, loc.end + 1, lim))
      i == IF loc.byTag THEN loc.end + blanks ELSE loc.end
  IN  IF loc.state = "answer" /\ i < lim THEN i ELSE NPos

---------------------------------------------------------------------------
(* ToolStreamGate: how much of the answer may be streamed.                 *)

Gate == [closed |-> FALSE, hold |-> <<>>, streamed |-> 0]

\* Mutant: the gate streams the start of an opener that may still complete.
GatePushEager(gate, piece) ==
  LET buf == gate.hold \o piece
      p == Find(buf, ToolOpen, 0)
  IN  IF gate.closed \/ piece = <<>> THEN gate
      ELSE IF p # NPos
      THEN [closed |-> TRUE, hold |-> <<>>, streamed |-> gate.streamed + p]
      ELSE [gate EXCEPT !.streamed = @ + Len(buf)]

\* ToolStreamGate::Push; its result is only used as a count of bytes.
GatePush(gate, piece) ==
  LET buf == gate.hold \o piece
      p == Find(buf, ToolOpen, 0)
      out == Len(buf) - LongestTagPrefixSuffix(buf, ToolOpen)
  IN  IF gate.closed \/ piece = <<>> THEN gate
      ELSE IF p # NPos
      THEN [closed |-> TRUE, hold |-> <<>>, streamed |-> gate.streamed + p]
      ELSE [gate EXCEPT !.hold = Drop(buf, out), !.streamed = @ + out]

\* ToolStreamGate::Finish.
GateFinish(gate) ==
  IF gate.closed THEN gate
  ELSE [gate EXCEPT !.hold = <<>>, !.streamed = @ + Len(gate.hold)]

ToolStreamRemainder(streamed, content) ==
  IF IsPrefix(streamed, content) THEN Drop(content, Len(streamed)) ELSE content

---------------------------------------------------------------------------
(* ParseToolCalls: text outside the spans is content, a span that parses   *)
(* is a call, one that does not stays content.                             *)

ParseToolCalls(text) ==
  LET parse[pos \in 0 .. Len(text)] ==
        LET s == Find(text, ToolOpen, pos)
            inner == s + Len(ToolOpen)
            e == Find(text, ToolClose, inner)
            body == SubSeq(text, inner + 1, e)
            next == e + Len(ToolClose)
        IN  IF s = NPos \/ e = NPos
            THEN [content |-> Drop(text, pos), calls |-> <<>>]
            ELSE IF body \in Calls
            THEN [content |-> SubSeq(text, pos + 1, s) \o parse[next].content,
                  calls |-> <<body>> \o parse[next].calls]
            ELSE [parse[next] EXCEPT !.content = SubSeq(text, pos + 1, next) \o @]
  IN  parse[0]

\* DropUnknownToolCalls: each dropped call leaves a note at the end.
DropUnknownToolCalls(parsed) ==
  LET Known(c) == c \in KnownCalls
      Unknown(c) == c \notin KnownCalls
      dropped == SelectSeq(parsed.calls, Unknown)
  IN  [content |-> parsed.content
                     \o FlattenSeq([i \in 1 .. Len(dropped) |-> Note \o dropped[i]]),
       calls |-> SelectSeq(parsed.calls, Known)]

---------------------------------------------------------------------------
(* StreamDecoder::push: a character cut by the token's end is held back.   *)

DecoderPush(hold, token) ==
  LET buf == hold \o token
      safe == IF buf # <<>> /\ Last(buf) = LeadByte THEN Len(buf) - 1 ELSE Len(buf)
  IN  [piece |-> Take(buf, safe), hold |-> Drop(buf, safe)]
============================================================================
