--------------------------- MODULE MCPrefixReuse ---------------------------
(***************************************************************************)
(* Small instances of PrefixReuse.                                         *)
(*                                                                         *)
(* Requests are all prompts of at most MaxLen tokens over Text and the     *)
(* placeholder, and of one token more around pictures that stand between   *)
(* tokens.  A prompt either carries no picture (its placeholders, if any,  *)
(* are text the client wrote) or a picture for every placeholder.          *)
(***************************************************************************)
EXTENDS PrefixReuse, SequencesExt

CONSTANTS MaxLen, \* bound: tokens of a prompt
          MaxBack \* bound: ckpt_back

(* A prompt is a row of blocks: a text token, a placeholder the client     *)
(* wrote, or a picture, which takes Span placeholders.                     *)
Blocks == UNION {[1..n -> Text \cup {Pad} \cup Hash] : n \in 1..MaxLen}
SpanOf == [h \in Hash |-> IF h = CHOOSE x \in Hash : TRUE THEN 1 ELSE 2]

Render(blocks, b) ==
  LET add(p, x) ==
        IF x \in Hash
          THEN [p EXCEPT !.images = Append(@, [hash |-> x, offset |-> Len(p.toks)]),
                         !.toks = @ \o [i \in 1..SpanOf[x] |-> Pad]]
          ELSE [p EXCEPT !.toks = Append(@, x)]
  IN FoldLeft(add, [toks |-> <<>>, images |-> <<>>, back |-> b], blocks)

WellFormed(p, blocks) ==
  /\ Len(p.toks) <= MaxLen + (IF p.images # <<>> /\ Bracketed(p) THEN 1 ELSE 0)
  /\ p.images # <<>> => \A j \in 1..Len(blocks) : blocks[j] # Pad
  /\ p.back < Len(p.toks)
  /\ \A i \in Len(p.toks) - p.back + 1 .. Len(p.toks) : p.toks[i] \in Text

MCPrompts ==
  {Render(x[1], x[2]) : x \in {y \in Blocks \X (0..MaxBack) : WellFormed(Render(y[1], y[2]), y[1])}}
=============================================================================
