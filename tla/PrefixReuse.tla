---------------------------- MODULE PrefixReuse ----------------------------
(***************************************************************************)
(* The server's worker loop and what a request does to the model's state:  *)
(* Engine::RunRequest (src/src/server/engine.cpp) with PrefixState         *)
(* (src/src/server/prefix_state.h), ProcessMtpRound                        *)
(* (src/src/model/mtp_round.hpp) and the sequence state of Model and of    *)
(* GemmaModel (src/src/model/model.cpp, gemma_model.cpp: Reset,            *)
(* SaveCheckpoint, RestoreCheckpoint, Prefill and the decode steps).       *)
(*                                                                         *)
(* What a request finds in the model is decided by PrefixState, which only *)
(* remembers token ids and image keys.  The model's own state is here the  *)
(* history it consumed: kv, position by position, and beside it gdn, the   *)
(* recurrent state of Model, which cannot be rewound, or sliding, the rings*)
(* of GemmaModel, whose old rows are overwritten (KvRings).  An element of *)
(* a history is a token with the piece of the picture spliced there; every *)
(* placeholder of every picture is the same token, so equal tokens need    *)
(* not be equal history.                                                   *)
(***************************************************************************)
EXTENDS Integers, Sequences, FiniteSets, KvRings

CONSTANTS
  Text,             \* ordinary token ids
  Pad, Eos,         \* the image-placeholder token, the end-of-sequence token
  Hash,             \* content hashes of pictures
  Span,             \* [Hash -> Nat]: placeholder tokens of a picture
  Prompts,          \* the requests: records of token ids, keys and ckpt_back
  PromptCheckpoint, \* --prompt-checkpoint
  DraftK,           \* draft tokens per speculative round
  MaxCtx,           \* --max-ctx
  MaxReply,         \* bound: max_tokens of a request
  PrefillChunks     \* the values of --prefill-chunk

Token == Text \cup {Pad, Eos}
\* ImageKey, the content hash standing for the grid too
Key == [hash : Hash, offset : Nat]
Pieces == SUBSET (Hash \X Nat)
Row == (Token \X Pieces) \cup {Junk}
History == Seq(Row)
Store(slots) == [0..slots - 1 -> (Nat \X Row) \cup {Junk}]
Request == [toks : Seq(Token), images : Seq(Key), back : Nat]

\* between requests
NoRequest == [toks |-> <<>>, images |-> <<>>, back |-> 0]

ASSUME TokenAssumption == Pad \notin Text /\ Eos \notin Text /\ Pad # Eos
ASSUME BoundAssumption ==
  /\ Span \in [Hash -> Nat \ {0}]
  /\ PromptCheckpoint \in BOOLEAN
  /\ DraftK \in Nat \ {0} /\ MaxCtx \in Nat /\ MaxReply \in Nat
ASSUME JunkAssumption == Junk \notin Token \X Pieces
\* GemmaModel::Load: a chunk of prefill or of verification fits the rings
ASSUME ChunkAssumption ==
  PrefillChunks \subseteq Nat \ {0} /\ \A c \in PrefillChunks : RingFits(c)

(* How the model was loaded: its family, its drafter, its prefill chunk.   *)
(* Model's chunk makes no difference here; GemmaModel has no MTP head, and *)
(* its verify window must fit the chunk.                                   *)
Loads ==
  {l \in [family : {"Model", "GemmaModel"}, drafter : {"none", "mtp", "dflash"}, chunk : PrefillChunks] :
     /\ l.family = "Model" => \A c \in PrefillChunks : c <= l.chunk
     /\ l.family = "GemmaModel" => l.drafter # "mtp"
     /\ l.family = "GemmaModel" /\ l.drafter = "dflash" => l.chunk > DraftK}

(* A request that reached the model: rendered, tokenized, its pictures     *)
(* expanded, not empty and no longer than the context.  The tokens held    *)
(* back (ckpt_back) are the text the template put at the prompt's end.     *)
ASSUME PromptsAssumption ==
  /\ Prompts \subseteq Request
  /\ \A p \in Prompts :
       /\ Len(p.toks) \in 1..MaxCtx
       /\ p.back < Len(p.toks)
       /\ \A i \in Len(p.toks) - p.back + 1 .. Len(p.toks) : p.toks[i] \in Text
       /\ \A j \in 1..Len(p.images) :
            /\ p.images[j].offset + Span[p.images[j].hash] <= Len(p.toks)
            /\ \A i \in 1..Span[p.images[j].hash] : p.toks[p.images[j].offset + i] = Pad
            /\ j > 1 => p.images[j].offset
                          >= p.images[j - 1].offset + Span[p.images[j - 1].hash]

VARIABLES
  pc,            \* where RunRequest is; "idle": in Pop()
  req,           \* the request being run
  skip,          \* tokens of the prompt the model already holds
  off,           \* off: tokens of the running prefill call already fed
  next,          \* the token to feed next
  generated,     \* generated_tokens: what the client is shown
  committed,     \* committed_tokens: what the decode loop says it fed
  fed, fedImages, needsReset, checkpoint, hasCheckpoint,  \* PrefixState
  kv, gdn,       \* Model: the history in the KV caches and in the GDN state
  sliding,       \* GemmaModel: the rings of the sliding layers
  draft,         \* the DFlash drafter's ring and frontier
  ckptPos, ckptGdn, ckptSliding, \* the saved position (-1: none) and state
  atPrefillEnd,  \* Model: at_prefill_end_
  health,        \* TpModel: "kReady" or "kNeedsRecovery"
  load           \* how the model was loaded

requestVars == <<pc, req, skip, off, next, generated, committed>>
prefixVars == <<fed, fedImages, needsReset, checkpoint, hasCheckpoint>>
checkpointVars == <<ckptPos, ckptGdn, ckptSliding>>
modelVars == <<kv, gdn, sliding, draft, checkpointVars, atPrefillEnd, health, load>>
vars == <<requestVars, prefixVars, modelVars>>

Phases == {"idle", "plan", "prefill", "save", "tail", "first", "decode", "finish"}

Init ==
  /\ pc = "idle" /\ req = NoRequest /\ skip = 0 /\ off = 0 /\ next = Eos
  /\ generated = <<>> /\ committed = <<>>
  /\ fed = <<>> /\ fedImages = <<>> /\ needsReset = FALSE
  /\ checkpoint = <<>> /\ hasCheckpoint = FALSE
  /\ kv = <<>> /\ gdn = <<>> /\ sliding = EmptyRing /\ draft = NewDraft
  /\ ckptPos = -1 /\ ckptGdn = <<>> /\ ckptSliding = EmptyRing
  /\ atPrefillEnd = FALSE /\ health = "kReady"
  /\ load \in Loads

-----------------------------------------------------------------------------
(* Histories.                                                              *)

\* what splicing the pictures of `images` puts at position i
PiecesAt(images, i) ==
  {<<images[j].hash, i - images[j].offset>> :
     j \in {n \in 1..Len(images) :
              images[n].offset < i /\ i <= images[n].offset + Span[images[n].hash]}}
\* the history of a prompt
Content(toks, images) == [i \in 1..Len(toks) |-> <<toks[i], PiecesAt(images, i)>>]
\* the history of tokens that were decoded: no picture
Plain(toks) == [i \in 1..Len(toks) |-> <<toks[i], {}>>]

Gemma == load.family = "GemmaModel"
Speculates == load.drafter # "none"

\* the drafter is given what the model computed for the rows it keeps
DraftWith(rows) ==
  IF load.drafter = "dflash" THEN InjectFeatures(draft, Len(kv), rows) ELSE draft

(* RunChunk: a chunk of a prefill call or a plain decode step.  `ext` are  *)
(* the ends of the pictures the rows are in.                               *)
Feed(rows, ext) ==
  IF Gemma
    THEN LET out == Computed(kv, sliding, rows, ext)
         IN /\ kv' = kv \o out /\ sliding' = Put(sliding, RingTokens, Len(kv), out)
            /\ draft' = DraftWith(out)
            /\ UNCHANGED gdn
    ELSE /\ kv' = kv \o rows /\ gdn' = gdn \o rows
         /\ draft' = DraftWith(rows)
         /\ UNCHANGED sliding

\* the pictures spliced into prompt positions from + 1 .. to
ImageBlocks(from, to) ==
  {<<k.offset - from, k.offset - from + Span[k.hash]>> :
     k \in {req.images[j] : j \in {n \in 1..Len(req.images) :
                                    req.images[n].offset >= from /\ req.images[n].offset < to}}}

(* The call that prefills prompt positions from + 1 .. to goes on with its *)
(* next chunk.  Where Model cuts makes no difference to its state.         *)
NextEnd(from, to) ==
  IF Gemma THEN ChunkEnd(off, to - from, ImageBlocks(from, to), load.chunk) ELSE to - from
FeedPrompt(from, to) ==
  LET end == NextEnd(from, to)
  IN /\ Feed(SubSeq(Content(req.toks, req.images), from + off + 1, from + end),
             KlimitExt(Len(kv), <<off, end>>, ImageBlocks(from, to)))
     /\ atPrefillEnd' = (end = to - from)
     /\ off' = IF end = to - from THEN 0 ELSE end

(* A verified round: the anchor and the accepted drafts, with `rejected`   *)
(* drafts after them.  GemmaModel's window wrote the rows of all of them,  *)
(* and drafts no further than the context.                                 *)
FeedRound(rows, rejected) ==
  IF Gemma
    THEN LET window == rows \o [i \in 1..rejected |-> Junk]
             out == Computed(kv, sliding, window, Causal(Len(window)))
             kept == SubSeq(out, 1, Len(rows))
         IN /\ Len(window) <= DraftK + 1 /\ Len(kv) + Len(window) <= MaxCtx
            /\ kv' = kv \o kept /\ sliding' = Put(sliding, RingTokens, Len(kv), out)
            /\ draft' = DraftWith(kept)
            /\ UNCHANGED gdn
    ELSE rejected = 0 /\ Feed(rows, Causal(Len(rows)))

-----------------------------------------------------------------------------
(* PrefixState.                                                            *)

\* mutant: token equality alone decides
TailAfterTokens(prefix, p) ==
  Len(p.toks) > Len(prefix) /\ SubSeq(p.toks, 1, Len(prefix)) = prefix
TailAfter(prefix, p) ==
  /\ Len(p.toks) > Len(prefix)
  /\ SubSeq(p.toks, 1, Len(prefix)) = prefix
  /\ Len(p.images) >= Len(fedImages)
  /\ SubSeq(p.images, 1, Len(fedImages)) = fedImages
  /\ \A j \in Len(fedImages) + 1 .. Len(p.images) : p.images[j].offset >= Len(prefix)

\* mutant: the demand for a reset is not honoured
PlanFedAnyway(p) == TailAfter(fed, p)
PlanFed(p) == ~needsReset /\ TailAfter(fed, p)
PlanCheckpoint(p) ==
  ~needsReset /\ ~TailAfter(fed, p) /\ hasCheckpoint /\ TailAfter(checkpoint, p)

DropCheckpoint == checkpoint' = <<>> /\ hasCheckpoint' = FALSE

Clear ==
  /\ fed' = <<>> /\ fedImages' = <<>> /\ DropCheckpoint
  /\ UNCHANGED needsReset

Commit(toks, more, images, ckptLen) ==
  /\ fed' = toks \o more
  /\ fedImages' = images
  /\ needsReset' = FALSE
  /\ IF ckptLen \in 1..Len(toks)
       THEN checkpoint' = SubSeq(toks, 1, ckptLen) /\ hasCheckpoint' = TRUE
       ELSE DropCheckpoint

Invalidate ==
  /\ fed' = <<>> /\ fedImages' = <<>> /\ DropCheckpoint
  /\ needsReset' = TRUE

-----------------------------------------------------------------------------
(* Engine::RunRequest up to the first decoded token.                       *)

(* ExpandImagePlaceholders puts a token of GemmaModel's own on either side *)
(* of a picture: its placeholders are a run of their own.                  *)
Bracketed(p) ==
  \A j \in 1..Len(p.images) :
    LET end == p.images[j].offset + Span[p.images[j].hash]
    IN /\ p.images[j].offset > 0 /\ p.toks[p.images[j].offset] # Pad
       /\ end < Len(p.toks) /\ p.toks[end + 1] # Pad

Submit(p) ==
  /\ pc = "idle"
  /\ Gemma => Bracketed(p)
  /\ pc' = "plan" /\ req' = p
  /\ UNCHANGED <<skip, off, next, generated, committed, prefixVars, modelVars>>

\* continue from everything the last request left
ContinueFed ==
  /\ pc = "plan" /\ PlanFed(req)
  /\ pc' = "prefill" /\ skip' = Len(fed)
  /\ UNCHANGED <<req, off, next, generated, committed, prefixVars, modelVars>>

\* RestoreCheckpoint, then continue from the checkpointed prompt
RestoreCheckpoint ==
  /\ pc = "plan" /\ PlanCheckpoint(req)
  /\ kv' = SubSeq(kv, 1, ckptPos) /\ gdn' = ckptGdn /\ sliding' = ckptSliding
  /\ draft' = IF draft.injected > ckptPos THEN Rewind(draft, ckptPos) ELSE draft
  /\ atPrefillEnd' = TRUE
  /\ pc' = "prefill" /\ skip' = Len(checkpoint)
  /\ UNCHANGED <<req, off, next, generated, committed, prefixVars, checkpointVars, health, load>>

(* Reset (under TP it also recovers the group), then start over.  The      *)
(* rings are left as they are: what they hold is no row of the new         *)
(* sequence.                                                               *)
ResetModel ==
  /\ pc = "plan" /\ ~PlanFed(req) /\ ~PlanCheckpoint(req)
  /\ kv' = <<>> /\ gdn' = <<>> /\ atPrefillEnd' = FALSE
  /\ sliding' = EmptyRing /\ draft' = NewDraft
  /\ ckptPos' = -1 /\ ckptGdn' = <<>> /\ ckptSliding' = EmptyRing
  /\ health' = "kReady"
  /\ Clear
  /\ pc' = "prefill" /\ skip' = 0
  /\ UNCHANGED <<req, off, next, generated, committed, load>>

TailLen == Len(req.toks) - skip
TailTooShort == TailLen <= req.back
KeepCheckpoint == PromptCheckpoint /\ TailTooShort /\ hasCheckpoint
\* a picture encoded for this request that reaches past the first half
SplitsAnImage(back) ==
  \E j \in 1..Len(req.images) :
    LET k == req.images[j]
    IN k.offset >= skip /\ k.offset - skip + Span[k.hash] > TailLen - back
Back ==
  IF PromptCheckpoint /\ ~TailTooShort /\ ~SplitsAnImage(req.back) THEN req.back ELSE 0
CkptLen ==
  CASE ~PromptCheckpoint -> 0
    [] KeepCheckpoint    -> Len(checkpoint)
    [] OTHER             -> Len(req.toks) - Back

MaxTokens ==
  IF MaxReply > MaxCtx - Len(req.toks) THEN MaxCtx - Len(req.toks) ELSE MaxReply
\* the logits of the last prefill give the first token
ToDecode == pc' = (IF Speculates THEN "first" ELSE "decode") /\ next' \in Token

\* the second half of a prompt whose checkpoint is taken before its end
SplitAt == Len(req.toks) - Back
\* EncodeImages takes the pictures not fed yet, up to a size for GemmaModel
Encodes ==
  Gemma => \A j \in 1..Len(req.images) :
             req.images[j].offset >= skip => Span[req.images[j].hash] <= MaxBlock

Prefill ==
  /\ pc = "prefill"
  /\ Encodes
  /\ FeedPrompt(skip, SplitAt)
  /\ IF skip + NextEnd(skip, SplitAt) < SplitAt
       THEN UNCHANGED <<pc, next>>
       ELSE IF PromptCheckpoint /\ ~KeepCheckpoint
              THEN pc' = "save" /\ UNCHANGED next
              ELSE ToDecode
  /\ UNCHANGED <<req, skip, generated, committed, prefixVars, checkpointVars, health, load>>

SaveCheckpoint ==
  /\ pc = "save"
  /\ ckptPos' = Len(kv) /\ ckptGdn' = gdn /\ ckptSliding' = sliding
  /\ IF Back > 0 THEN pc' = "tail" /\ UNCHANGED next ELSE ToDecode
  /\ UNCHANGED <<req, skip, off, generated, committed, prefixVars, kv, gdn, sliding, draft, atPrefillEnd, health, load>>

PrefillTail ==
  /\ pc = "tail"
  /\ FeedPrompt(SplitAt, Len(req.toks))
  /\ IF SplitAt + NextEnd(SplitAt, Len(req.toks)) < Len(req.toks)
       THEN UNCHANGED <<pc, next>>
       ELSE ToDecode
  /\ UNCHANGED <<req, skip, generated, committed, prefixVars, checkpointVars, health, load>>

-----------------------------------------------------------------------------
(* The decode loops.  A cancelled client, an end-of-sequence token or the  *)
(* token budget end a loop before a step, a matched stop string after it.  *)

StopDecode ==
  /\ pc = "decode"
  /\ pc' = "finish"
  /\ UNCHANGED <<req, skip, off, next, generated, committed, prefixVars, modelVars>>

(* The plain loops (greedy, sampled, repetition penalty): the token is fed *)
(* also when the text it completes matched a stop string.                  *)
DecodeStep ==
  /\ pc = "decode" /\ ~Speculates
  /\ Len(generated) < MaxTokens /\ next # Eos
  /\ generated' = Append(generated, next)
  /\ Feed(Plain(<<next>>), Causal(1)) /\ atPrefillEnd' = FALSE
  /\ committed' = Append(committed, next)
  /\ next' \in Token
  /\ pc' \in {"decode", "finish"}
  /\ UNCHANGED <<req, skip, off, prefixVars, checkpointVars, health, load>>

\* the speculative loops show the first token before any round
FirstToken ==
  /\ pc = "first"
  /\ IF next = Eos
       THEN pc' = "finish" /\ UNCHANGED generated
       ELSE pc' \in {"decode", "finish"} /\ generated' = Append(generated, next)
  /\ UNCHANGED <<req, skip, off, next, committed, prefixVars, modelVars>>

AllButLast(s) == SubSeq(s, 1, Len(s) - 1)
Rounds == UNION {[1..n -> Token] : n \in 1..DraftK + 1}

(* ProcessMtpRound: all but the round's last token is committed, whatever  *)
(* is shown; what is shown stops before an end-of-sequence token and at    *)
(* the budget.                                                             *)
RoundCommitted(round) == AllButLast(round)
RoundDisplayed(round, remaining) ==
  LET stops == {i \in 1..Len(round) : round[i] = Eos \/ i > remaining}
      Before(i) == \A j \in stops : i < j
  IN SubSeq(round, 1, Cardinality({i \in 1..Len(round) : Before(i)}))

(* One round: DecodeStepMtp* / DecodeStepDflash* feed the pending token    *)
(* and the accepted drafts, and return those with the model's own token    *)
(* after them.  The display loop may end early on a stop string.           *)
\* mutant: the next round starts from the round's first token
DecodeRoundStale(round, rejected, shown) ==
  LET displayed == RoundDisplayed(round, MaxTokens - Len(generated))
  IN
  /\ pc = "decode" /\ Speculates
  /\ Len(generated) < MaxTokens
  /\ FeedRound(Plain(<<next>> \o AllButLast(round)), rejected) /\ atPrefillEnd' = FALSE
  /\ committed' = committed \o <<next>> \o RoundCommitted(round)
  /\ shown = Len(displayed)
  /\ generated' = generated \o displayed
  /\ next' = round[1]
  /\ pc' \in {"decode", "finish"}
  /\ UNCHANGED <<req, skip, off, prefixVars, checkpointVars, health, load>>
DecodeRound(round, rejected, shown) ==
  LET displayed == RoundDisplayed(round, MaxTokens - Len(generated))
      stopHit == shown < Len(displayed)
  IN
  /\ pc = "decode" /\ Speculates
  /\ Len(generated) < MaxTokens
  /\ FeedRound(Plain(<<next>> \o AllButLast(round)), rejected) /\ atPrefillEnd' = FALSE
  /\ committed' = committed \o <<next>> \o RoundCommitted(round)
  /\ shown \in 0..Len(displayed) /\ (stopHit => shown > 0)
  /\ generated' = generated \o SubSeq(displayed, 1, shown)
  /\ next' = IF shown > 0 THEN displayed[shown] ELSE next
  /\ IF stopHit \/ Len(displayed) < Len(round)
       THEN pc' = "finish"
       ELSE pc' \in {"decode", "finish"}
  /\ UNCHANGED <<req, skip, off, prefixVars, checkpointVars, health, load>>

\* RunRequest returns and its locals are gone
EndRequest ==
  /\ pc' = "idle" /\ req' = NoRequest /\ skip' = 0 /\ off' = 0 /\ next' = Eos
  /\ generated' = <<>> /\ committed' = <<>>

Finish ==
  /\ pc = "finish"
  /\ Commit(req.toks, committed, req.images, CkptLen)
  /\ EndRequest
  /\ UNCHANGED modelVars

-----------------------------------------------------------------------------
(* The catch of RunRequest.  A failure on the host (a picture that does    *)
(* not encode, a sink that throws, before or after Commit) leaves the      *)
(* model as it is.                                                         *)
FailHost ==
  /\ pc # "idle"
  /\ Invalidate
  /\ EndRequest
  /\ UNCHANGED modelVars

(* A model call that throws leaves some layers ahead of the others; a      *)
(* SaveCheckpoint that throws has overwritten some of the saved state and  *)
(* not the saved position.  Under TP the group needs recovery.             *)
FailModel ==
  /\ pc \in {"plan", "prefill", "save", "tail", "decode"}
  /\ pc = "plan" => ~PlanFed(req)
  /\ IF pc = "save"
       THEN /\ ckptGdn' = <<Junk>> /\ ckptSliding' = EmptyRing
            /\ UNCHANGED <<kv, gdn, sliding, draft>>
       ELSE /\ kv' = (IF pc = "plan" THEN kv ELSE Append(kv, Junk))
            /\ gdn' = <<Junk>> /\ sliding' = EmptyRing
            /\ draft' = [draft EXCEPT !.store = EmptyStore(DraftSlots)]
            /\ UNCHANGED <<ckptGdn, ckptSliding>>
  /\ health' = "kNeedsRecovery"
  /\ Invalidate
  /\ EndRequest
  /\ UNCHANGED <<ckptPos, atPrefillEnd, load>>

Next ==
  \/ \E p \in Prompts : Submit(p)
  \/ ContinueFed \/ RestoreCheckpoint \/ ResetModel
  \/ Prefill \/ SaveCheckpoint \/ PrefillTail
  \/ StopDecode \/ DecodeStep \/ FirstToken
  \/ \E round \in Rounds : \E shown \in 0..DraftK + 1 :
       \E rejected \in 0..DraftK : DecodeRound(round, rejected, shown)
  \/ Finish \/ FailHost \/ FailModel

Spec == Init /\ [][Next]_vars

-----------------------------------------------------------------------------
(* Properties.                                                             *)

(* The types of the variables.                                             *)
TypeOK ==
  /\ pc \in Phases /\ req \in Request /\ skip \in Nat /\ off \in Nat /\ next \in Token
  /\ generated \in Seq(Token) /\ committed \in Seq(Token)
  /\ fed \in Seq(Token) /\ fedImages \in Seq(Key) /\ needsReset \in BOOLEAN
  /\ checkpoint \in Seq(Token) /\ hasCheckpoint \in BOOLEAN
  /\ kv \in History /\ gdn \in History
  /\ ckptPos \in Nat \cup {-1} /\ ckptGdn \in History
  /\ {sliding, ckptSliding} \subseteq Store(RingTokens)
  /\ draft \in [store : Store(DraftSlots), injected : Nat, validFrom : Nat]
  /\ atPrefillEnd \in BOOLEAN /\ load \in Loads /\ health \in {"kReady", "kNeedsRecovery"}

(* However a request began (continued, restored or reset) and whatever     *)
(* earlier requests did, the reply is computed on exactly the prompt the   *)
(* client sent, its pictures included, followed by exactly the tokens      *)
(* decoded so far: engine.cpp's Plan / Restore / Reset / Prefill.  Each of *)
(* GemmaModel's rows was computed on its own window, to the end of its     *)
(* picture, whatever wrapped, was rejected or restored in between          *)
(* (GemmaModel::RunChunk, VerifyWindow, RestoreCheckpoint).                *)
PromptIsExact ==
  pc \in {"first", "decode", "finish"} =>
    /\ kv = Content(req.toks, req.images) \o Plain(committed)
    /\ Gemma \/ gdn = kv

(* Between two requests PrefixState speaks the truth: unless it asks for a *)
(* reset, the model holds what fed_ and fed_images_ say, the model's       *)
(* checkpoint is the history that checkpoint_ says, and the drafter, also  *)
(* after a rewind, reads only rows of that history                         *)
(* (DflashDraft::Rewind).                                                  *)
ClaimsAreTrue ==
  pc = "idle" /\ ~needsReset =>
    /\ kv = Content(fed, fedImages)
    /\ Gemma \/ gdn = kv
    /\ load.drafter = "dflash" => DraftHolds(draft, kv)
    /\ hasCheckpoint =>
         /\ ckptPos = Len(checkpoint)
         /\ SubSeq(kv, 1, ckptPos) = Content(checkpoint, fedImages)
         /\ IF Gemma
              THEN Sees(ckptSliding, ckptPos - 1, -1, SubSeq(kv, 1, ckptPos))
              ELSE ckptGdn = SubSeq(kv, 1, ckptPos)

(* The client is shown what the model was fed: the two differ at most by   *)
(* the pending token and by drafts committed after the display stopped     *)
(* (ProcessMtpRound and the loops around it).                              *)
ReplyIsFed ==
  /\ Len(generated) <= Len(committed) + 1
  /\ \A i \in 1..Len(generated) : i <= Len(committed) => generated[i] = committed[i]

(* No request calls a group that an earlier request left in                *)
(* kNeedsRecovery, except for the Reset that recovers it: a failure costs  *)
(* one request, not the next one too.                                      *)
NoInheritedFailure ==
  health = "kNeedsRecovery" =>
    \/ pc = "idle"
    \/ pc = "plan" /\ ~PlanFed(req) /\ ~PlanCheckpoint(req)

-----------------------------------------------------------------------------
(* The strengthening that makes the four of them inductive.                *)

\* the sequence state is that of a model that consumed h and nothing else
SequenceIs(h) ==
  /\ kv = h
  /\ IF Gemma THEN RingHolds(sliding, h) ELSE gdn = h
  /\ load.drafter = "dflash" => DraftKeeps(draft, h)

\* the saved state is that of a model that consumed the first n rows of h
CheckpointIs(n, h) ==
  /\ ckptPos = n /\ n \in 1..Len(h)
  /\ IF Gemma THEN RingHolds(ckptSliding, SubSeq(h, 1, n)) ELSE ckptGdn = SubSeq(h, 1, n)

Prompt == Content(req.toks, req.images)

(* What the model consumed of the running request.                         *)
Consumed ==
  CASE pc = "prefill" -> SubSeq(Prompt, 1, skip + off)
    [] pc = "save"    -> SubSeq(Prompt, 1, SplitAt)
    [] pc = "tail"    -> SubSeq(Prompt, 1, SplitAt + off)
    [] OTHER          -> Prompt \o Plain(committed)

InFlight == pc \notin {"idle", "plan"}

(* RunRequest's locals: the call it is in has tokens left, and it was not  *)
(* cut inside a picture.                                                   *)
LocalsOK ==
  /\ pc = "idle" => req = NoRequest
  /\ pc # "idle" => req \in Prompts
  /\ pc \in {"idle", "plan"} => skip = 0
  /\ pc \notin {"prefill", "tail"} => off = 0
  /\ InFlight => skip < Len(req.toks)
  /\ pc = "prefill" =>
       /\ skip + off < SplitAt
       /\ Gemma => \A b \in ImageBlocks(skip, SplitAt) : off <= b[1] \/ b[2] <= off
  /\ pc = "save" => PromptCheckpoint /\ ~KeepCheckpoint
  /\ pc = "first" => Speculates
  /\ pc = "tail" => Back > 0 /\ off < Back

(* PrefixState keeps a checkpoint of the tokens it says were fed.          *)
PrefixOK ==
  hasCheckpoint /\ ~needsReset =>
    /\ Len(checkpoint) <= Len(fed)
    /\ checkpoint = SubSeq(fed, 1, Len(checkpoint))

(* The model's state is the request's, or the one PrefixState speaks of.   *)
SequenceOK ==
  /\ InFlight => SequenceIs(Consumed)
  /\ ~InFlight /\ ~needsReset => SequenceIs(Content(fed, fedImages))

(* So is the saved state; the one taken in a request is Commit's to claim. *)
CheckpointOK ==
  /\ ~InFlight /\ ~needsReset /\ hasCheckpoint =>
       CheckpointIs(Len(checkpoint), Content(fed, fedImages))
  /\ pc = "prefill" /\ hasCheckpoint => CheckpointIs(Len(checkpoint), Prompt)
  /\ InFlight /\ pc \notin {"prefill", "save"} /\ PromptCheckpoint =>
       CheckpointIs(CkptLen, Prompt)

(* ReplyIsFed, with the pending token of the speculative loops.            *)
ReplyOK ==
  CASE pc = "decode" -> generated = committed \o (IF Speculates THEN <<next>> ELSE <<>>)
    [] pc = "finish" -> ReplyIsFed
    [] OTHER         -> generated = <<>> /\ committed = <<>>

(* A group in need of recovery is one PrefixState will reset.              *)
FailureOK == health = "kNeedsRecovery" => ~InFlight /\ needsReset

IInv ==
  /\ TypeOK /\ LocalsOK /\ PrefixOK /\ SequenceOK /\ CheckpointOK
  /\ ReplyOK /\ FailureOK
=============================================================================
