---------------------------- MODULE HybridModel ----------------------------
(***************************************************************************)
(* The hybrid serving mode: long prompts run as a two-stage pipeline, all  *)
(* else on the tensor-parallel shards (TpModel with hy_ set:               *)
(* model/tp_model_hybrid.cpp, model/hybrid_sync.h, model/hybrid_dispatch.h,*)
(* model/dflash_tail_plan.h and the hand-over parts of                     *)
(* model/hybrid_model.cpp, model/reshard_plan.h, model/pp_stage_real.cpp). *)
(*                                                                         *)
(* The two shards are taken as one holder ("the TP shards", whose          *)
(* agreement TpModel and TpMailbox are about) of two parts, the layers of  *)
(* stage A and those of stage B; each stage holds a mirror of its part.    *)
(* One call of the facade is one step here; HybridCall opens up the two    *)
(* threads, rings and gate of a pipelined call.                            *)
(*                                                                         *)
(* Contents are histories. Every feeding call feeds its own number as its  *)
(* tokens, so the KV row of position r is right iff it equals the first    *)
(* r + 1 entries of the history, a GDN state and an MTP seed iff they      *)
(* equal the history, and the MTP row of position r, which also reads the  *)
(* next token, iff it equals its first r + 2. Junk is any other content,   *)
(* so also the hidden state the MTP head chains to itself while it drafts. *)
(*                                                                         *)
(* An instance is loaded with one drafter, MTP or DFlash (Model::Load      *)
(* refuses both). One with neither behaves as a DFlash instance whose      *)
(* injection is off.                                                       *)
(***************************************************************************)
EXTENDS Integers, Sequences, FiniteSets, FiniteSetsExt

CONSTANTS
  MaxPos,        \* positions of the context
  BlockSize,     \* KV rows per block
  MinRows,       \* --pp-min-rows
  StageCtx,      \* S, the stages' KV capacity
  GatherRows,    \* stale rows the warm-gather budget pays for
  Window, Slice, \* the drafter's ring and the injection slice
  DraftK,        \* most tokens a speculative round drafts
  MaxCalls       \* bound: calls that feed, restore or toggle

ASSUME HybridAssumption ==
  /\ {BlockSize, MinRows, Window, Slice} \subseteq Nat \ {0}
  /\ {MaxPos, StageCtx, GatherRows, DraftK, MaxCalls} \subseteq Nat
  /\ MaxPos % BlockSize = 0
  /\ StageCtx <= MaxPos

VARIABLES
  drafter,  \* the drafter the instance was loaded with
  hist,     \* what was fed and committed: the sequence the caller believes in
  shards,   \* the TP shards: per part its KV rows and live GDN state, MTP rows, MTP seed
  drafted,  \* ghost: the MTP rows whose next token was an accepted draft
  spec,     \* a speculative round left the live GDN state outside window 0
  atEnd,    \* Model::at_prefill_end_
  ckpt,     \* the checkpoint, or NoCkpt
  stage,    \* the stages, with stage B's MTP rows and seed
  tracker,  \* TpMasterTracker
  draft,    \* the DFlash drafters' store [ValidFrom, InjectedCount)
  alone,    \* ghost: that store had every prefill been a TP prefill
  inject,   \* dflash_injection_
  state,    \* TpModel::State
  refused,  \* checks of the code that fired with no device error
  calls     \* feeding calls so far
vars == <<drafter, hist, shards, drafted, spec, atEnd, ckpt, stage, tracker, draft, alone, inject,
          state, refused, calls>>

Parts == {"A", "B"}
Rows == 0..MaxPos - 1
Junk == <<0>>
NoCkpt == [pos |-> -1]
pos == Len(hist)     \* cached_position_
Mtp == drafter = "mtp"
Injecting == drafter = "dflash" /\ inject

-----------------------------------------------------------------------------
(* Block ranges and the tracker (hybrid_sync.h). *)

BlocksOfRows(row0, row1) ==
  IF row1 > row0 THEN row0 \div BlockSize..(row1 - 1) \div BlockSize ELSE {}

\* Mutant: the boundary row p0 - 1 is forgotten.
MtpFirstBlockOfP0(p0) == p0 \div BlockSize
MtpFirstBlock(p0) == IF p0 > 0 THEN (p0 - 1) \div BlockSize ELSE 0

KvScatterBlocks(p0, end) == BlocksOfRows(p0, end)
MtpScatterBlocks(p0, end) == MtpFirstBlock(p0)..(end - 1) \div BlockSize

FreshTracker == [kv |-> [s \in Parts |-> 0], gdn |-> [s \in Parts |-> 0], seed |-> TRUE]

(* TpMasterTracker::PlanSync: what the stages need before a call at p0. *)
PlanSync(p0) ==
  [gdn  |-> {s \in Parts : tracker.gdn[s] # p0},
   row0 |-> [s \in Parts |-> Min({tracker.kv[s], p0})],
   mtp  |-> IF Mtp /\ p0 > 0 THEN {MtpFirstBlock(p0)} ELSE {}]

AfterPipelined(end) == [kv |-> [s \in Parts |-> end], gdn |-> [s \in Parts |-> end], seed |-> TRUE]

\* Mutant: rows the shards rewrite stay trusted.
TpOnlyKeepsRows(from) ==
  [tracker EXCEPT !.gdn = [s \in Parts |-> -1], !.seed = FALSE]
TpOnly(from) ==
  [kv |-> [s \in Parts |-> Min({tracker.kv[s], from})], gdn |-> [s \in Parts |-> -1], seed |-> FALSE]

TpRestored == [tracker EXCEPT !.gdn = [s \in Parts |-> -1], !.seed = FALSE]

-----------------------------------------------------------------------------
(* The drafter's store and the tail of a pipelined call                    *)
(* (dflash_draft.cpp, dflash_tail_plan.h).                                 *)

(* DflashDraft::InjectFeatures over rows [start, end): a gap below start   *)
(* makes everything before it unreadable.                                  *)
InjectFeatures(d, start, end) == [lo |-> IF start > d.hi THEN start ELSE d.lo, hi |-> end]

(* DflashDraft::Rewind, called by RestoreCheckpoint only when ahead. *)
\* Mutant: slots overwritten by the abandoned rows stay readable.
RewindKeepsFrom(d, n) == IF d.hi > n THEN [lo |-> Min({n, d.lo}), hi |-> n] ELSE d
Rewind(d, n) == IF d.hi > n THEN [lo |-> Min({n, Max({d.lo, d.hi - Window})}), hi |-> n] ELSE d

DflashTailStart(p0, end) ==
  IF end - Window <= p0 THEN p0 ELSE p0 + ((end - Window - p0) \div Slice) * Slice

(* TRUE when a drafter with this frontier takes the tail of `rows' rows    *)
(* from start, the Model being at position `at'.                           *)
CheckTailInject(injected, at, start, rows) ==
  /\ rows > 0
  /\ start + rows = at
  /\ start >= injected
  /\ start > injected => rows >= Window

(* What the window of a draft round reads of a store. *)
Visible(d) == Max({d.lo, d.hi - Window})..d.hi - 1

-----------------------------------------------------------------------------
(* What a forward writes (Model::RunChunk, MtpHead, Model::VerifyWindow).  *)

(* A part computes right rows from its own right state and right inputs. *)
Sound(part, h) == part.gdn = h /\ \A r \in 0..Len(h) - 1 : part.kv[r] = SubSeq(h, 1, r + 1)

Written(part, h, new, ok) ==
  [kv  |-> [r \in Rows |-> IF r \notin Len(h)..Len(new) - 1 THEN part.kv[r]
                           ELSE IF ok THEN SubSeq(new, 1, r + 1) ELSE Junk],
   gdn |-> IF ok THEN new ELSE Junk]

(* The MTP rows RunChunk primes in a call from h to new: the boundary row  *)
(* from the seed, the others from the call's own hidden rows.              *)
Primed(mtp, seed, h, new, ok) ==
  [r \in Rows |-> IF ~Mtp \/ r \notin Max({0, Len(h) - 1})..Len(new) - 2 THEN mtp[r]
                  ELSE IF ok /\ (r = Len(h) - 1 => seed = h) THEN SubSeq(new, 1, r + 2)
                  ELSE Junk]

(* The seed after a call to new: the hidden row of its last position.      *)
Seeded(seed, new, ok) == IF ~Mtp THEN seed ELSE IF ok THEN new ELSE Junk

CopyBlocks(dst, src, blocks) == [r \in Rows |-> IF r \div BlockSize \in blocks THEN src[r] ELSE dst[r]]

(* One holder running a call on its own: both parts must be right. *)
Forward(m, h, new) ==
  LET ok == \A s \in Parts : Sound(m.part[s], h)
  IN  [part |-> [s \in Parts |-> Written(m.part[s], h, new, ok)],
       mtp  |-> Primed(m.mtp, m.seed, h, new, ok),
       seed |-> Seeded(m.seed, new, ok)]

(* The MTP rows MtpHead::Draft writes for k drafts after h, of which new   *)
(* keeps some: the row of the last position from the seed and the next     *)
(* token, as priming would (also when k = 0), the later ones from the      *)
(* head's own hidden state. Nothing primes the rows of accepted drafts     *)
(* again, and when all are accepted that of the last one stays as it was.  *)
Drafted(mtp, seed, h, k, new) ==
  [r \in Rows |-> IF r \notin Len(h) - 1..Len(h) + Max({1, k}) - 2 THEN mtp[r]
                  ELSE IF r = Len(h) - 1 /\ seed = h THEN SubSeq(new, 1, r + 2)
                  ELSE Junk]

(* VerifyWindow and CommitVerifiedWindow on a part: the rows of all k + 1  *)
(* candidates are written, those of rejected drafts are beyond new.        *)
Verified(part, h, k, new, ok) ==
  LET kept == Written(part, h, new, ok)
  IN  [kept EXCEPT !.kv = [r \in Rows |-> IF r \in Len(new)..Len(h) + k THEN Junk ELSE kept.kv[r]]]

(* Contents nobody can vouch for: after a failed command. *)
Scrambled ==
  [part |-> [s \in Parts |-> [kv |-> [r \in Rows |-> Junk], gdn |-> Junk]],
   mtp |-> [r \in Rows |-> Junk], seed |-> Junk]

(* Model::Reset on a holder: the GDN state is zeroed and the seed dropped, *)
(* the KV bytes stay.                                                      *)
Zeroed(m) == [m EXCEPT !.part = [s \in Parts |-> [m.part[s] EXCEPT !.gdn = <<>>]], !.seed = <<>>]

Feed(n) == hist \o [i \in 1..n |-> calls + 1]

-----------------------------------------------------------------------------
Init ==
  /\ drafter \in {"mtp", "dflash"}
  /\ hist = <<>> /\ drafted = {}
  /\ shards = Zeroed(Scrambled) /\ stage = Zeroed(Scrambled)
  /\ spec = FALSE /\ atEnd = FALSE /\ ckpt = NoCkpt
  /\ tracker = FreshTracker
  /\ draft = [lo |-> 0, hi |-> 0] /\ alone = draft
  /\ inject = TRUE /\ state = "ready" /\ refused = {} /\ calls = 0

Ready == state = "ready" /\ calls < MaxCalls

(* TpModel::Fail / Diverged: nothing in the shards is trusted any more. *)
Failed ==
  /\ state' = "needs_recovery"
  /\ shards' = Scrambled /\ stage' = Scrambled /\ drafted' = {}
  /\ hist' = <<>> /\ spec' = FALSE /\ atEnd' = FALSE /\ ckpt' = NoCkpt

-----------------------------------------------------------------------------
(* hybrid::Decide, in its order, with the stale rows of PlanSync. *)
Decide(n, problem) ==
  /\ n >= MinRows
  /\ pos + n <= StageCtx
  /\ \A s \in Parts : pos - PlanSync(pos).row0[s] <= GatherRows
  /\ ~problem

(* HybridReadSync's ReshardCollapse: the live GDN state back to window 0. *)
ReshardCollapse(sp) == FALSE

(* PlanTail: the tail of a call of n rows, and whether the frontier read   *)
(* before the dispatch would refuse it.                                    *)
PlanTail(n) ==
  LET start == DflashTailStart(pos, pos + n)
      rows == pos + n - start
  IN  [use |-> Injecting, start |-> start, rows |-> rows,
       problem |-> Injecting /\ ~CheckTailInject(draft.hi, pos + n, start, rows)]

(* Model::TpInjectDflashTail at the end of the call, when the Model is at  *)
(* its new position and the shards are rewritten.                          *)
TailRefused(tail, at) == tail.use /\ ~CheckTailInject(draft.hi, at, tail.start, tail.rows)

(* The warm gather (GatherPlan): stale rows and GDN states into the        *)
(* stages, the one MTP block of row p0 - 1 into stage B.                   *)
Gathered(plan, p0) ==
  [part |-> [s \in Parts |->
               [kv  |-> CopyBlocks(stage.part[s].kv, shards.part[s].kv, BlocksOfRows(plan.row0[s], p0)),
                gdn |-> IF s \in plan.gdn THEN shards.part[s].gdn ELSE stage.part[s].gdn]],
   mtp  |-> CopyBlocks(stage.mtp, shards.mtp, plan.mtp),
   seed |-> shards.seed]                        \* StageSetSyncState(c.sync)

(* The pipelined stage prefill: stage B's rows are right only if stage A's *)
(* output was.                                                             *)
Pipelined(m, h, new) ==
  LET okA == Sound(m.part["A"], h)
      okB == okA /\ Sound(m.part["B"], h)
  IN  [part |-> [s \in Parts |-> Written(m.part[s], h, new, IF s = "A" THEN okA ELSE okB)],
       mtp  |-> Primed(m.mtp, m.seed, h, new, okB),
       seed |-> Seeded(m.seed, new, okB)]

(* The scatter (ScatterPlan) and TpAdoptPrefill: whole blocks, every GDN   *)
(* state and the primed MTP blocks back into the shards.                   *)
Scattered(m, p0, end) ==
  [part |-> [s \in Parts |->
               [kv  |-> CopyBlocks(shards.part[s].kv, m.part[s].kv, KvScatterBlocks(p0, end)),
                gdn |-> m.part[s].gdn]],
   mtp  |-> CopyBlocks(shards.mtp, m.mtp, IF Mtp THEN MtpScatterBlocks(p0, end) ELSE {}),
   seed |-> m.seed]

(* The checks of the call itself that do not depend on a device:           *)
(* Model::CheckGdnLiveInPlace before an export, Model::TpInjectDflashTail. *)
SelfChecks(tail, new, live) ==
  (IF live THEN {"live state not in place"} ELSE {})
    \cup (IF TailRefused(tail, Len(new)) THEN {"tail refused"} ELSE {})

(* HybridPrefillRun: plan, run both threads, book the result. *)
HybridPrefillRun(n, tail) ==
  LET new   == Feed(n)
      after == Pipelined(Gathered(PlanSync(pos), pos), hist, new)
  IN  /\ hist' = new
      /\ stage' = after
      /\ shards' = Scattered(after, pos, pos + n)
      /\ spec' = FALSE /\ atEnd' = TRUE
      /\ tracker' = AfterPipelined(pos + n)
      /\ draft' = IF tail.use THEN InjectFeatures(draft, tail.start, tail.start + tail.rows) ELSE draft
      /\ alone' = IF Injecting THEN InjectFeatures(alone, pos, pos + n) ELSE alone
      /\ UNCHANGED <<drafter, drafted, ckpt, inject, state, refused>>

(* What a command of the TP shards alone does to the rest, announced by    *)
(* NoteTpMoved(pos): the sequence is `new', and the drafters are given its *)
(* new rows or not.                                                        *)
TpMoved(new, feeds) ==
  /\ hist' = new
  /\ tracker' = TpOnly(pos)
  /\ draft' = IF feeds THEN InjectFeatures(draft, pos, Len(new)) ELSE draft
  /\ alone' = IF feeds THEN InjectFeatures(alone, pos, Len(new)) ELSE alone
  /\ UNCHANGED <<drafter, ckpt, stage, inject, state, refused>>

(* RunChunk on the shards, for n tokens. *)
TpForward(n) ==
  /\ shards' = Forward(shards, hist, Feed(n))
  /\ drafted' = drafted
  /\ TpMoved(Feed(n), Injecting)

(* TpModel::Prefill and PrefillMultimodal: TryHybridPrefill, which reads   *)
(* the ranks (HybridReadSync) and may still decline, else the TP prefill.  *)
Prefill(n) ==
  /\ Ready /\ pos + n <= MaxPos
  /\ calls' = calls + 1
  /\ \/ /\ Decide(n, PlanTail(n).problem)
        /\ LET why == SelfChecks(PlanTail(n), Feed(n), ReshardCollapse(spec))
           IN  IF why = {} THEN HybridPrefillRun(n, PlanTail(n))
               ELSE /\ refused' = refused \cup why
                    /\ Failed /\ UNCHANGED <<drafter, tracker, draft, alone, inject>>
     \/ /\ ~Decide(n, PlanTail(n).problem)
        /\ atEnd' = TRUE /\ spec' = FALSE
        /\ TpForward(n)

(* DecodeStep, DecodeStepGreedy, DecodeStepSampled: one row of RunChunk. *)
DecodeStep ==
  /\ Ready /\ pos > 0 /\ pos < MaxPos
  /\ calls' = calls + 1 /\ atEnd' = FALSE /\ spec' = FALSE
  /\ TpForward(1)

(* A speculative round verifies k drafts and keeps `kept' of the k + 1     *)
(* rows; with more than one, the live state is in a window slot.           *)
Round(k, kept) ==
  /\ Ready /\ pos > 0 /\ pos + k + 1 <= MaxPos
  /\ calls' = calls + 1 /\ atEnd' = FALSE /\ spec' = (kept > 1)

VerifiedParts(k, new) ==
  LET ok == \A s \in Parts : Sound(shards.part[s], hist)
  IN  [s \in Parts |-> Verified(shards.part[s], hist, k, new, ok)]

(* DecodeStepMtpGreedy, DecodeStepMtpSampled: the seed is taken from the   *)
(* last kept row.                                                          *)
MtpRound(k, kept) ==
  LET new == Feed(kept)
      ok  == \A s \in Parts : Sound(shards.part[s], hist)
  IN  /\ Mtp /\ Round(k, kept)
      /\ shards' = [part |-> VerifiedParts(k, new),
                    mtp  |-> Drafted(shards.mtp, shards.seed, hist, k, new),
                    seed |-> Seeded(shards.seed, new, ok)]
      /\ drafted' = drafted \cup (pos..pos + kept - 2)
      /\ TpMoved(new, FALSE)

(* DecodeStepDflashGreedy, DecodeStepDflashSampled: needs the drafters at  *)
(* the position and feeds them the kept rows; there is no MTP head.        *)
DflashRound(k, kept) ==
  /\ Injecting /\ draft.hi = pos
  /\ Round(k, kept)
  /\ shards' = [shards EXCEPT !.part = VerifiedParts(k, Feed(kept))]
  /\ drafted' = drafted
  /\ TpMoved(Feed(kept), TRUE)

(* A device error in any rank or stage thread of any command; the tracker  *)
(* may have been told beforehand.                                          *)
CallFails ==
  /\ Ready
  /\ calls' = calls + 1
  /\ Failed
  /\ tracker' \in {tracker, TpOnly(pos), TpRestored}
  /\ UNCHANGED <<drafter, draft, alone, inject, refused>>

SaveCheckpoint ==
  /\ state = "ready" /\ pos > 0 /\ atEnd
  /\ ckpt' = [pos |-> pos, hist |-> hist, gdn |-> [s \in Parts |-> shards.part[s].gdn], seed |-> shards.seed]
  /\ UNCHANGED <<drafter, hist, shards, drafted, spec, atEnd, stage, tracker, draft, alone, inject,
                 state, refused, calls>>

RestoreCheckpoint ==
  /\ Ready /\ ckpt # NoCkpt
  /\ calls' = calls + 1
  /\ tracker' = TpRestored
  /\ hist' = ckpt.hist /\ drafted' = drafted \cap (0..ckpt.pos - 2)
  /\ shards' = [shards EXCEPT !.part = [s \in Parts |-> [shards.part[s] EXCEPT !.gdn = ckpt.gdn[s]]],
                              !.seed = ckpt.seed]
  /\ spec' = FALSE /\ atEnd' = TRUE
  /\ draft' = Rewind(draft, ckpt.pos) /\ alone' = Rewind(alone, ckpt.pos)
  /\ UNCHANGED <<drafter, ckpt, stage, inject, state, refused>>

SetDflashInjectionEnabled ==
  /\ calls < MaxCalls
  /\ calls' = calls + 1
  /\ inject' = ~inject
  /\ UNCHANGED <<drafter, hist, shards, drafted, spec, atEnd, ckpt, stage, tracker, draft, alone,
                 state, refused>>

(* TpModel::Reset with HybridResetStages: ranks, stages, channel, tracker. *)
Reset ==
  /\ state \in {"ready", "needs_recovery"}
  /\ state' = "ready"
  /\ hist' = <<>> /\ drafted' = {} /\ shards' = Zeroed(shards) /\ stage' = Zeroed(stage)
  /\ spec' = FALSE /\ atEnd' = FALSE /\ ckpt' = NoCkpt
  /\ tracker' = FreshTracker
  /\ draft' = [lo |-> 0, hi |-> 0] /\ alone' = [lo |-> 0, hi |-> 0]
  /\ UNCHANGED <<drafter, inject, refused, calls>>

ResetFails ==
  /\ state \in {"ready", "needs_recovery"}
  /\ state' = IF state = "ready" THEN "needs_recovery" ELSE "fatal"
  /\ shards' = Scrambled /\ stage' = Scrambled /\ drafted' = {}
  /\ hist' = <<>> /\ spec' = FALSE /\ atEnd' = FALSE /\ ckpt' = NoCkpt
  /\ UNCHANGED <<drafter, tracker, draft, alone, inject, refused, calls>>

Next ==
  \/ \E n \in 1..MaxPos : Prefill(n)
  \/ DecodeStep
  \/ \E k \in 0..DraftK : \E kept \in 1..k + 1 : MtpRound(k, kept)
  \/ \E k \in 0..DraftK : \E kept \in 1..k + 1 : DflashRound(k, kept)
  \/ CallFails
  \/ SaveCheckpoint
  \/ RestoreCheckpoint
  \/ SetDflashInjectionEnabled
  \/ Reset
  \/ ResetFails

Spec == Init /\ [][Next]_vars

-----------------------------------------------------------------------------
(* The tracker's rows and positions, the drafter's frontier and the calls  *)
(* stay in range: 0 <= ValidFrom <= InjectedCount <= position.             *)
TypeOK ==
  /\ state \in {"ready", "needs_recovery", "fatal"}
  /\ {spec, atEnd, inject} \subseteq BOOLEAN
  /\ drafter \in {"mtp", "dflash"} /\ drafted \subseteq Rows
  /\ pos <= MaxPos /\ calls \in 0..MaxCalls
  /\ \A s \in Parts : tracker.kv[s] \in 0..StageCtx /\ tracker.gdn[s] \in -1..StageCtx
  /\ \A d \in {draft, alone} : 0 <= d.lo /\ d.lo <= d.hi /\ d.hi <= MaxPos
  /\ ckpt = NoCkpt \/ ckpt.pos = Len(ckpt.hist)

(* Whatever mix of pipelined prefills, TP prefills, decode steps,          *)
(* speculative rounds, restores and recoveries ran, the shards hold        *)
(* exactly what feeding the committed tokens to the shards alone would     *)
(* have left: KV rows and GDN state of both halves of the layers and, on   *)
(* an instance with the MTP head, its seed and its rows below the last     *)
(* position. Excepted are the MTP rows of accepted drafts (`drafted'),     *)
(* which the code leaves with the drafter's own content: what they hold    *)
(* moves the acceptance rate, no output. The other rows stay exact around  *)
(* them. (HybridPrefillRun's gather, stage prefill, scatter and adopt;     *)
(* hybrid_sync.h's "a stale mirror silently produces wrong tokens".)       *)
ShardsAreExact ==
  state = "ready" =>
    /\ \A s \in Parts : Sound(shards.part[s], hist)
    /\ Mtp => /\ shards.seed = hist
              /\ \A r \in (0..pos - 2) \ drafted : shards.mtp[r] = SubSeq(hist, 1, r + 2)

(* What TpMasterTracker vouches for is so: the stage's rows below          *)
(* kv_valid_to and the position equal the shards', a GDN position that is  *)
(* not -1 is the current one and the states agree, a synced seed of an MTP *)
(* instance is the shards' seed.                                           *)
MirrorsAreTrue ==
  state = "ready" =>
    /\ \A s \in Parts :
         /\ \A r \in 0..Min({tracker.kv[s], pos}) - 1 : stage.part[s].kv[r] = shards.part[s].kv[r]
         /\ tracker.gdn[s] # -1 => /\ tracker.gdn[s] = pos
                                   /\ stage.part[s].gdn = shards.part[s].gdn
    /\ Mtp /\ tracker.seed => stage.seed = shards.seed

(* The tail injection of pipelined calls is invisible to the drafters:     *)
(* the rows their window can read are those of a drafter fed by TP         *)
(* prefills alone, across gaps, toggles, rewinds and its own rounds. And   *)
(* no pipelined call is let through that must then fail its own checks, a  *)
(* drafter refusing the tail after the shards were rewritten or a live     *)
(* state outside window 0, with no device at fault.                        *)
DraftStoreIsFull ==
  /\ state = "ready" => Visible(draft) = Visible(alone)
  /\ refused = {}

-----------------------------------------------------------------------------
(* The inductive invariant behind ShardsAreExact, MirrorsAreTrue and       *)
(* DraftStoreIsFull (HybridModelProofs).                                   *)

Hist == Seq(Nat)
RowStore == [Rows -> Hist]
Holder == [part : [Parts -> [kv : RowStore, gdn : Hist]], mtp : RowStore, seed : Hist]
Stores == {d \in [lo : 0..MaxPos, hi : 0..MaxPos] : d.lo <= d.hi}
Checkpoints == [pos : Nat, hist : Hist, gdn : [Parts -> Hist], seed : Hist]

Shapes ==
  /\ state \in {"ready", "needs_recovery", "fatal"}
  /\ drafter \in {"mtp", "dflash"} /\ drafted \subseteq Rows
  /\ {spec, atEnd, inject} \subseteq BOOLEAN
  /\ hist \in Seq(Nat \ {0}) /\ pos <= MaxPos /\ calls \in 0..MaxCalls
  /\ shards \in Holder /\ stage \in Holder
  /\ tracker \in [kv : [Parts -> 0..StageCtx], gdn : [Parts -> -1..StageCtx], seed : BOOLEAN]
  /\ draft \in Stores /\ alone \in Stores
  /\ ckpt = NoCkpt \/ ckpt \in Checkpoints

(* Where the two drafters' windows begin, and that they are not ahead.     *)
Begin(d) == Max({d.lo, d.hi - Window})
Fronts ==
  state = "ready" => draft.hi = alone.hi /\ Begin(draft) = Begin(alone) /\ draft.hi <= pos

(* The checkpoint is a prefix of the conversation, the states to match.    *)
CkptIsTrue ==
  ckpt # NoCkpt =>
    /\ state = "ready" /\ ckpt.pos \in 0..pos
    /\ ckpt.hist = SubSeq(hist, 1, ckpt.pos) /\ (Mtp => ckpt.seed = ckpt.hist)
    /\ \A s \in Parts : ckpt.gdn[s] = ckpt.hist

IInv == Shapes /\ ShardsAreExact /\ MirrorsAreTrue /\ Fronts /\ CkptIsTrue /\ refused = {}

=============================================================================
