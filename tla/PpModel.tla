------------------------------ MODULE PpModel ------------------------------
(***************************************************************************)
(* The two-stage pipelined prefill: src/src/model/pp_model.cpp with its    *)
(* stage runners (pp_stage_runner.cpp), the ring between the stages        *)
(* (pp_channel.h), the mirror tracker (pp_sync.h) and the stage chunks     *)
(* (pp_stage_real.cpp).                                                    *)
(*                                                                         *)
(* Stage B, on the facade's thread, holds the whole model and is the       *)
(* truth.  Stage A, on a worker thread, computes layers [0, split) of a    *)
(* pipelined prefill and hands each chunk to B through a ring of slots;    *)
(* its GDN state follows in one bulk buffer.  Between calls A's state is a *)
(* mirror that B leaves behind; the tracker knows how much of it is good.  *)
(*                                                                         *)
(* Data.  What a row or a state holds is the history of tokens it was      *)
(* computed from.  A feeding call feeds tokens no other call feeds, so two *)
(* histories are equal only when they should be.  Bad is any content that  *)
(* is no history of the conversation: uninitialised rows, rejected drafts, *)
(* what a call or a conversation that is over left in a buffer or a row,   *)
(* the result of computing from state that does not fit together.          *)
(***************************************************************************)
EXTENDS Integers, Sequences, FiniteSets

CONSTANTS
  MaxPos,      \* bound: positions of the context
  BlockSize,   \* rows of a KV block
  Slots,       \* slots of the ring
  ChunkRows,   \* rows of a prefill chunk
  MinRows,     \* min_rows_: shorter prefills run on stage B alone
  SyncBlocks,  \* KV blocks the sync-back buffer holds
  MaxCalls,    \* bound: calls that feed tokens
  MaxFaults,   \* bound: HIP errors
  MaxSplit     \* bound: splits 1..MaxSplit; SetSplit moves upwards only

ASSUME PpAssumption ==
  /\ {MaxPos, BlockSize, Slots, ChunkRows, MinRows, MaxSplit} \subseteq Nat \ {0}
  /\ {SyncBlocks, MaxCalls, MaxFaults} \subseteq Nat
  /\ MaxPos % BlockSize = 0

VARIABLES
  state,      \* state_
  split,      \* [run: split_ and run_.split, a, b: the stages' pp_setup_.split,
              \*  to, old: of a SetSplit in progress]
  pc,         \* where the facade's thread is (stage B's steps included)
  tracker,    \* tracker_: [kv: kv_valid_to_, gdn: gdn_pos_]
  b,          \* the decode Model: [pos, kv, gdn, win, hi, end]
  ckpt,       \* B's prompt checkpoint: [pos, gdn, hi], pos -1 when none
  berr,       \* StageBResult::error
  early,      \* b_state_.early_import
  aux,        \* B's side stream: "copying" while a GDN import is in flight
  a,          \* stage A's Model: [pos, kv, gdn]
  apc,        \* where stage A's worker is; "idle" is Idle()
  aerr,       \* the worker's err_
  call,       \* StageCall: [id, p0, rows, gdn, row0]
  gdnSync, kvSync, hand,                       \* the pinned buffers
  acquired, published, taken, released, bulk, poisoned, slots, \* the channel
  truth,      \* ghost: the tokens the caller fed, what one model would hold
  dirty,      \* ghost: a call on B alone failed, so B holds no history
  reported,   \* ghost: the error of the last call, "none" if it had none
  calls, faults

facadeVars == <<state, split, pc, tracker, call, truth, dirty, reported, calls>>
bVars == <<b, ckpt, berr, early, aux>>
aVars == <<a, apc, aerr>>
bufVars == <<gdnSync, kvSync, hand>>
chVars == <<acquired, published, taken, released, bulk, poisoned, slots>>
vars == <<facadeVars, bVars, aVars, bufVars, chVars, faults>>

Rows == 1..MaxPos
Bad == <<0>>
Fresh == [r \in Rows |-> Bad]
FreshSlots == [s \in 0..(Slots - 1) |->
                 [pos |-> 0, rows |-> 0, last |-> FALSE, carry |-> Bad, kv |-> Fresh]]
NoCall == [id |-> 0, p0 |-> 0, rows |-> 0, gdn |-> FALSE, row0 |-> 0]

(* b.gdn is window 0 of B's GDN state below the split, b.win the window    *)
(* slot a speculative round left the live state in (<<>> when window 0 is  *)
(* live); b.hi is the state of the layers from the split on.               *)
FreshB == [pos |-> 0, kv |-> Fresh, gdn |-> <<>>, win |-> <<>>, hi |-> <<>>, end |-> FALSE]
NoCkpt == [pos |-> -1, gdn |-> <<>>, hi |-> <<>>]

Init ==
  /\ state = "kReady" /\ pc = "idle" /\ split = [run |-> 1, a |-> 1, b |-> 1, to |-> 1, old |-> 1]
  /\ tracker = [kv |-> 0, gdn |-> 0]
  /\ b = FreshB /\ ckpt = NoCkpt
  /\ berr = "none" /\ early = FALSE /\ aux = "idle"
  /\ a = [pos |-> 0, kv |-> Fresh, gdn |-> <<>>] /\ apc = "idle" /\ aerr = "none"
  /\ call = NoCall
  /\ gdnSync = Bad /\ kvSync = Fresh /\ hand = Bad
  /\ acquired = 0 /\ published = 0 /\ taken = 0 /\ released = 0
  /\ bulk = -1 /\ poisoned = FALSE
  /\ slots = FreshSlots
  /\ truth = <<>> /\ dirty = FALSE /\ reported = "none" /\ calls = 0 /\ faults = 0

-----------------------------------------------------------------------------
(* Histories.                                                              *)

Tokens(id, n) == [i \in 1..n |-> id]

(* Computing rows from a recurrent state and the KV rows below it: the     *)
(* result is a history only if both are the same one.                      *)
Coherent(kv, gdn, pos) ==
  /\ gdn # Bad /\ Len(gdn) = pos
  /\ \A r \in 1..pos : kv[r] = SubSeq(gdn, 1, r)
Extend(m, gdn, toks) == IF Coherent(m.kv, gdn, m.pos) THEN gdn \o toks ELSE Bad
WriteRows(kv, pos, n, hist) ==
  [r \in Rows |-> IF r > pos /\ r <= pos + n
                    THEN IF hist = Bad THEN Bad ELSE SubSeq(hist, 1, r) ELSE kv[r]]

(* KvBlockSpan: the rows of the whole blocks that [pos, pos + n) touches.  *)
Block0(pos) == pos \div BlockSize
Block1(pos, n) == (pos + n + BlockSize - 1) \div BlockSize
BlockRows(pos, n) == (Block0(pos) * BlockSize + 1)..(Block1(pos, n) * BlockSize)
Overlay(dst, src, pos, n) == [r \in Rows |-> IF r \in BlockRows(pos, n) THEN src[r] ELSE dst[r]]

LiveGdn == IF b.win = <<>> THEN b.gdn ELSE b.win

Min2(x, y) == IF x <= y THEN x ELSE y

-----------------------------------------------------------------------------
(* MirrorTracker.                                                          *)

BRestored == [tracker EXCEPT !.gdn = -1]

\* Mutant: rows the decode model rewrites stay trusted.
BOnlyKeepsRows == [tracker EXCEPT !.gdn = -1]
BOnly == [kv |-> Min2(tracker.kv, b.pos), gdn |-> -1]

AfterPipelined(pos) == [kv |-> pos, gdn |-> pos]

PlanGdn == tracker.gdn # b.pos
PlanRow0 == Min2(tracker.kv, b.pos)
SyncRows == b.pos - PlanRow0
KvSyncFits ==
  SyncRows > 0 => Block1(PlanRow0, SyncRows) - Block0(PlanRow0) <= SyncBlocks

-----------------------------------------------------------------------------
(* The channel.                                                            *)

Quiescent == acquired = published /\ published = taken /\ taken = released
FreeReady == acquired = published /\ acquired - released < Slots
FullReady == published > taken
SlotOf(n) == n % Slots

-----------------------------------------------------------------------------
(* Calls on stage B alone.                                                 *)

Idle == pc = "idle" /\ state = "kReady"

(* The Model's Prefill and decode: feeds n tokens at b.pos.                *)
Fed(n) == LET h == Extend(b, LiveGdn, Tokens(calls + 1, n)) IN
  [pos |-> b.pos + n, kv |-> WriteRows(b.kv, b.pos, n, h), gdn |-> h, win |-> <<>>,
   hi |-> IF b.hi = Bad THEN Bad ELSE b.hi \o Tokens(calls + 1, n), end |-> TRUE]

(* An exception inside B's Model: anything from b.pos on may be written.   *)
Broken == [b EXCEPT !.kv = [r \in Rows |-> IF r > b.pos THEN Bad ELSE b.kv[r]],
                    !.gdn = Bad, !.win = <<>>, !.hi = Bad, !.end = FALSE]

BAlone(after, n) ==
  /\ calls < MaxCalls /\ b.pos + n <= MaxPos
  /\ tracker' = BOnly
  /\ calls' = calls + 1
  /\ \/ /\ b' = after
        /\ truth' = truth \o Tokens(calls + 1, n)
        /\ reported' = "none"
        /\ UNCHANGED <<dirty, faults>>
     \/ /\ faults < MaxFaults /\ faults' = faults + 1
        /\ b' = Broken
        /\ dirty' = TRUE /\ reported' = "error"
        /\ UNCHANGED truth
  /\ UNCHANGED <<state, split, pc, call, ckpt, berr, early, aux, aVars, bufVars, chVars>>

(* Prefill shorter than min_rows_, or with more KV to sync back than the   *)
(* buffer holds.                                                           *)
PrefillB(n) ==
  /\ Idle
  /\ n < MinRows \/ ~KvSyncFits
  /\ BAlone(Fed(n), n)

(* VerifyWindow writes a row for every candidate of the window; those of   *)
(* rejected drafts stay behind.                                            *)
RejectedRows(m, window) ==
  [r \in Rows |-> IF r > m.pos /\ r <= b.pos + window THEN Bad ELSE m.kv[r]]

(* CommitVerifiedWindow: past one token, the live GDN state is in a window *)
(* slot and window 0 is behind it.                                         *)
CommitVerifiedWindow(m, n) ==
  IF n = 1 \/ m.gdn = Bad THEN m
  ELSE [m EXCEPT !.gdn = SubSeq(m.gdn, 1, b.pos + 1), !.win = m.gdn]

(* A round that commits n tokens of a window; a decode step is a window of *)
(* one.                                                                    *)
Round(n, window) ==
  CommitVerifiedWindow([Fed(n) EXCEPT !.kv = RejectedRows(Fed(n), window), !.end = FALSE], n)

DecodeStep(n, window) ==
  /\ Idle
  /\ n <= window /\ b.pos + window <= MaxPos
  /\ BAlone(Round(n, window), n)

SaveCheckpoint ==
  /\ Idle
  /\ b.pos > 0 /\ b.end
  /\ ckpt' = [pos |-> b.pos, gdn |-> b.gdn, hi |-> b.hi]
  /\ UNCHANGED <<facadeVars, b, berr, early, aux, aVars, bufVars, chVars, faults>>

(* The rows above the restored position keep what they hold.  Without a    *)
(* checkpoint the Model throws, after the tracker moved.                   *)
RestoreCheckpoint ==
  /\ Idle
  /\ tracker' = BRestored
  /\ IF ckpt.pos < 0 THEN UNCHANGED <<b, truth, dirty>>
     ELSE /\ b' = [b EXCEPT !.pos = ckpt.pos, !.gdn = ckpt.gdn, !.win = <<>>,
                            !.hi = ckpt.hi, !.end = TRUE]
          /\ truth' = SubSeq(truth, 1, ckpt.pos)
          /\ dirty' = (ckpt.hi = Bad)
  /\ UNCHANGED <<state, split, pc, call, reported, calls, ckpt, berr, early, aux,
                 aVars, bufVars, chVars, faults>>

-----------------------------------------------------------------------------
(* PipelinedPrefill, up to stage A's command.                              *)

Collapsed == [b EXCEPT !.gdn = LiveGdn, !.win = <<>>]

(* A HIP error may stop the collapse among the layers.                     *)
HalfCollapsed == [b EXCEPT !.gdn = Bad, !.win = <<>>, !.hi = Bad]

(* Window 0 of the collapsed state, and the rows A lacks.                  *)
StageBExportSyncBack(m) ==
  /\ gdnSync' = IF PlanGdn THEN m.gdn ELSE gdnSync
  /\ kvSync' = IF SyncRows > 0 THEN Overlay(kvSync, m.kv, PlanRow0, SyncRows) ELSE kvSync

(* PpPrepareCall, the plan, the sync-back's export, BeginCall and Post; a  *)
(* HIP error of the first or the third leaves the call before BeginCall.   *)
PipelinedPrefill(n) ==
  /\ Idle
  /\ n >= MinRows /\ KvSyncFits
  /\ calls < MaxCalls /\ b.pos + n <= MaxPos
  /\ calls' = calls + 1
  /\ \/ /\ faults < MaxFaults /\ faults' = faults + 1
        /\ reported' = "error"
        /\ b' \in {Collapsed} \cup (IF b.win = <<>> THEN {} ELSE {HalfCollapsed})
        /\ dirty' = (dirty \/ b' # Collapsed)
        /\ UNCHANGED <<state, truth>>
        /\ UNCHANGED <<pc, tracker, call, berr, early, apc, bufVars, chVars>>
     \/ /\ b' = Collapsed
        /\ call' = [id |-> calls', p0 |-> b.pos, rows |-> n, gdn |-> PlanGdn, row0 |-> PlanRow0]
        /\ StageBExportSyncBack(Collapsed)
        /\ IF poisoned \/ ~Quiescent
             THEN /\ reported' = "begin"
                  /\ UNCHANGED <<state, truth, dirty, pc, berr, early, apc, chVars>>
             ELSE /\ acquired' = 0 /\ published' = 0 /\ taken' = 0 /\ released' = 0 /\ bulk' = -1
                  /\ apc' = "sync" /\ pc' = "acquire" /\ berr' = "none" /\ early' = FALSE
                  /\ UNCHANGED <<poisoned, slots, state, truth, dirty, reported>>
        /\ UNCHANGED <<tracker, hand, faults>>
  /\ UNCHANGED <<split, ckpt, aux, a, aerr>>

-----------------------------------------------------------------------------
(* Stage A's command: RunStageA and the chunks of Model::Prefill.          *)

AGo(to) == apc' = to /\ UNCHANGED aerr
AThrow(e) == apc' = "catch" /\ aerr' = e
ARows == Min2(ChunkRows, call.p0 + call.rows - a.pos)
ALast == a.pos + ARows = call.p0 + call.rows

(* PpSetSyncState and the imports of the sync-back, of layers              *)
(* [0, run_.split): the state of A's layers only if A runs those.          *)
ASync ==
  /\ apc = "sync"
  /\ LET own == split.a = split.run IN
     a' = [pos |-> call.p0,
           gdn |-> IF ~call.gdn THEN a.gdn ELSE IF own THEN gdnSync ELSE Bad,
           kv |-> IF call.p0 = call.row0 THEN a.kv
                  ELSE Overlay(a.kv, IF own THEN kvSync ELSE Fresh, call.row0, call.p0 - call.row0)]
  /\ AGo("compute")
  /\ UNCHANGED <<facadeVars, bVars, bufVars, chVars, faults>>

(* Layers [0, split) of the next chunk.                                    *)
ACompute ==
  /\ apc = "compute"
  /\ LET h == Extend(a, a.gdn, Tokens(call.id, ARows))
     IN a' = [a EXCEPT !.gdn = h, !.kv = WriteRows(@, a.pos, ARows, h)]
  /\ AGo("acquire")
  /\ UNCHANGED <<facadeVars, bVars, bufVars, chVars, faults>>

AcquireFree ==
  /\ apc = "acquire"
  /\ poisoned \/ FreeReady
  /\ IF poisoned THEN AThrow("poisoned") /\ UNCHANGED acquired
                 ELSE AGo("fill") /\ acquired' = acquired + 1
  /\ UNCHANGED <<facadeVars, bVars, bufVars, a, published, taken, released, bulk, poisoned,
                 slots, faults>>

AcquireFreeTimeout ==
  /\ apc = "acquire"
  /\ ~poisoned /\ ~FreeReady
  /\ AThrow("timeout")
  /\ UNCHANGED <<facadeVars, bVars, bufVars, chVars, a, faults>>

(* The copies into the slot: the carry, the header and A's whole KV blocks. *)
AFill ==
  /\ apc = "fill"
  /\ slots' = [slots EXCEPT ![SlotOf(acquired - 1)] =
                 [pos |-> a.pos, rows |-> ARows, last |-> ALast, carry |-> a.gdn, kv |-> a.kv]]
  /\ AGo("publish")
  /\ UNCHANGED <<facadeVars, bVars, bufVars, a, acquired, published, taken, released, bulk,
                 poisoned, faults>>

Publish ==
  /\ apc = "publish"
  /\ IF poisoned
       THEN AThrow("poisoned") /\ UNCHANGED <<a, published>>
       ELSE /\ published' = published + 1
            /\ a' = [a EXCEPT !.pos = @ + ARows]
            /\ AGo(IF ALast THEN "export" ELSE "compute")
  /\ UNCHANGED <<facadeVars, bVars, bufVars, acquired, taken, released, bulk, poisoned,
                 slots, faults>>

AExport ==
  /\ apc = "export"
  /\ hand' = a.gdn
  /\ AGo("bulk")
  /\ UNCHANGED <<facadeVars, bVars, a, gdnSync, kvSync, chVars, faults>>

PublishBulk ==
  /\ apc = "bulk"
  /\ IF poisoned THEN AThrow("poisoned") /\ UNCHANGED bulk
                 ELSE AGo("idle") /\ bulk' = call.id
  /\ UNCHANGED <<facadeVars, bVars, bufVars, a, acquired, published, taken, released,
                 poisoned, slots, faults>>

(* RunStageA's handler: poison the channel, then the worker goes idle.     *)
ACatch ==
  /\ apc = "catch"
  /\ poisoned' = TRUE
  /\ AGo("idle")
  /\ UNCHANGED <<facadeVars, bVars, bufVars, a, acquired, published, taken, released, bulk,
                 slots, faults>>

(* A HIP error wherever A drives its device.  The commands of RunA are not *)
(* RunStageA: their error reaches the facade without a poison.             *)
RunACommands == {"reset", "attach", "capture"}
DevicePoints == RunACommands \cup {"sync", "compute", "fill", "export"}
AFault ==
  /\ apc \in DevicePoints
  /\ faults < MaxFaults /\ faults' = faults + 1
  /\ IF apc \in RunACommands THEN apc' = "idle" /\ aerr' = "error" ELSE AThrow("error")
  /\ UNCHANGED <<facadeVars, bVars, bufVars, chVars, a>>

(* Model::Reset on A: the GDN state is zeroed; the KV rows stay, of no     *)
(* conversation any more.                                                  *)
AReset ==
  /\ apc = "reset"
  /\ a' = [pos |-> 0, kv |-> Fresh, gdn |-> <<>>]
  /\ AGo("idle")
  /\ UNCHANGED <<facadeVars, bVars, bufVars, chVars, faults>>

(* PpAttach for another split: of the layers A gains it holds nothing.     *)
AAttach ==
  /\ apc = "attach"
  /\ a' = [a EXCEPT !.kv = Fresh, !.gdn = Bad]
  /\ split' = [split EXCEPT !.a = split.to]
  /\ AGo("idle")
  /\ UNCHANGED <<state, pc, tracker, call, truth, dirty, reported, calls, bVars, bufVars, chVars,
                 faults>>

(* UpdateStageACapture's command: the feature columns, not modelled.       *)
ACapture ==
  /\ apc = "capture"
  /\ AGo("idle")
  /\ UNCHANGED <<facadeVars, bVars, bufVars, chVars, a, faults>>

-----------------------------------------------------------------------------
(* Stage B's half of the call: RunStageB on the facade's thread.           *)

BGo(to) == pc' = to /\ UNCHANGED berr
BThrow(e) == pc' = "catch" /\ berr' = e
BRows == Min2(ChunkRows, call.p0 + call.rows - b.pos)
BLast == b.pos + BRows = call.p0 + call.rows
BSlot == slots[SlotOf(taken - 1)]

facadeRest == <<state, split, tracker, call, truth, dirty, reported, calls>>

AcquireFull ==
  /\ pc = "acquire"
  /\ poisoned \/ FullReady
  /\ IF poisoned THEN BThrow("poisoned") /\ UNCHANGED taken
                 ELSE BGo("check") /\ taken' = taken + 1
  /\ UNCHANGED <<facadeRest, b, ckpt, early, aux, aVars, bufVars, acquired, published,
                 released, bulk, poisoned, slots, faults>>

AcquireFullTimeout ==
  /\ pc = "acquire"
  /\ ~poisoned /\ ~FullReady
  /\ BThrow("timeout")
  /\ UNCHANGED <<facadeRest, b, ckpt, early, aux, aVars, bufVars, chVars, faults>>

(* The header check and the payload's size, which tells some splits apart  *)
(* (those with more attention layers below), then StageBOnLastChunk:  *)
(* BulkReady throws on a poison, and a complete hand-off starts its import *)
(* on the side stream.                                                     *)
BCheck ==
  /\ pc = "check"
  /\ \E sameSize \in IF split.a = split.b THEN {TRUE} ELSE BOOLEAN :
       LET agree == BSlot.pos = b.pos /\ BSlot.rows = BRows /\ BSlot.last = BLast /\ sameSize
       IN /\ IF ~agree THEN BThrow("disagree")
             ELSE IF BLast /\ poisoned THEN BThrow("poisoned") ELSE BGo("layers")
          /\ IF agree /\ BLast /\ ~poisoned /\ bulk = call.id
               THEN early' = TRUE /\ aux' = "copying" ELSE UNCHANGED <<early, aux>>
  /\ UNCHANGED <<facadeRest, b, ckpt, aVars, bufVars, chVars, faults>>

(* The import of the slot, layers [split, N) and ChunkEpilogue.            *)
BLayers ==
  /\ pc = "layers"
  /\ LET toks == Tokens(call.id, BRows) IN
     b' = [b EXCEPT !.pos = @ + BRows,
                    !.kv = Overlay(@, BSlot.kv, b.pos, BRows),
                    !.hi = IF @ # Bad /\ split.a = split.b /\ BSlot.carry = @ \o toks THEN @ \o toks ELSE Bad,
                    !.end = BLast]
  /\ BGo("release")
  /\ UNCHANGED <<facadeRest, ckpt, early, aux, aVars, bufVars, chVars, faults>>

Release ==
  /\ pc = "release"
  /\ released' = released + 1
  /\ BGo(IF b.pos < call.p0 + call.rows THEN "acquire" ELSE IF early THEN "fence" ELSE "bulk")
  /\ UNCHANGED <<facadeRest, b, ckpt, early, aux, aVars, bufVars, acquired, published, taken,
                 bulk, poisoned, slots, faults>>

(* WaitBulk and the import behind the last chunk.                          *)
WaitBulk ==
  /\ pc = "bulk"
  /\ poisoned \/ bulk = call.id
  /\ IF poisoned THEN BThrow("poisoned") /\ UNCHANGED aux
                 ELSE BGo("fence") /\ aux' = "copying"
  /\ UNCHANGED <<facadeRest, b, ckpt, early, aVars, bufVars, chVars, faults>>

\* Mutant: the wait for the hand-off has no clock.
WaitBulkForever ==
  /\ pc = "bulk"
  /\ ~poisoned /\ bulk # call.id
  /\ UNCHANGED vars

WaitBulkTimeout ==
  /\ pc = "bulk"
  /\ ~poisoned /\ bulk # call.id
  /\ BThrow("timeout")
  /\ UNCHANGED <<facadeRest, b, ckpt, early, aux, aVars, bufVars, chVars, faults>>

(* The side stream's copy of layers [0, run_.split) lands.                 *)
AuxLand ==
  /\ aux = "copying"
  /\ aux' = "idle"
  /\ b' = [b EXCEPT !.gdn = IF split.b = split.run THEN hand ELSE Bad]
  /\ UNCHANGED <<facadeVars, ckpt, berr, early, aVars, bufVars, chVars, faults>>

\* Mutant: the fence returns while the copy is in flight.
ImportFenceSkipped ==
  /\ pc = "fence"
  /\ BGo("join")
  /\ UNCHANGED <<facadeRest, b, ckpt, early, aux, aVars, bufVars, chVars, faults>>

(* PpImportFence, behind the import and in RunStageB's handler.            *)
ImportFence ==
  /\ pc = "fence"
  /\ aux = "idle"
  /\ BGo("join")
  /\ UNCHANGED <<facadeRest, b, ckpt, early, aux, aVars, bufVars, chVars, faults>>

BCatch ==
  /\ pc = "catch"
  /\ poisoned' = TRUE
  /\ BGo("fence")
  /\ UNCHANGED <<facadeRest, b, ckpt, early, aux, aVars, bufVars, acquired, published, taken,
                 released, bulk, slots, faults>>

(* A HIP error of B in the prologue, the chunk or the import.              *)
BFault ==
  /\ pc \in {"acquire", "layers", "bulk"}
  /\ faults < MaxFaults /\ faults' = faults + 1
  /\ BThrow("error")
  /\ UNCHANGED <<facadeRest, b, ckpt, early, aux, aVars, bufVars, chVars>>

-----------------------------------------------------------------------------
(* The facade joins stage A.                                               *)

\* Mutant: stage A's error always wins.
PickRootCauseA(ae, be) == IF ae # "none" THEN ae ELSE be
PickRootCause(ae, be) == IF ae # "none" /\ be \in {"none", "poisoned"} THEN ae ELSE be

(* TakeError hands the error over and clears it.  The call is over: its    *)
(* StageCall and results die, and the pinned buffers hold scrap.           *)
Join ==
  /\ pc = "join" /\ apc = "idle"
  /\ aerr' = "none" /\ berr' = "none" /\ early' = FALSE /\ call' = NoCall
  /\ gdnSync' = Bad /\ kvSync' = Fresh /\ hand' = Bad /\ slots' = FreshSlots
  /\ reported' = PickRootCause(aerr, berr)
  /\ IF reported' = "none"
       THEN /\ tracker' = AfterPipelined(b.pos)
            /\ truth' = truth \o Tokens(call.id, call.rows)
            /\ UNCHANGED state
       ELSE state' = "kNeedsRecovery" /\ UNCHANGED <<tracker, truth>>
  /\ pc' = "idle"
  /\ UNCHANGED <<split, dirty, calls, b, ckpt, aux, a, apc, acquired, published, taken, released,
                 bulk, poisoned, faults>>

(* 60 s without a heartbeat of stage A: fatal, whatever the facade waits   *)
(* for, except that SetSplit's handler writes kNeedsRecovery over it.      *)
JoinStalled ==
  /\ pc \in {"join", "resetA", "splitA", "splitC"} /\ apc \in DevicePoints
  /\ state' = IF pc \in {"splitA", "splitC"} THEN "kNeedsRecovery" ELSE "kFatal"
  /\ split' = [split EXCEPT !.run = split.old]
  /\ poisoned' = TRUE /\ reported' = "fatal"
  /\ pc' = "idle"
  /\ UNCHANGED <<tracker, call, truth, dirty, calls, bVars, aVars, bufVars, acquired,
                 published, taken, released, bulk, slots, faults>>

-----------------------------------------------------------------------------
(* Reset, SetSplit and the destructor.                                     *)

\* Mutant: the poison survives the reset.
ChannelResetPoisoned ==
  /\ acquired' = 0 /\ published' = 0 /\ taken' = 0 /\ released' = 0
  /\ bulk' = -1
  /\ UNCHANGED <<slots, poisoned>>

ChannelReset ==
  /\ acquired' = 0 /\ published' = 0 /\ taken' = 0 /\ released' = 0
  /\ bulk' = -1 /\ poisoned' = FALSE
  /\ UNCHANGED slots

(* RankWorker::Post to a worker that is still busy throws; a post clears   *)
(* the error of a command nobody joined.                                   *)
PostBusy ==
  /\ state' = "kNeedsRecovery" /\ reported' = "busy"
  /\ UNCHANGED <<apc, aerr, pc>>

Reset ==
  /\ pc = "idle" /\ state # "kFatal"
  /\ ChannelReset
  /\ IF apc = "idle"
       THEN apc' = "reset" /\ aerr' = "none" /\ pc' = "resetA" /\ UNCHANGED <<state, reported>>
       ELSE PostBusy
  /\ UNCHANGED <<split, tracker, call, truth, dirty, calls, bVars, a, bufVars, faults>>

(* RunA returned: b_->Reset(), which may throw, and the tracker.           *)
ResetDone ==
  /\ pc = "resetA" /\ apc = "idle"
  /\ pc' = "idle" /\ aerr' = "none"
  /\ \/ /\ aerr = "none"
        /\ b' = FreshB
        /\ ckpt' = NoCkpt
        /\ tracker' = [kv |-> 0, gdn |-> 0]
        /\ state' = "kReady" /\ truth' = <<>> /\ dirty' = FALSE /\ reported' = "none"
        /\ UNCHANGED faults
     \/ /\ aerr # "none" \/ faults < MaxFaults
        /\ faults' = IF aerr = "none" THEN faults + 1 ELSE faults
        /\ state' = "kNeedsRecovery" /\ reported' = "error"
        /\ UNCHANGED <<b, ckpt, tracker, truth, dirty>>
  /\ UNCHANGED <<split, call, calls, berr, early, aux, a, apc, bufVars, chVars>>

SetSplit(k) ==
  /\ pc = "idle" /\ state # "kFatal"
  /\ k >= split.run
  /\ IF apc = "idle"
       THEN /\ split' = [split EXCEPT !.run = k, !.to = k, !.old = split.run]
            /\ apc' = "attach" /\ aerr' = "none" /\ pc' = "splitA" /\ reported' = "none"
            /\ UNCHANGED state
       ELSE PostBusy /\ UNCHANGED split
  /\ UNCHANGED <<tracker, call, truth, dirty, calls, bVars, a, bufVars, chVars, faults>>

(* SetSplit's handler: the split goes back, the stages are not attached    *)
(* again.                                                                  *)
SplitCatch ==
  /\ state' = "kNeedsRecovery" /\ reported' = "error" /\ pc' = "idle"
  /\ split' = [split EXCEPT !.run = split.old, !.to = split.old]
  /\ UNCHANGED <<apc, chVars>>

(* Stage A attached: B attaches and A's feature capture follows.           *)
SplitAttached ==
  /\ pc = "splitA" /\ apc = "idle"
  /\ aerr' = "none"
  /\ \/ /\ aerr = "none"
        /\ split' = [split EXCEPT !.b = split.run]
        /\ apc' = "capture" /\ pc' = "splitC"
        /\ UNCHANGED <<state, reported, chVars, faults>>
     \/ /\ aerr # "none" \/ faults < MaxFaults
        /\ faults' = IF aerr = "none" THEN faults + 1 ELSE faults
        /\ SplitCatch
  /\ UNCHANGED <<tracker, call, truth, dirty, calls, bVars, a, bufVars>>

(* Reset() at once, or the error.                                          *)
SplitDone ==
  /\ pc = "splitC" /\ apc = "idle"
  /\ aerr' = "none"
  /\ IF aerr = "none"
       THEN /\ ChannelReset
            /\ split' = [split EXCEPT !.old = split.run]
            /\ apc' = "reset" /\ pc' = "resetA"
            /\ UNCHANGED <<state, reported>>
       ELSE SplitCatch
  /\ UNCHANGED <<tracker, call, truth, dirty, calls, bVars, a, bufVars, faults>>

(* ~PpModel poisons the channel and waits for stage A, then for A's        *)
(* teardown; after 30 s of either the process exits, A's thread with it,   *)
(* rather than free what A may touch.                                      *)
Close ==
  /\ pc = "idle"
  /\ poisoned' = TRUE /\ pc' = "closing"
  /\ UNCHANGED <<facadeRest, bVars, aVars, bufVars, acquired, published, taken, released, bulk,
                 slots, faults>>

Closed ==
  /\ pc = "closing" /\ apc \in DevicePoints \cup {"idle"}
  /\ pc' \in IF apc = "idle" THEN {"closed", "exited"} ELSE {"exited"}
  /\ apc' = "idle"
  /\ UNCHANGED <<facadeRest, bVars, a, aerr, bufVars, chVars, faults>>

-----------------------------------------------------------------------------
Stopped == pc \in {"closed", "exited"} /\ UNCHANGED vars

StageA == ASync \/ ACompute \/ AFill \/ AExport \/ AReset \/ AAttach \/ ACapture \/ AFault
StageAHost == AcquireFree \/ AcquireFreeTimeout \/ Publish \/ PublishBulk \/ ACatch
StageB ==
  \/ AcquireFull \/ AcquireFullTimeout \/ BCheck \/ BLayers \/ Release
  \/ WaitBulk \/ WaitBulkTimeout \/ ImportFence \/ BCatch
Facade == Join \/ JoinStalled \/ ResetDone \/ SplitAttached \/ SplitDone \/ Closed
Caller ==
  \/ \E n \in 1..MaxPos : PrefillB(n) \/ PipelinedPrefill(n)
  \/ \E n, w \in 1..2 : DecodeStep(n, w)
  \/ SaveCheckpoint \/ RestoreCheckpoint \/ Reset \/ Close
  \/ \E k \in 1..MaxSplit : SetSplit(k)

Next == StageA \/ StageAHost \/ StageB \/ BFault \/ AuxLand \/ Facade \/ Caller \/ Stopped

Spec == Init /\ [][Next]_vars

(* Host steps and bounded waits run; B's copies land and its kernels end.  *)
(* Nothing is assumed of stage A's device.                                 *)
FairSpec ==
  Spec /\ WF_vars(StageAHost) /\ WF_vars(StageB) /\ WF_vars(Facade) /\ WF_vars(AuxLand)

-----------------------------------------------------------------------------
(* Properties.                                                             *)

Errors == {"none", "error", "timeout", "poisoned", "disagree", "begin", "fatal", "busy"}
Histories == UNION {[1..n -> 0..MaxCalls] : n \in 0..MaxPos}

\* Every variable holds a value of the code's types; counters stay in the
\* ring's bounds.
TypeOK ==
  /\ state \in {"kReady", "kNeedsRecovery", "kFatal"}
  /\ pc \in {"idle", "acquire", "check", "layers", "release", "bulk", "fence", "catch", "join",
             "resetA", "splitA", "splitC", "closing", "closed", "exited"}
  /\ apc \in DevicePoints \cup {"idle", "acquire", "publish", "bulk", "catch"}
  /\ aerr \in Errors /\ berr \in Errors /\ reported \in Errors
  /\ tracker.kv \in 0..MaxPos /\ tracker.gdn \in -1..MaxPos
  /\ a.pos \in 0..MaxPos /\ a.gdn \in Histories /\ \A r \in Rows : a.kv[r] \in Histories
  /\ b.pos \in 0..MaxPos /\ b.gdn \in Histories /\ \A r \in Rows : b.kv[r] \in Histories
  /\ released \in 0..taken /\ taken \in 0..published /\ published \in 0..acquired
  /\ acquired - released <= Slots
  /\ aux \in {"idle", "copying"}
  /\ split \in [{"run", "a", "b", "to", "old"} -> 1..MaxSplit]

(* Both stages run the split the facade believes in.                       *)
Aligned == split.a = split.run /\ split.b = split.run

\* Between calls what MirrorTracker claims of stage A is so: its KV rows below
\* kv_valid_to equal stage B's, and at gdn_pos its GDN state equals B's live
\* one.  A wrong claim is a stale mirror: the next pipelined prefill would
\* compute from it, and ship it back to B in whole blocks.
MirrorIsTrue ==
  Idle /\ Aligned =>
          /\ \A r \in 1..tracker.kv : a.kv[r] = b.kv[r]
          /\ tracker.gdn # -1 => tracker.gdn = b.pos /\ a.gdn = LiveGdn

\* Between calls stage B holds exactly what one model fed the same tokens
\* holds: the KV rows and the GDN state below the split, which the pipeline
\* brings from stage A, and the state above it.  (Not Aligned is what a
\* SetSplit that failed halfway leaves: neither its handler nor Reset attaches
\* the stages again.)
BIsExact ==
  Idle /\ Aligned /\ ~dirty =>
    /\ b.pos = Len(truth) /\ b.hi = truth
    /\ Coherent(b.kv, LiveGdn, b.pos) /\ LiveGdn = truth

\* A call never meets the leftovers of another one: BeginCall finds the ring
\* quiescent and unpoisoned, and the stages never disagree on a chunk.
NoProtocolError == Aligned => reported \notin {"begin", "disagree"}

\* A failed pipelined call reports its root cause, never the poison that one
\* stage's failure left for the other.
RootCauseReported == reported # "poisoned"

\* A call returns even if stage A's device hangs: the bounded waits and the
\* watchdog of JoinStageA end it.
EveryCallEnds == pc # "idle" ~> pc \in {"idle", "closed", "exited"}

\* What the documentation promises of a stall, and SetSplit does not keep: a
\* stage A that made no progress leaves the model fatal, so no later call
\* touches a worker that may still be running.
StallIsFatal == reported = "fatal" /\ pc = "idle" => state = "kFatal"

-----------------------------------------------------------------------------
(* The inductive invariant behind NoProtocolError, RootCauseReported,      *)
(* MirrorIsTrue and BIsExact (PpModelProofs).                              *)

Hist == Seq(Nat)
RowStore == [Rows -> Hist]
Ready == pc = "idle" /\ state = "kReady"
CallPlaces == {"acquire", "check", "layers", "release", "bulk", "fence", "catch", "join"}
InCall == pc \in CallPlaces
ACallPlaces == {"sync", "compute", "acquire", "fill", "publish", "export", "bulk", "catch"}
Commands == [id : Nat, p0 : 0..MaxPos, rows : Nat, gdn : BOOLEAN, row0 : Nat]
SlotValues == [pos : Nat, rows : Nat, last : BOOLEAN, carry : Hist, kv : RowStore]
End == call.p0 + call.rows

Shapes ==
  /\ state \in {"kReady", "kNeedsRecovery", "kFatal"}
  /\ pc \in CallPlaces \cup {"idle", "resetA", "splitA", "splitC", "closing", "closed", "exited"}
  /\ apc \in ACallPlaces \cup RunACommands \cup {"idle"}
  /\ aerr \in {"none", "error", "timeout", "poisoned"}
  /\ aux \in {"idle", "copying"}
  /\ tracker \in [kv : 0..MaxPos, gdn : -1..MaxPos]
  /\ b \in [pos : 0..MaxPos, kv : RowStore, gdn : Hist, win : Hist, hi : Hist, end : BOOLEAN]
  /\ ckpt \in [pos : -1..MaxPos, gdn : Hist, hi : Hist]
  /\ a \in [pos : 0..MaxPos, kv : RowStore, gdn : Hist]
  /\ gdnSync \in Hist /\ kvSync \in RowStore /\ hand \in Hist
  /\ {acquired, published, taken, released, calls} \subseteq Nat /\ bulk \in Int
  /\ {poisoned, early, dirty} \subseteq BOOLEAN
  /\ slots \in [0..(Slots - 1) -> SlotValues]
  /\ call \in Commands
  /\ truth \in Seq(Nat \ {0})
  /\ split \in [run : Nat, a : Nat, b : Nat, to : Nat, old : Nat]

(* Which commands of stage A go with which places of the facade.           *)
Phases ==
  /\ Ready => apc = "idle" /\ aerr = "none" /\ ~poisoned /\ Quiescent
  /\ InCall => state = "kReady" /\ apc \in ACallPlaces \cup {"idle"}
  /\ state = "kFatal" => pc \in {"idle", "closing", "closed", "exited"}
  /\ apc \in ACallPlaces => InCall \/ state = "kFatal" \/ pc \in {"closing", "closed", "exited"}
  /\ apc \in {"sync", "compute", "acquire", "fill", "publish"} => call.rows > 0 /\ End <= MaxPos
  /\ apc \in {"compute", "acquire", "fill", "publish"} => a.pos < End
  /\ pc = "resetA" => apc \in {"reset", "idle"} /\ ~poisoned /\ Quiescent
  /\ pc = "splitA" => apc \in {"attach", "idle"}
  /\ pc = "splitC" => apc \in {"capture", "idle"}
  /\ aux = "copying" => InCall /\ pc # "join"
  /\ Ready => b.pos = Len(truth) /\ ckpt.pos <= Len(truth)
  /\ InCall => call.p0 = Len(truth) /\ ckpt.pos <= Len(truth)

(* Errors of the two stages: the poison always has a cause that is none.   *)
Causes ==
  /\ reported # "poisoned" /\ reported # "begin"
  /\ reported = "disagree" => ~Aligned /\ apc # "attach" /\ pc \notin {"splitA", "splitC"}
  /\ InCall =>
       /\ apc \in ACallPlaces => (apc = "catch" <=> aerr # "none")
       /\ pc \in CallPlaces \ {"fence", "join"} => (pc = "catch" <=> berr # "none")
       /\ poisoned => \/ aerr \notin {"none", "poisoned"} /\ apc = "idle"
                      \/ berr \notin {"none", "poisoned"} /\ pc \in {"fence", "join"}
       /\ aerr = "poisoned" => berr \notin {"none", "poisoned"} /\ pc \in {"fence", "join"}
       /\ berr = "poisoned" => aerr \notin {"none", "poisoned"} /\ apc = "idle"
       /\ berr = "disagree" => ~Aligned
       /\ berr # "begin"

(* Chunk n of a call begins behind n whole ones; the last may be short.    *)
ChunkPos(n) == call.p0 + n * ChunkRows
Upto(n) == Min2(ChunkPos(n), End)

(* How far the stages are, by the counters of the ring.                    *)
Counts ==
  InCall =>
    /\ call.id = calls /\ calls > 0 /\ call.rows > 0 /\ call.row0 <= call.p0 /\ End <= MaxPos
    /\ released <= taken /\ taken <= published /\ published <= acquired
    /\ acquired - released <= Slots
    /\ published > 0 => ChunkPos(published - 1) < End
    /\ apc \in {"sync", "compute", "acquire", "export", "bulk"} => acquired = published
    /\ apc \in {"fill", "publish"} => acquired = published + 1
    /\ apc = "sync" => published = 0
    /\ apc \in {"compute", "acquire", "fill", "publish"} => a.pos = ChunkPos(published) /\ a.pos < End
    /\ apc \in {"export", "bulk"} => a.pos = End /\ End <= ChunkPos(published)
    /\ apc = "idle" /\ aerr = "none" => a.pos = End /\ End <= ChunkPos(published)
                                         /\ acquired = published
    /\ bulk = call.id => apc = "idle" /\ aerr = "none"
    /\ pc = "acquire" => taken = released /\ b.pos = ChunkPos(taken) /\ b.pos < End
    /\ pc \in {"check", "layers"} => taken = released + 1 /\ b.pos = ChunkPos(released) /\ b.pos < End
    /\ pc = "release" => taken = released + 1 /\ b.pos = Upto(taken)
    /\ pc = "bulk" \/ (pc \in {"fence", "join"} /\ berr = "none") =>
         taken = released /\ b.pos = End /\ End <= ChunkPos(taken)
    /\ (early \/ aux = "copying" \/ pc \in {"fence", "join"}) /\ berr = "none" => bulk = call.id

(* A slot between its filling and its release is the chunk of its number.  *)
Filled == IF apc = "publish" THEN published + 1 ELSE published
Headers ==
  InCall =>
    \A n \in released .. Filled - 1 :
      LET s == slots[SlotOf(n)] IN
      /\ ChunkPos(n) < End /\ s.pos = ChunkPos(n) /\ s.pos + s.rows = Upto(n + 1)
      /\ s.last = (s.pos + s.rows = End)

(* Stage A's mirror, through a call in which nothing has failed.           *)
Sound == Aligned /\ aerr = "none" /\ berr = "none"
Copies ==
  InCall /\ Sound =>
    /\ b.win = <<>>
    /\ apc = "sync" =>
         /\ IF call.gdn THEN gdnSync = b.gdn ELSE a.gdn = b.gdn
         /\ \A r \in 1..call.row0 : a.kv[r] = b.kv[r]
         /\ call.row0 < call.p0 =>
              \A r \in Rows : r \in BlockRows(call.row0, call.p0 - call.row0) => kvSync[r] = b.kv[r]
    /\ apc # "sync" => \A r \in 1..b.pos : a.kv[r] = b.kv[r]
    /\ \A n \in released .. Filled - 1 : \A r \in 1..Upto(n + 1) : slots[SlotOf(n)].kv[r] = a.kv[r]
    /\ apc = "bulk" \/ bulk = call.id => hand = a.gdn
    /\ (early \/ pc \in {"fence", "join"}) /\ aux = "idle" => b.gdn = hand

(* What the stages hold is the history of the tokens fed.                  *)
History(k) == truth \o Tokens(call.id, k - call.p0)
Computed == IF apc \in {"acquire", "fill", "publish"} THEN Upto(published + 1) ELSE a.pos
IsTruth(kv, n) == \A r \in 1..n : kv[r] = SubSeq(truth, 1, r)
CkptIsTrue ==
  ckpt.pos >= 0 /\ ckpt.hi # Bad =>
    /\ ckpt.hi = SubSeq(truth, 1, ckpt.pos) /\ ckpt.gdn = ckpt.hi
    /\ IsTruth(b.kv, ckpt.pos)
Exact ==
  InCall /\ Sound =>
    /\ CkptIsTrue
    /\ dirty => b.hi = Bad
    /\ ~dirty =>
         /\ b.hi = History(b.pos)
         /\ apc = "sync" => b.gdn = truth /\ IsTruth(b.kv, call.p0)
         /\ apc # "sync" => /\ a.gdn = History(Computed)
                            /\ \A r \in 1..Computed : a.kv[r] = SubSeq(History(Computed), 1, r)
         /\ \A n \in released .. Filled - 1 : slots[SlotOf(n)].carry = History(Upto(n + 1))

Between ==
  /\ Ready /\ Aligned =>
       /\ MirrorIsTrue /\ BIsExact /\ CkptIsTrue
       /\ dirty => b.hi = Bad
       /\ b.end => b.win = <<>>
       /\ b.win # <<>> => tracker.gdn = -1
  /\ pc = "resetA" /\ apc = "idle" /\ aerr = "none" => a.gdn = <<>>

IInv == Shapes /\ Phases /\ Causes /\ Counts /\ Headers /\ Copies /\ Exact /\ Between

=============================================================================
