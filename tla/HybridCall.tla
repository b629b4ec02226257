----------------------------- MODULE HybridCall -----------------------------
(***************************************************************************)
(* One pipelined call of the hybrid mode: the two rank threads of          *)
(* TpModel::HybridMain and HybridExec (model/tp_model_hybrid.cpp) over the *)
(* rings, gate and lockstep loop of model/hybrid_ring.h and the stage      *)
(* channel. Card "A" runs the front stage, card "B" the back stage.        *)
(*                                                                         *)
(* Each card exports its batches through a ring of pinned host slots of    *)
(* its own and imports the peer's; copies are asynchronous, so a slot is   *)
(* written from the enqueue of a D2H to the sync of its stream and read    *)
(* from the enqueue of an H2D to the sync of its stream. A phase is the    *)
(* warm gather (possibly of nothing) or the scatter; batch numbers keep    *)
(* counting from one phase to the next, with no barrier in between.        *)
(*                                                                         *)
(* A copy, a stage chunk or an adoption may fail on a device error or hang *)
(* for good; a wait may run into its time-out whenever it is not yet       *)
(* satisfied.                                                              *)
(***************************************************************************)
EXTENDS Integers, Sequences, FiniteSets, FiniteSetsExt

CONSTANTS
  Slots,       \* kHybridRingSlots
  BatchCounts, \* bound: how many batches a card may have in a phase
  Chunks,      \* chunks of the stage prefill
  ChanSlots,   \* slots of the stage channel
  CaptureTail,  \* the call captures a DFlash tail
  MaxFaults    \* bound: errors and hangs together

(* With one slot, step 1 of each card would wait for the other's step 1. *)
ASSUME RingAssumption ==
  /\ Slots \in Nat /\ Slots >= 2
  /\ {ChanSlots, Chunks} \subseteq Nat \ {0}
  /\ CaptureTail \in BOOLEAN
  /\ BatchCounts \subseteq Nat /\ MaxFaults \in Nat

Cards == {"A", "B"}
Phases == {"gather", "scatter"}
Peer(c) == IF c = "A" THEN "B" ELSE "A"
None == -1

VARIABLES
  n,          \* batches of each phase and card (PackCrossOps); fixed by the call
  pc, phase, step,   \* per card: where HybridMain is, the phase of its reshard, RunLockstep's i
  published, consumed,   \* per card: its outgoing RingPipe
  ring,       \* per card: the batch each of its slots holds, None while it is written
  writing, reading,      \* per card: the batch whose D2H / H2D is under way, or None
  got,        \* per card: the batches that arrived from the peer, in order
  sent, taken,           \* chunks put into and taken from the stage channel
  open,       \* HostGate end_gate
  poisoned,   \* the shared objects that are poisoned
  armed,      \* stage B's tail capture holds the observer slot
  adopted,    \* the ranks that adopted the end state
  error,      \* per card: what made it leave the try block
  dirty,      \* cards whose catch could not sync its streams
  faults
vars == <<n, pc, phase, step, published, consumed, ring, writing, reading, got, sent, taken,
          open, poisoned, armed, adopted, error, dirty, faults>>

call == n
pipes == <<published, consumed>>
copies == <<ring, writing, reading, got>>
stageVars == <<sent, taken, open, armed>>
endVars == <<adopted, error, dirty, faults>>

Shared == {"channel", "pipeA", "pipeB", "gate"}   \* what PoisonAll poisons
Pipe(c) == IF c = "A" THEN "pipeA" ELSE "pipeB"

-----------------------------------------------------------------------------
(* RunLockstep. A card is in a phase at one of four points of step i:      *)
(* export, import, publish, consume.                                       *)

Base(c, ph) == IF ph = "gather" THEN 0 ELSE n["gather"][c]     \* out_base / in_base

\* Mutant: the step that imports the last batch is left out.
LockstepStepsShort(out, in) == Max({out, in})
LockstepSteps(out, in) == Max({out, IF in > 0 THEN in + 1 ELSE 0})
Steps(c, ph) == LockstepSteps(n[ph][c], n[ph][Peer(c)])

OutBatch(c) == Base(c, phase[c]) + step[c]
\* Mutant: step i imports the peer's batch i.
InBatchSame(c) == Base(Peer(c), phase[c]) + step[c]
InBatch(c) == Base(Peer(c), phase[c]) + step[c] - 1

Exporting(c) == step[c] < n[phase[c]][c]
Importing(c) == step[c] >= 1 /\ step[c] - 1 < n[phase[c]][Peer(c)]

(* Where a phase that is over, or has no step for this card, leads. *)
AfterPhase(ph) == IF ph = "gather" THEN "stage" ELSE "wait"
FirstPoint(c, ph) == IF Steps(c, ph) = 0 THEN AfterPhase(ph) ELSE "export"

(* Moves card c past its point of step i: to the next point, the next      *)
(* step, or out of the phase (HybridExec's final ReshardSync included).    *)
Go(c) ==
  LET over == step[c] + 1 = Steps(c, phase[c])
      last == pc[c] = "consume"
  IN  /\ pc' = [pc EXCEPT ![c] = CASE @ = "export"  -> "import"
                                   [] @ = "import"  -> "publish"
                                   [] @ = "publish" -> "consume"
                                   [] OTHER         -> IF over THEN AfterPhase(phase[c]) ELSE "export"]
      /\ step' = [step EXCEPT ![c] = IF ~last THEN @ ELSE IF over THEN 0 ELSE @ + 1]
      /\ UNCHANGED phase

(* A point at which this step has nothing to do. *)
Skip(c) ==
  /\ \/ pc[c] \in {"export", "publish"} /\ ~Exporting(c)
     \/ pc[c] \in {"import", "consume"} /\ ~Importing(c)
  /\ Go(c)
  /\ UNCHANGED <<call, pipes, copies, stageVars, poisoned, endVars>>

(* RingPipe::WaitSlotFree and the enqueue of the D2H into slot             *)
(* (base + i) % slots.                                                     *)
\* Mutant: the slot of the batch before is taken for free.
SlotFreeEarly(c, batch) == batch - consumed[c] <= Slots
SlotFree(c, batch) == batch - consumed[c] < Slots

ExportEnqueue(c) ==
  /\ pc[c] = "export" /\ Exporting(c)
  /\ Pipe(c) \notin poisoned /\ SlotFree(c, OutBatch(c))
  /\ writing' = [writing EXCEPT ![c] = OutBatch(c)]
  /\ ring' = [ring EXCEPT ![c][OutBatch(c) % Slots] = None]
  /\ Go(c)
  /\ UNCHANGED <<call, pipes, reading, got, stageVars, poisoned, endVars>>

(* RingPipe::WaitPublished and the enqueue of the H2D from the peer's slot. *)
ImportEnqueue(c) ==
  /\ pc[c] = "import" /\ Importing(c)
  /\ Pipe(Peer(c)) \notin poisoned /\ published[Peer(c)] > InBatch(c)
  /\ reading' = [reading EXCEPT ![c] = InBatch(c)]
  /\ Go(c)
  /\ UNCHANGED <<call, pipes, ring, writing, got, stageVars, poisoned, endVars>>

(* export_sync and Publish. *)
Publish(c) ==
  /\ pc[c] = "publish" /\ Exporting(c)
  /\ Pipe(c) \notin poisoned
  /\ ring' = [ring EXCEPT ![c][writing[c] % Slots] = writing[c]]
  /\ writing' = [writing EXCEPT ![c] = None]
  /\ published' = [published EXCEPT ![c] = @ + 1]
  /\ Go(c)
  /\ UNCHANGED <<call, consumed, reading, got, stageVars, poisoned, endVars>>

(* import_sync and Consume: what arrived is what the slot held. *)
Consume(c) ==
  /\ pc[c] = "consume" /\ Importing(c)
  /\ Pipe(Peer(c)) \notin poisoned
  /\ got' = [got EXCEPT ![c] = Append(@, ring[Peer(c)][reading[c] % Slots])]
  /\ reading' = [reading EXCEPT ![c] = None]
  /\ consumed' = [consumed EXCEPT ![Peer(c)] = @ + 1]
  /\ Go(c)
  /\ UNCHANGED <<call, published, ring, writing, stageVars, poisoned, endVars>>

-----------------------------------------------------------------------------
(* The rest of HybridMain. *)

(* StageSetSyncState, then the gather if there is one. *)
Begin(c) ==
  /\ pc[c] = "begin"
  /\ pc' = [pc EXCEPT ![c] = FirstPoint(c, "gather")]
  /\ UNCHANGED <<call, phase, step, pipes, copies, stageVars, poisoned, endVars>>

(* RunStageA: a chunk into a free slot of the channel. *)
StageA ==
  /\ pc["A"] = "stage"
  /\ \/ /\ sent < Chunks /\ "channel" \notin poisoned /\ sent - taken < ChanSlots
        /\ sent' = sent + 1 /\ UNCHANGED pc
     \/ /\ sent = Chunks
        /\ pc' = [pc EXCEPT !["A"] = FirstPoint("A", "scatter")] /\ UNCHANGED sent
  /\ phase' = [phase EXCEPT !["A"] = "scatter"]
  /\ UNCHANGED <<call, step, pipes, copies, taken, open, armed, poisoned, endVars>>

(* StageArmDflashTail. *)
Arm ==
  /\ pc["B"] = "stage" /\ taken = 0 /\ CaptureTail /\ ~armed
  /\ armed' = TRUE
  /\ UNCHANGED <<call, pc, phase, step, pipes, copies, sent, taken, open, poisoned, endVars>>

(* RunStageB: the chunks in order. *)
StageB ==
  /\ pc["B"] = "stage" /\ (CaptureTail => armed)
  /\ \/ /\ taken < sent /\ "channel" \notin poisoned
        /\ taken' = taken + 1 /\ UNCHANGED pc
     \/ /\ taken = Chunks
        /\ pc' = [pc EXCEPT !["B"] = "disarm"] /\ UNCHANGED taken
  /\ UNCHANGED <<call, phase, step, pipes, copies, sent, open, armed, poisoned, endVars>>

(* StageDisarmDflashTail, after a failed RunStageB too; then the rethrow,  *)
(* or the end state and the gate.                                          *)
\* Mutant: a failed stage prefill skips the disarm.
DisarmOnSuccess ==
  /\ pc["B"] = "disarm"
  /\ armed' = (armed /\ error["B"] # "none")
  /\ IF error["B"] # "none"
     THEN pc' = [pc EXCEPT !["B"] = "catch"] /\ UNCHANGED open
     ELSE pc' = [pc EXCEPT !["B"] = FirstPoint("B", "scatter")] /\ open' = TRUE
  /\ phase' = [phase EXCEPT !["B"] = "scatter"]
  /\ UNCHANGED <<call, step, pipes, copies, sent, taken, poisoned, endVars>>
Disarm ==
  /\ pc["B"] = "disarm"
  /\ armed' = FALSE
  /\ IF error["B"] # "none"
     THEN pc' = [pc EXCEPT !["B"] = "catch"] /\ UNCHANGED open
     ELSE pc' = [pc EXCEPT !["B"] = FirstPoint("B", "scatter")] /\ open' = TRUE
  /\ phase' = [phase EXCEPT !["B"] = "scatter"]
  /\ UNCHANGED <<call, step, pipes, copies, sent, taken, poisoned, endVars>>

(* end_gate.Wait, TpAdoptPrefill and the tail injection. *)
Adopt(c) ==
  /\ pc[c] = "wait" /\ open /\ "gate" \notin poisoned
  /\ adopted' = adopted \cup {c}
  /\ pc' = [pc EXCEPT ![c] = "ended"]
  /\ UNCHANGED <<call, phase, step, pipes, copies, stageVars, poisoned, error, dirty, faults>>

-----------------------------------------------------------------------------
(* Failures. A stage prefill that fails poisons the channel itself         *)
(* (RunStageA, RunStageB); stage B's goes on to the disarm.                *)

Try(c) == pc[c] \notin {"catch", "drain", "ended", "hung", "disarm"}

Leave(c, why) ==
  /\ error' = [error EXCEPT ![c] = why]
  /\ IF pc[c] = "stage"
     THEN /\ poisoned' = poisoned \cup {"channel"}
          /\ pc' = [pc EXCEPT ![c] = IF c = "B" THEN "disarm" ELSE "catch"]
     ELSE pc' = [pc EXCEPT ![c] = "catch"] /\ UNCHANGED poisoned

(* A device error, or a hang, wherever the thread works. *)
Fault(c) ==
  /\ Try(c) /\ faults < MaxFaults
  /\ faults' = faults + 1
  /\ \/ Leave(c, "failed")
     \/ /\ pc' = [pc EXCEPT ![c] = "hung"] /\ UNCHANGED <<error, poisoned>>
  /\ UNCHANGED <<call, phase, step, pipes, copies, stageVars, adopted, dirty>>

(* What card c waits for, or publishes and consumes in, is poisoned. *)
SeesPoison(c) ==
  \/ pc[c] \in {"export", "publish"} /\ Exporting(c) /\ Pipe(c) \in poisoned
  \/ pc[c] \in {"import", "consume"} /\ Importing(c) /\ Pipe(Peer(c)) \in poisoned
  \/ pc[c] = "stage" /\ "channel" \in poisoned
  \/ pc[c] = "wait" /\ "gate" \in poisoned

(* IsPoisonConsequence turns the error into a TpAbortedError. *)
Poisoned(c) ==
  /\ SeesPoison(c)
  /\ Leave(c, "aborted")
  /\ UNCHANGED <<call, phase, step, pipes, copies, stageVars, adopted, dirty, faults>>

(* A wait whose condition does not hold. *)
\* Mutant: the gate is waited for without a time-out.
WaitsGateForever(c) ==
  \/ pc[c] = "export" /\ Exporting(c) /\ ~SlotFree(c, OutBatch(c))
  \/ pc[c] = "import" /\ Importing(c) /\ published[Peer(c)] <= InBatch(c)
  \/ c = "A" /\ pc[c] = "stage" /\ sent < Chunks /\ sent - taken >= ChanSlots
  \/ c = "B" /\ pc[c] = "stage" /\ (CaptureTail => armed) /\ taken < Chunks /\ taken = sent
Waits(c) ==
  \/ pc[c] = "export" /\ Exporting(c) /\ ~SlotFree(c, OutBatch(c))
  \/ pc[c] = "import" /\ Importing(c) /\ published[Peer(c)] <= InBatch(c)
  \/ c = "A" /\ pc[c] = "stage" /\ sent < Chunks /\ sent - taken >= ChanSlots
  \/ c = "B" /\ pc[c] = "stage" /\ (CaptureTail => armed) /\ taken < Chunks /\ taken = sent
  \/ pc[c] = "wait" /\ ~open

(* The error a time-out leaves: not a consequence of the peer's. *)
TimeoutError == "failed"

Timeout(c) ==
  /\ Waits(c) /\ ~SeesPoison(c)
  /\ Leave(c, TimeoutError)
  /\ UNCHANGED <<call, phase, step, pipes, copies, stageVars, adopted, dirty, faults>>

(* The handler: PoisonAll, object by object, in HyCall's order. *)
PoisonOrder == <<"channel", "pipeA", "pipeB", "gate">>

PoisonAll(c) ==
  /\ pc[c] = "catch"
  /\ \/ \E k \in 1..Len(PoisonOrder) :
          /\ PoisonOrder[k] \notin poisoned
          /\ \A j \in 1..k - 1 : PoisonOrder[j] \in poisoned
          /\ poisoned' = poisoned \cup {PoisonOrder[k]}
          /\ UNCHANGED pc
     \/ /\ \A k \in 1..Len(PoisonOrder) : PoisonOrder[k] \in poisoned
        /\ pc' = [pc EXCEPT ![c] = "drain"]
        /\ UNCHANGED poisoned
  /\ UNCHANGED <<call, phase, step, pipes, copies, stageVars, endVars>>

(* Then both streams are synced, the stage Model's first; if that throws,  *)
(* the handler swallows it and the rank Model's stream is left alone. A    *)
(* gather exports from the rank and imports into the stage, a scatter the  *)
(* other way round.                                                        *)
Synced(c) == writing' = [writing EXCEPT ![c] = None] /\ reading' = [reading EXCEPT ![c] = None]

Drain(c) ==
  /\ pc[c] = "drain"
  /\ pc' = [pc EXCEPT ![c] = "ended"]
  /\ \/ Synced(c) /\ UNCHANGED <<dirty, faults>>
     \/ /\ faults < MaxFaults
        /\ faults' = faults + 1
        /\ dirty' = dirty \cup {c}
        /\ IF phase[c] = "scatter"
           THEN writing' = [writing EXCEPT ![c] = None] /\ UNCHANGED reading
           ELSE reading' = [reading EXCEPT ![c] = None] /\ UNCHANGED writing
  /\ UNCHANGED <<call, phase, step, pipes, ring, got, stageVars, poisoned, adopted, error>>

-----------------------------------------------------------------------------
Init ==
  /\ n \in [Phases -> [Cards -> BatchCounts]]
  /\ pc = [c \in Cards |-> "begin"] /\ step = [c \in Cards |-> 0]
  /\ phase = [c \in Cards |-> "gather"]
  /\ published = [c \in Cards |-> 0] /\ consumed = [c \in Cards |-> 0]
  /\ ring = [c \in Cards |-> [s \in 0..Slots - 1 |-> None]]
  /\ writing = [c \in Cards |-> None] /\ reading = [c \in Cards |-> None]
  /\ got = [c \in Cards |-> <<>>]
  /\ sent = 0 /\ taken = 0 /\ open = FALSE /\ armed = FALSE
  /\ poisoned = {} /\ adopted = {} /\ dirty = {}
  /\ error = [c \in Cards |-> "none"] /\ faults = 0

Lockstep(c) ==
  Skip(c) \/ ExportEnqueue(c) \/ ImportEnqueue(c) \/ Publish(c) \/ Consume(c)

(* What a thread does on its own. *)
Thread(c) ==
  \/ Begin(c) \/ Lockstep(c) \/ Adopt(c)
  \/ c = "A" /\ StageA
  \/ c = "B" /\ (Arm \/ StageB \/ Disarm)
  \/ Poisoned(c) \/ PoisonAll(c) \/ Drain(c)

Next == \E c \in Cards : Thread(c) \/ Timeout(c) \/ Fault(c)

Spec == Init /\ [][Next]_vars

(* A thread that is not hung runs on, and a wait that is never satisfied   *)
(* times out (condition_variable::wait_for with the step time-out).        *)
FairSpec == Spec /\ \A c \in Cards : WF_vars(Thread(c)) /\ WF_vars(Timeout(c))

-----------------------------------------------------------------------------
Points == {"begin", "export", "import", "publish", "consume", "stage", "disarm", "wait",
           "catch", "drain", "ended", "hung"}

TypeOK ==
  /\ n \in [Phases -> [Cards -> Nat]]
  /\ pc \in [Cards -> Points] /\ phase \in [Cards -> Phases] /\ step \in [Cards -> Nat]
  /\ published \in [Cards -> Nat] /\ consumed \in [Cards -> Nat]
  /\ ring \in [Cards -> [0..Slots - 1 -> Int]]
  /\ writing \in [Cards -> Int] /\ reading \in [Cards -> Int] /\ got \in [Cards -> Seq(Int)]
  /\ sent \in 0..Chunks /\ taken \in 0..sent /\ sent - taken <= ChanSlots
  /\ open \in BOOLEAN /\ armed \in BOOLEAN
  /\ poisoned \subseteq Shared /\ adopted \subseteq Cards /\ dirty \subseteq Cards
  /\ error \in [Cards -> {"none", "failed", "aborted"}] /\ faults \in Nat

(* The rings, with their asynchronous copies, slots and phases, carry each *)
(* card's batches to the other in order, whole, once, and with at most     *)
(* Slots under way: the reshard implements ReshardTransfer (RingPipe's     *)
(* "FIFO" contract; no slot is refilled while it is still being read, the  *)
(* next phase included).                                                   *)
Way == [c \in Cards |-> [k \in 1..published[c] - consumed[c] |-> ring[c][(consumed[c] + k - 1) % Slots]]]
Transfer == INSTANCE ReshardTransfer WITH Depth <- Slots, way <- Way
Implements == Transfer!Spec

(* No stage computes before its whole gather has arrived, and no rank      *)
(* adopts the end state before it exists and every batch of both phases is *)
(* in (HybridMain's steps 2 to 5, with no barrier between the threads).    *)
PhasesAreWhole ==
  \A c \in Cards :
    LET p == Peer(c)
    IN  /\ pc[c] = "stage" => Len(got[c]) = n["gather"][p] /\ published[c] = n["gather"][c]
        /\ c \in adopted => /\ got[c] = [k \in 1..n["gather"][p] + n["scatter"][p] |-> k - 1]
                            /\ open /\ taken = Chunks

(* The two threads never wait for each other: as long as neither hangs,    *)
(* one of them can go on without a time-out (hybrid_ring.h's "it cannot    *)
(* deadlock", with the stage channel and the gate besides the rings). Nor  *)
(* does a thread that failed leave the other one waiting: its handler      *)
(* "frees the other thread wherever it waits" (HybridMain).                *)
Stuck(c) == pc[c] = "ended" \/ (Waits(c) /\ ~SeesPoison(c))
SomeoneMoves ==
  (\A c \in Cards : pc[c] # "hung") =>
    (\A c \in Cards : pc[c] = "ended") \/ \E c \in Cards : ~Stuck(c)

(* A thread that is out leaves nothing behind for the next call: no copy   *)
(* into or out of the rings under way unless its sync failed, no armed     *)
(* tail capture; and one of the two reports the root cause of a failure.   *)
LeavesNothing ==
  /\ \A c \in Cards : pc[c] = "ended" /\ c \notin dirty => writing[c] = None /\ reading[c] = None
  /\ pc["B"] = "ended" => ~armed
  /\ (\A c \in Cards : pc[c] = "ended") /\ adopted # Cards => \E c \in Cards : error[c] = "failed"

(* Every thread that does not hang in the device comes back. *)
EveryThreadEnds == \A c \in Cards : <>(pc[c] \in {"ended", "hung"})

-----------------------------------------------------------------------------
(* The inductive invariant behind Implements, PhasesAreWhole, SomeoneMoves *)
(* and LeavesNothing (HybridCallProofs).                                   *)

(* The batches between consumed and published lie in their slots, and what *)
(* the peer got are the batches before them.                               *)
RingOf(c) ==
  /\ consumed[c] <= published[c] /\ published[c] <= consumed[c] + Slots
  /\ got[Peer(c)] = [k \in 1..consumed[c] |-> k - 1]
  /\ \A b \in consumed[c]..published[c] - 1 : ring[c][b % Slots] = b
RingsHold == \A c \in Cards : RingOf(c)

(* How far the pipes are at each point of a card's own work: its point     *)
(* alone says what it published and what it consumed from the peer.        *)
InLoop == {"export", "import", "publish", "consume"}
AtMost(i, m) == IF i < m THEN i ELSE m
Total(c) == n["gather"][c] + n["scatter"][c]
Moved(c, out, in) == published[c] = out /\ consumed[Peer(c)] = in

PositionOf(c) ==
  LET p == Peer(c)
      ph == phase[c]
  IN  /\ pc[c] = "begin" => Moved(c, 0, 0) /\ ph = "gather"
      /\ pc[c] \in {"begin", "stage", "disarm"} /\ error[c] = "none" => step[c] = 0
      /\ pc[c] \in InLoop =>
           /\ step[c] < Steps(c, ph)
           /\ Moved(c, Base(c, ph) + AtMost(IF pc[c] = "consume" THEN step[c] + 1 ELSE step[c], n[ph][c]),
                       Base(p, ph) + AtMost(IF step[c] = 0 THEN 0 ELSE step[c] - 1, n[ph][p]))
      /\ pc[c] \in {"stage", "disarm"} /\ error[c] = "none" => Moved(c, n["gather"][c], n["gather"][p])
      /\ pc[c] = "wait" \/ c \in adopted => Moved(c, Total(c), Total(p))
Position == \A c \in Cards : PositionOf(c)

(* The copies a card has under way at each point, and why they are safe:   *)
(* the slot written is free, the batch read is published.                  *)
CopiesOf(c) ==
  /\ pc[c] \in {"begin", "stage", "wait"} \/ (pc[c] = "disarm" /\ error[c] = "none")
       => writing[c] = None /\ reading[c] = None
  /\ pc[c] \in InLoop =>
       /\ IF pc[c] \in {"import", "publish"} /\ Exporting(c)
            THEN writing[c] = OutBatch(c) /\ SlotFree(c, OutBatch(c))
            ELSE writing[c] = None
       /\ IF pc[c] \in {"publish", "consume"} /\ Importing(c)
            THEN reading[c] = InBatch(c) /\ published[Peer(c)] > InBatch(c)
            ELSE reading[c] = None
  /\ pc[c] = "ended" /\ c \notin dirty => writing[c] = None /\ reading[c] = None
Copies == \A c \in Cards : CopiesOf(c)

(* The stage prefill: the scatter follows the last chunk, on card B the    *)
(* end state too, and the tail capture lives in RunStageB alone.           *)
Running(c) == pc[c] \in InLoop \cup {"begin", "stage", "wait"}
AfterStage(c) == (pc[c] \in InLoop /\ phase[c] = "scatter") \/ pc[c] = "wait" \/ c \in adopted

Stages ==
  /\ AfterStage("A") => sent = Chunks
  /\ AfterStage("B") => open
  /\ open => taken = Chunks
  /\ pc["B"] = "disarm" /\ error["B"] = "none" => taken = Chunks
  /\ armed => pc["B"] \in {"stage", "disarm", "hung"}
  /\ pc["A"] # "disarm"

(* Who fails, who was poisoned, and who is through.                        *)
Failures ==
  /\ \A c \in Cards :
       /\ Running(c) => error[c] = "none"
       /\ pc[c] \in {"catch", "drain"} => error[c] # "none"
       /\ pc[c] = "ended" /\ error[c] = "none" => c \in adopted
       /\ c \in adopted => pc[c] = "ended" /\ open
       /\ pc[c] = "drain" \/ (pc[c] = "ended" /\ c \notin adopted) => poisoned = Shared
  /\ poisoned # {} \/ (\E c \in Cards : error[c] # "none") => \E c \in Cards : error[c] = "failed"

IInv == TypeOK /\ RingsHold /\ Position /\ Copies /\ Stages /\ Failures
=============================================================================
