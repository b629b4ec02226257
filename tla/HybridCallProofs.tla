-------------------------- MODULE HybridCallProofs --------------------------
(***************************************************************************)
(* For every ring size, every number of batches and chunks and any faults: *)
(* the rings of a pipelined call implement ReshardTransfer, no phase is    *)
(* computed from a part of its batches, neither thread waits for the other *)
(* and nothing is left behind.  The proof is the invariance of             *)
(* HybridCall!IInv, one lemma per conjunct.                                *)
(***************************************************************************)
EXTENDS HybridCall, TLAPS, SequenceTheorems

(* The two cards are each other's peer. *)
LEMMA Peers ==
  ASSUME NEW c \in Cards
  PROVE  Peer(c) \in Cards /\ Peer(c) # c /\ Peer(Peer(c)) = c
  BY DEF Cards, Peer

(* The larger of two numbers of batches. *)
LEMMA MaxOfTwo ==
  ASSUME NEW a \in Nat, NEW b \in Nat
  PROVE  Max({a, b}) = IF a < b THEN b ELSE a
  <1> DEFINE m == IF a < b THEN b ELSE a
  <1>1. m \in {a, b} /\ \A y \in {a, b} : m >= y
    OBVIOUS
  <1>2. \A x \in {a, b} : (\A y \in {a, b} : x >= y) => x = m
    OBVIOUS
  <1> HIDE DEF m
  <1>3. Max({a, b}) = m
    BY <1>1, <1>2 DEF Max
  <1> QED BY <1>3 DEF m

(* RunLockstep's loop exports in out steps and needs one more than the     *)
(* peer's batches to import them.                                          *)
LEMMA StepsAre ==
  ASSUME NEW out \in Nat, NEW in \in Nat
  PROVE  LockstepSteps(out, in) = IF in = 0 \/ in < out THEN out ELSE in + 1
  <1>1. (IF in > 0 THEN in + 1 ELSE 0) \in Nat
    OBVIOUS
  <1> QED BY <1>1, MaxOfTwo DEF LockstepSteps

(* Batches that are less than a ring apart lie in different slots. *)
LEMMA SlotsDiffer ==
  ASSUME NEW a \in Nat, NEW b \in Nat, a < b, b - a < Slots
  PROVE  a % Slots # b % Slots
  <1> SUFFICES ASSUME a % Slots = b % Slots PROVE FALSE
    OBVIOUS
  <1> DEFINE i == a \div Slots
             j == b \div Slots
             r == a % Slots
  <1>1. /\ i \in Int /\ j \in Int /\ r \in Int /\ Slots \in Nat
        /\ a = Slots * i + r /\ b = Slots * j + r
    BY RingAssumption
  <1> HIDE DEF i, j, r
  <1>2. b - a = Slots * (j - i)
    <2>1. b - a = Slots * j - Slots * i
      BY <1>1
    <2> QED BY <1>1, <2>1
  <1>3. CASE j - i <= 0
    <2>1. Slots * (j - i) <= 0
      BY <1>1, <1>3
    <2> QED BY <1>2, <2>1
  <1>4. CASE j - i >= 1
    <2> DEFINE k == j - i - 1
    <2>2. k \in Nat /\ j - i = k + 1
      BY <1>1, <1>4
    <2> HIDE DEF k
    <2>3. Slots * (k + 1) = Slots * k + Slots /\ Slots * k >= 0
      BY <1>1, <2>2
    <2>4. Slots * (j - i) = Slots * k + Slots /\ Slots * k \in Int
      BY <1>1, <2>2, <2>3
    <2> QED BY <1>1, <1>2, <2>3, <2>4
  <1> QED BY <1>1, <1>3, <1>4

(* What an empty slot holds is a number no batch has. *)
LEMMA NoneIsInt == None \in Int /\ \A b \in Nat : b # None
  BY DEF None

(* PoisonAll poisons the four shared objects. *)
LEMMA PoisonOrders ==
  /\ 1..Len(PoisonOrder) = 1..4
  /\ \A k \in 1..4 : PoisonOrder[k] \in Shared
  /\ Shared = {PoisonOrder[k] : k \in 1..4}
  BY DEF PoisonOrder, Shared

(* A batch number has a slot. *)
LEMMA SlotOf ==
  ASSUME NEW b \in Int
  PROVE  b % Slots \in 0..Slots - 1
  BY RingAssumption

(* The steps of the specification. *)
LEMMA StepCases ==
  ASSUME [Next]_vars
  PROVE  \/ \E c \in Cards :
              \/ Lockstep(c)
              \/ Poisoned(c) \/ Timeout(c) \/ Fault(c)
              \/ Begin(c) \/ Adopt(c) \/ PoisonAll(c) \/ Drain(c)
         \/ StageA \/ Arm \/ StageB \/ Disarm
         \/ UNCHANGED vars
  BY DEF Next, Thread

(* Writing a slot keeps the rings rings. *)
LEMMA RingPut ==
  ASSUME NEW f \in [Cards -> [0..Slots - 1 -> Int]], NEW c \in Cards, NEW x, NEW v \in Int
  PROVE  [f EXCEPT ![c][x] = v] \in [Cards -> [0..Slots - 1 -> Int]]
  <1>1. [f[c] EXCEPT ![x] = v] \in [0..Slots - 1 -> Int]
    OBVIOUS
  <1> QED BY <1>1

(* The points and batch numbers of RunLockstep are of their types. *)
LEMMA GoTypes ==
  ASSUME TypeOK, NEW c \in Cards, pc[c] \in InLoop, Go(c)
  PROVE  pc' \in [Cards -> Points] /\ step' \in [Cards -> Nat] /\ phase' \in [Cards -> Phases]
  <1>1. AfterPhase(phase[c]) \in Points /\ {"export", "import", "publish", "consume"} \subseteq Points
    BY DEF AfterPhase, Points
  <1>2. step[c] \in Nat /\ step[c] + 1 \in Nat /\ 0 \in Nat
    BY DEF TypeOK
  <1>3. phase' \in [Cards -> Phases]
    BY DEF Go, TypeOK
  <1>4. step' \in [Cards -> Nat]
    BY <1>2 DEF Go, TypeOK
  <1>5. pc' \in [Cards -> Points]
    BY <1>1 DEF Go, TypeOK
  <1> QED BY <1>3, <1>4, <1>5

(* So is the point at which a phase begins. *)
LEMMA FirstTypes ==
  ASSUME NEW c \in Cards, NEW ph \in Phases
  PROVE  FirstPoint(c, ph) \in Points
  BY DEF FirstPoint, AfterPhase, Points

(* The numbers the batches of the current phase are computed from. *)
LEMMA BatchTypes ==
  ASSUME TypeOK, NEW c \in Cards
  PROVE  /\ Base(c, phase[c]) \in Nat /\ Base(Peer(c), phase[c]) \in Nat
         /\ n[phase[c]][c] \in Nat /\ n[phase[c]][Peer(c)] \in Nat
         /\ step[c] \in Nat
         /\ OutBatch(c) \in Nat /\ InBatch(c) \in Int
         /\ Importing(c) => InBatch(c) \in Nat
  <1>1. Peer(c) \in Cards /\ "gather" \in Phases /\ phase[c] \in Phases
    BY Peers DEF TypeOK, Phases
  <1>2. \A d \in Cards, ph \in Phases : n[ph][d] \in Nat
    BY DEF TypeOK
  <1>3. Base(c, phase[c]) \in Nat /\ Base(Peer(c), phase[c]) \in Nat
    BY <1>1, <1>2 DEF Base
  <1>4. step[c] \in Nat
    BY DEF TypeOK
  <1> QED BY <1>1, <1>2, <1>3, <1>4 DEF OutBatch, InBatch, Importing

(* Every variable keeps its type. *)
LEMMA TypeStep == IInv /\ [Next]_vars => TypeOK'
  <1> SUFFICES ASSUME TypeOK, [Next]_vars PROVE TypeOK'
    BY DEF IInv
  <1>1. ASSUME NEW c \in Cards, Begin(c) PROVE TypeOK'
    <2>1. FirstPoint(c, "gather") \in Points
      BY FirstTypes DEF Phases
    <2> QED BY <1>1, <2>1 DEF Begin, TypeOK, call, pipes, copies, stageVars,
      endVars
  <1>2. ASSUME NEW c \in Cards, Skip(c) PROVE TypeOK'
    <2>1. pc[c] \in InLoop /\ Go(c)
      BY <1>2 DEF Skip, InLoop
    <2>2. TRUE
      BY <1>2, BatchTypes, NoneIsInt DEF Skip, TypeOK
    <2> QED BY <1>2, <2>1, <2>2, GoTypes DEF Skip, TypeOK, call, pipes,
      copies, stageVars, endVars
  <1>3. ASSUME NEW c \in Cards, ExportEnqueue(c) PROVE TypeOK'
    <2>1. pc[c] \in InLoop /\ Go(c)
      BY <1>3 DEF ExportEnqueue, InLoop
    <2>2. ring' \in [Cards -> [0..Slots - 1 -> Int]]
      BY <1>3, RingPut, NoneIsInt DEF ExportEnqueue, TypeOK
    <2>3. writing' \in [Cards -> Int]
      BY <1>3, BatchTypes DEF ExportEnqueue, TypeOK
    <2> QED BY <1>3, <2>1, <2>2, <2>3, GoTypes DEF ExportEnqueue, TypeOK, call,
      pipes, copies, stageVars, endVars
  <1>4. ASSUME NEW c \in Cards, ImportEnqueue(c) PROVE TypeOK'
    <2>1. pc[c] \in InLoop /\ Go(c)
      BY <1>4 DEF ImportEnqueue, InLoop
    <2>2. reading' \in [Cards -> Int]
      BY <1>4, BatchTypes, NoneIsInt DEF ImportEnqueue, TypeOK
    <2> QED BY <1>4, <2>1, <2>2, GoTypes DEF ImportEnqueue, TypeOK, call,
      pipes, copies, stageVars, endVars
  <1>5. ASSUME NEW c \in Cards, Publish(c) PROVE TypeOK'
    <2>1. pc[c] \in InLoop /\ Go(c)
      BY <1>5 DEF Publish, InLoop
    <2>2. ring' \in [Cards -> [0..Slots - 1 -> Int]]
      BY <1>5, RingPut DEF Publish, TypeOK
    <2>3. writing' \in [Cards -> Int] /\ published' \in [Cards -> Nat]
      BY <1>5, NoneIsInt DEF Publish, TypeOK
    <2> QED BY <1>5, <2>1, <2>2, <2>3, GoTypes DEF Publish, TypeOK, call, pipes,
      copies, stageVars, endVars
  <1>6. ASSUME NEW c \in Cards, Consume(c) PROVE TypeOK'
    <2>1. pc[c] \in InLoop /\ Go(c)
      BY <1>6 DEF Consume, InLoop
    <2>2. Peer(c) \in Cards
      BY Peers
    <2>3. reading' \in [Cards -> Int]
      BY <1>6, NoneIsInt DEF Consume, TypeOK
    <2>6. consumed' \in [Cards -> Nat]
      <3>1. consumed' = [consumed EXCEPT ![Peer(c)] = @ + 1]
        BY <1>6 DEF Consume
      <3>2. consumed \in [Cards -> Nat]
        BY DEF TypeOK
      <3>3. consumed[Peer(c)] + 1 \in Nat
        BY <2>2, <3>2
      <3> QED BY <2>2, <3>1, <3>2, <3>3
    <2>4. ring[Peer(c)][reading[c] % Slots] \in Int
      <3>1. reading[c] % Slots \in 0..Slots - 1
        BY SlotOf DEF TypeOK
      <3>2. ring[Peer(c)] \in [0..Slots - 1 -> Int]
        BY <2>2 DEF TypeOK
      <3> QED BY <3>1, <3>2
    <2>5. got' \in [Cards -> Seq(Int)]
      BY <1>6, <2>4 DEF Consume, TypeOK
    <2> QED BY <1>6, <2>1, <2>3, <2>6, <2>5, GoTypes DEF Consume, TypeOK,
      call, stageVars, endVars
  <1>7. ASSUME NEW c \in Cards, Adopt(c) PROVE TypeOK'
    BY <1>7 DEF Adopt, TypeOK, call, pipes, copies, stageVars, Points
  <1>8. ASSUME NEW c \in Cards, Poisoned(c) PROVE TypeOK'
    <2>1. pc' \in [Cards -> Points] /\ error' \in [Cards -> {"none", "failed",
      "aborted"}]
          /\ poisoned' \subseteq Shared
      BY <1>8 DEF Poisoned, Leave, TypeOK, Points, Shared, TimeoutError
    <2> QED BY <1>8, <2>1 DEF Poisoned, TypeOK, call, pipes, copies,
      stageVars, endVars
  <1>9. ASSUME NEW c \in Cards, PoisonAll(c) PROVE TypeOK'
    BY <1>9, PoisonOrders DEF PoisonAll, TypeOK, call, pipes, copies,
       stageVars, endVars, Points
  <1>10. ASSUME NEW c \in Cards, Drain(c) PROVE TypeOK'
    <2>1. writing' \in [Cards -> Int] /\ reading' \in [Cards -> Int]
      BY <1>10, NoneIsInt DEF Drain, Synced, TypeOK
    <2>2. pc' \in [Cards -> Points] /\ dirty' \subseteq Cards /\ faults' \in Nat
      BY <1>10 DEF Drain, TypeOK, Points
    <2> QED BY <1>10, <2>1, <2>2 DEF Drain, TypeOK, call, pipes, stageVars
  <1>11. ASSUME NEW c \in Cards, Timeout(c) PROVE TypeOK'
    <2>1. pc' \in [Cards -> Points] /\ error' \in [Cards -> {"none", "failed",
      "aborted"}]
          /\ poisoned' \subseteq Shared
      BY <1>11 DEF Timeout, Leave, TypeOK, Points, Shared, TimeoutError
    <2> QED BY <1>11, <2>1 DEF Timeout, TypeOK, call, pipes, copies,
      stageVars, endVars
  <1>12. ASSUME NEW c \in Cards, Fault(c) PROVE TypeOK'
    <2>1. pc' \in [Cards -> Points] /\ error' \in [Cards -> {"none", "failed",
      "aborted"}]
          /\ poisoned' \subseteq Shared
      <3>1. CASE Leave(c, "failed")
        BY <3>1 DEF Leave, TypeOK, Points, Shared
      <3>2. CASE pc' = [pc EXCEPT ![c] = "hung"] /\ UNCHANGED <<error, poisoned>>
        BY <3>2 DEF TypeOK, Points
      <3> QED BY <1>12, <3>1, <3>2 DEF Fault
    <2>2. faults' \in Nat
      BY <1>12 DEF Fault, TypeOK
    <2>3. /\ UNCHANGED <<n, phase, step, published, consumed, ring, writing, reading, got, sent, taken,
                        open, armed, adopted, dirty>>
      BY <1>12 DEF Fault, call, pipes, copies, stageVars
    <2> QED BY <2>1, <2>2, <2>3 DEF TypeOK
  <1>13. CASE StageA
    <2>1. pc' \in [Cards -> Points] /\ phase' \in [Cards -> Phases]
      BY <1>13, FirstTypes, "A" \in Cards DEF StageA, TypeOK, Points, Phases,
         Cards
    <2>2. sent' \in 0..Chunks /\ taken \in 0..sent' /\ sent' - taken <= ChanSlots
      BY <1>13, RingAssumption DEF StageA, TypeOK
    <2> QED BY <1>13, <2>1, <2>2 DEF StageA, TypeOK, call, pipes, copies,
      stageVars, endVars
  <1>14. CASE Arm
    BY <1>14 DEF Arm, TypeOK, call, pipes, copies, endVars
  <1>15. CASE StageB
    <2>1. pc' \in [Cards -> Points] /\ phase' \in [Cards -> Phases]
      BY <1>15, FirstTypes, "B" \in Cards DEF StageB, TypeOK, Points, Phases,
         Cards
    <2>2. taken' \in 0..sent /\ sent - taken' <= ChanSlots
      BY <1>15, RingAssumption DEF StageB, TypeOK
    <2> QED BY <1>15, <2>1, <2>2 DEF StageB, TypeOK, call, pipes, copies,
      stageVars, endVars
  <1>16. CASE Disarm
    <2>1. pc' \in [Cards -> Points] /\ phase' \in [Cards -> Phases]
      <3>1. FirstPoint("B", "scatter") \in Points /\ "catch" \in Points /\ "scatter" \in Phases
        BY FirstTypes DEF Points, Phases, Cards
      <3>2. phase' \in [Cards -> Phases]
        BY <1>16, <3>1 DEF Disarm, TypeOK
      <3>3. pc' \in [Cards -> Points]
        BY <1>16, <3>1 DEF Disarm, TypeOK
      <3> QED BY <3>2, <3>3
    <2>2. open' \in BOOLEAN
      BY <1>16, RingAssumption DEF Disarm, TypeOK
    <2> QED BY <1>16, <2>1, <2>2 DEF Disarm, TypeOK, call, pipes, copies,
      stageVars, endVars
  <1>17. CASE UNCHANGED vars
    BY <1>17 DEF vars, TypeOK
  <1> QED
    BY StepCases, <1>1, <1>2, <1>3, <1>4, <1>5, <1>6, <1>7, <1>8, <1>9, <1>10,
       <1>11, <1>12, <1>13, <1>14, <1>15, <1>16, <1>17 DEF Lockstep

(* What the five actions of RunLockstep have in common. *)
LEMMA LoopStep ==
  ASSUME TypeOK, NEW c \in Cards, Lockstep(c)
  PROVE  /\ pc[c] \in InLoop /\ Go(c)
         /\ UNCHANGED <<n, phase, sent, taken, open, armed, poisoned, adopted, error, dirty, faults>>
         /\ \A d \in Cards : d # c => pc'[d] = pc[d] /\ step'[d] = step[d]
         /\ pc'[c] \in InLoop \cup {"stage", "wait"}
         /\ pc'[c] = "stage" => phase[c] = "gather"
         /\ pc'[c] = "wait" => phase[c] = "scatter"
  <1>1. /\ pc[c] \in InLoop /\ Go(c)
        /\ UNCHANGED <<n, sent, taken, open, armed, poisoned, adopted, error, dirty, faults>>
    BY DEF Lockstep, Skip, ExportEnqueue, ImportEnqueue, Publish, Consume, InLoop, call,
           pipes, copies, stageVars, endVars
  <1>2. UNCHANGED phase
    BY <1>1 DEF Go
  <1>3. \A d \in Cards : d # c => pc'[d] = pc[d] /\ step'[d] = step[d]
    BY <1>1 DEF Go, TypeOK
  <1>4. pc'[c] \in InLoop \cup {AfterPhase(phase[c])} /\ (pc'[c] \in InLoop \/ pc'[c] = AfterPhase(phase[c]))
    BY <1>1 DEF Go, TypeOK, InLoop
  <1>5. phase[c] \in {"gather", "scatter"}
    BY DEF TypeOK, Phases
  <1> QED BY <1>1, <1>2, <1>3, <1>4, <1>5 DEF AfterPhase, InLoop

(* What the three ways out of the try block have in common. *)
LEMMA LeaveStep ==
  ASSUME TypeOK, NEW c \in Cards, Poisoned(c) \/ Timeout(c) \/ Fault(c)
  PROVE  /\ Running(c)
         /\ UNCHANGED <<n, phase, step, published, consumed, ring, writing, reading, got, sent, taken,
                        open, armed, adopted, dirty>>
         /\ \A d \in Cards : d # c => pc'[d] = pc[d] /\ error'[d] = error[d]
         /\ \/ pc'[c] = "hung" /\ UNCHANGED <<error, poisoned>>
            \/ /\ error'[c] \in {"failed", "aborted"}
               /\ error'[c] = "aborted" => poisoned # {}
               /\ IF pc[c] = "stage"
                  THEN poisoned' = poisoned \cup {"channel"} /\ pc'[c] = IF c = "B" THEN "disarm" ELSE "catch"
                  ELSE poisoned' = poisoned /\ pc'[c] = "catch"
  <1>1. Running(c)
    <2>1. SeesPoison(c) \/ Waits(c) => Running(c)
      BY DEF SeesPoison, Waits, Running, InLoop
    <2>2. Try(c) => Running(c)
      BY DEF Try, Running, InLoop, TypeOK, Points
    <2> QED BY <2>1, <2>2 DEF Poisoned, Timeout, Fault
  <1>2. UNCHANGED <<n, phase, step, published, consumed, ring, writing, reading, got, sent, taken,
                    open, armed, adopted, dirty>>
    BY DEF Poisoned, Timeout, Fault, call, pipes, copies, stageVars
  <1>3. \/ pc' = [pc EXCEPT ![c] = "hung"] /\ UNCHANGED <<error, poisoned>>
        \/ Leave(c, "failed")
        \/ Leave(c, "aborted") /\ poisoned # {}
    BY DEF Poisoned, Timeout, Fault, TimeoutError, SeesPoison
  <1> QED BY <1>1, <1>2, <1>3 DEF Leave, TypeOK

(* The stage prefill ends on both cards before either scatters. *)
LEMMA StagesStep == IInv /\ [Next]_vars => Stages'
  <1> SUFFICES ASSUME TypeOK, Stages, Failures, Position, [Next]_vars PROVE Stages'
    BY DEF IInv
  <1> USE DEF AfterStage, InLoop, Cards
  <1>1. ASSUME NEW c \in Cards, Lockstep(c) PROVE Stages'
    BY <1>1, LoopStep DEF Stages
  <1>2. ASSUME NEW c \in Cards, Poisoned(c) \/ Timeout(c) \/ Fault(c) PROVE Stages'
    BY <1>2, LeaveStep DEF Stages, Running
  <1>3. ASSUME NEW c \in Cards, Begin(c) PROVE Stages'
    <2>1. phase[c] = "gather" /\ FirstPoint(c, "gather") \in {"export", "stage"}
      BY <1>3 DEF Begin, Position, PositionOf, FirstPoint, AfterPhase
    <2> QED BY <1>3, <2>1 DEF Begin, Stages, TypeOK, stageVars, endVars
  <1>4. ASSUME NEW c \in Cards, Adopt(c) PROVE Stages'
    BY <1>4 DEF Adopt, Stages, TypeOK, stageVars
  <1>5. ASSUME NEW c \in Cards, PoisonAll(c) PROVE Stages'
    BY <1>5 DEF PoisonAll, Stages, TypeOK, stageVars, endVars
  <1>6. ASSUME NEW c \in Cards, Drain(c) PROVE Stages'
    BY <1>6 DEF Drain, Stages, TypeOK, stageVars
  <1>7. CASE StageA
    <2>1. FirstPoint("A", "scatter") \in {"export", "wait"}
      BY DEF FirstPoint, AfterPhase
    <2>2. AfterStage("A")' => sent' = Chunks
      BY <1>7, <2>1 DEF StageA, TypeOK, endVars, Failures
    <2>3. AfterStage("B")' = AfterStage("B")
      BY <1>7 DEF StageA, TypeOK, endVars
    <2> QED BY <1>7, <2>1, <2>2, <2>3 DEF StageA, Stages, TypeOK, endVars
  <1>8. CASE Arm
    BY <1>8 DEF Arm, Stages, TypeOK, endVars
  <1>9. CASE StageB
    <2>1. AfterStage("A")' = AfterStage("A") /\ ~AfterStage("B") /\ ~AfterStage("B")'
      BY <1>9 DEF StageB, TypeOK, endVars, Failures
    <2>2. Chunks \in Nat /\ taken \in Nat /\ sent \in Nat /\ sent <= Chunks
      BY RingAssumption DEF TypeOK
    <2>3. open => taken' = Chunks
      BY <1>9, <2>2 DEF StageB, Stages
    <2> QED BY <1>9, <2>1, <2>3 DEF StageB, Stages, TypeOK, endVars
  <1>10. CASE Disarm
    <2>1. FirstPoint("B", "scatter") \in {"export", "wait"}
      BY DEF FirstPoint, AfterPhase
    <2> QED BY <1>10, <2>1 DEF Disarm, Stages, TypeOK, endVars
  <1>11. CASE UNCHANGED vars
    BY <1>11 DEF vars, Stages
  <1> QED
    BY StepCases, <1>1, <1>2, <1>3, <1>4, <1>5, <1>6, <1>7, <1>8, <1>9, <1>10, <1>11

(* A thread that fails poisons what the other waits for, and the first one *)
(* to fail is the root cause. *)
LEMMA FailuresStep == IInv /\ [Next]_vars => Failures'
  <1> SUFFICES ASSUME TypeOK, Failures, [Next]_vars PROVE Failures'
    BY DEF IInv
  <1> USE DEF InLoop, Cards, Running
  <1>1. ASSUME NEW c \in Cards, Lockstep(c) PROVE Failures'
    BY <1>1, LoopStep DEF Failures
  <1>2. ASSUME NEW c \in Cards, Poisoned(c) \/ Timeout(c) \/ Fault(c) PROVE Failures'
    <2>1. error[c] = "none" /\ c \notin adopted
      BY <1>2, LeaveStep DEF Failures
    <2>2. \A d \in Cards : d # c => pc'[d] = pc[d] /\ error'[d] = error[d]
      BY <1>2, LeaveStep
    <2>3. poisoned \subseteq poisoned' /\ poisoned' \subseteq Shared /\ UNCHANGED <<adopted, open>>
      BY <1>2, LeaveStep DEF TypeOK, Shared
    <2>4. \/ pc'[c] = "hung" /\ UNCHANGED <<error, poisoned>>
          \/ /\ pc'[c] \in {"catch", "disarm"} /\ error'[c] \in {"failed", "aborted"}
             /\ error'[c] = "aborted" => poisoned # {}
      BY <1>2, LeaveStep
    <2>5. \E d \in Cards : error'[d] = "failed" \/ pc'[c] = "hung"
      BY <2>1, <2>2, <2>4 DEF Failures
    <2> QED BY <2>1, <2>2, <2>3, <2>4, <2>5 DEF Failures
  <1>3. ASSUME NEW c \in Cards, Begin(c) PROVE Failures'
    BY <1>3 DEF Begin, Failures, TypeOK, stageVars, endVars, FirstPoint, AfterPhase
  <1>4. ASSUME NEW c \in Cards, Adopt(c) PROVE Failures'
    BY <1>4 DEF Adopt, Failures, TypeOK, stageVars
  <1>5. ASSUME NEW c \in Cards, PoisonAll(c) PROVE Failures'
    <2>1. \/ \E x \in Shared : poisoned' = poisoned \cup {x} /\ UNCHANGED pc
          \/ Shared \subseteq poisoned /\ UNCHANGED poisoned /\ pc' = [pc EXCEPT ![c] = "drain"]
      BY <1>5, PoisonOrders DEF PoisonAll
    <2>2. pc[c] = "catch" /\ UNCHANGED <<open, adopted, error>>
      BY <1>5 DEF PoisonAll, stageVars, endVars
    <2>3. \E d \in Cards : error[d] = "failed"
      BY <2>2 DEF Failures
    <2>4. ASSUME NEW x \in Shared, poisoned' = poisoned \cup {x}, UNCHANGED pc PROVE Failures'
      <3>1. poisoned = Shared => poisoned' = Shared
        BY <2>4
      <3> QED BY <2>2, <2>3, <2>4, <3>1 DEF Failures
    <2>5. CASE Shared \subseteq poisoned /\ UNCHANGED poisoned /\ pc' = [pc EXCEPT ![c] = "drain"]
      <3>1. poisoned' = Shared
        BY <2>5 DEF TypeOK
      <3> QED BY <2>2, <2>3, <2>5, <3>1 DEF Failures, TypeOK
    <2> QED BY <2>1, <2>4, <2>5
  <1>6. ASSUME NEW c \in Cards, Drain(c) PROVE Failures'
    BY <1>6 DEF Drain, Failures, TypeOK, stageVars
  <1>7. CASE StageA
    BY <1>7 DEF StageA, Failures, TypeOK, endVars, FirstPoint, AfterPhase
  <1>8. CASE Arm
    BY <1>8 DEF Arm, Failures, endVars
  <1>9. CASE StageB
    BY <1>9 DEF StageB, Failures, TypeOK, endVars
  <1>10. CASE Disarm
    <2>1. UNCHANGED <<poisoned, adopted, error>> /\ (open => open')
      BY <1>10 DEF Disarm, endVars
    <2>2. pc'["A"] = pc["A"] /\ pc["B"] = "disarm"
      BY <1>10 DEF Disarm, TypeOK
    <2>3. CASE error["B"] # "none"
      <3>1. pc'["B"] = "catch"
        BY <1>10, <2>3 DEF Disarm, TypeOK
      <3> QED BY <2>1, <2>2, <2>3, <3>1 DEF Failures
    <2>4. CASE error["B"] = "none"
      <3>1. pc'["B"] \in {"export", "wait"}
        BY <1>10, <2>4 DEF Disarm, TypeOK, FirstPoint, AfterPhase
      <3> QED BY <2>1, <2>2, <2>4, <3>1 DEF Failures
    <2> QED BY <2>3, <2>4
  <1>11. CASE UNCHANGED vars
    BY <1>11 DEF vars, Failures
  <1> QED
    BY StepCases, <1>1, <1>2, <1>3, <1>4, <1>5, <1>6, <1>7, <1>8, <1>9, <1>10, <1>11

(* The numbers a card's position is made of. *)
LEMMA Counts ==
  ASSUME TypeOK, NEW c \in Cards
  PROVE  /\ Peer(c) \in Cards /\ step[c] \in Nat
         /\ \A ph \in Phases : n[ph][c] \in Nat /\ n[ph][Peer(c)] \in Nat
         /\ {"gather", "scatter"} \subseteq Phases /\ phase[c] \in Phases
         /\ published[c] \in Nat /\ consumed[Peer(c)] \in Nat
         /\ Steps(c, phase[c]) =
              IF n[phase[c]][Peer(c)] = 0 \/ n[phase[c]][Peer(c)] < n[phase[c]][c]
              THEN n[phase[c]][c] ELSE n[phase[c]][Peer(c)] + 1
  <1>1. Peer(c) \in Cards
    BY Peers
  <1>2. \A ph \in Phases : n[ph][c] \in Nat /\ n[ph][Peer(c)] \in Nat
    BY <1>1 DEF TypeOK
  <1>3. {"gather", "scatter"} \subseteq Phases /\ phase[c] \in Phases
    BY DEF Phases, TypeOK
  <1>4. step[c] \in Nat /\ published[c] \in Nat /\ consumed[Peer(c)] \in Nat
    BY <1>1 DEF TypeOK
  <1> QED BY <1>1, <1>2, <1>3, <1>4, StepsAre DEF Steps

(* A point of RunLockstep moves the pipes as PositionOf says of the next.  *)
LEMMA LoopMoves ==
  ASSUME TypeOK, NEW c \in Cards, PositionOf(c), c \notin adopted, Lockstep(c)
  PROVE  PositionOf(c)'
  <1> DEFINE p == Peer(c)
             ph == phase[c]
             o == n[ph][c]
             i == n[ph][p]
             s == step[c]
  <1>1. /\ p \in Cards /\ o \in Nat /\ i \in Nat /\ s \in Nat /\ ph \in Phases
        /\ published[c] \in Nat /\ consumed[p] \in Nat
        /\ Steps(c, ph) = IF i = 0 \/ i < o THEN o ELSE i + 1
        /\ n["gather"][c] \in Nat /\ n["gather"][p] \in Nat
        /\ Base(c, ph) \in Nat /\ Base(p, ph) \in Nat
    BY Counts, BatchTypes
  <1>2. /\ pc[c] \in InLoop /\ Go(c) /\ UNCHANGED <<n, phase, adopted>>
        /\ pc'[c] = "stage" => ph = "gather"
        /\ pc'[c] = "wait" => ph = "scatter"
        /\ pc'[c] \in InLoop \cup {"stage", "wait"}
    BY LoopStep
  <1>3. /\ s < Steps(c, ph)
        /\ published[c] = Base(c, ph) + AtMost(IF pc[c] = "consume" THEN s + 1 ELSE s, o)
        /\ consumed[p] = Base(p, ph) + AtMost(IF s = 0 THEN 0 ELSE s - 1, i)
    BY <1>2 DEF PositionOf, Moved
  <1>4. Steps(c, ph)' = Steps(c, ph) /\ Base(c, ph)' = Base(c, ph) /\ Base(p, ph)' = Base(p, ph)
    BY <1>2 DEF Steps, Base
  <1>5. CASE pc[c] # "consume"
    <2>1. /\ pc'[c] \in InLoop /\ step'[c] = s /\ consumed' = consumed
          /\ pc'[c] = "consume" <=> pc[c] = "publish"
      BY <1>2, <1>5 DEF Lockstep, Skip, ExportEnqueue, ImportEnqueue, Publish, Consume, Go, InLoop,
                   TypeOK, pipes
    <2>2. published'[c] = Base(c, ph) + AtMost(IF pc'[c] = "consume" THEN s + 1 ELSE s, o)
      <3>1. CASE pc[c] = "publish" /\ Exporting(c)
        <4>1. published'[c] = published[c] + 1
          BY <3>1 DEF Lockstep, Skip, ExportEnqueue, ImportEnqueue, Publish, Consume, TypeOK
        <4> QED BY <1>1, <1>3, <2>1, <3>1, <4>1 DEF Exporting, AtMost
      <3>2. CASE ~(pc[c] = "publish" /\ Exporting(c))
        <4>1. published'[c] = published[c]
          BY <1>5, <3>2 DEF Lockstep, Skip, ExportEnqueue, ImportEnqueue, Publish, Consume, pipes
        <4> QED BY <1>1, <1>3, <1>5, <2>1, <3>2, <4>1 DEF Exporting, AtMost
      <3> QED BY <3>1, <3>2
    <2> QED BY <1>2, <1>3, <1>4, <2>1, <2>2 DEF PositionOf, Moved, InLoop
  <1>6. CASE pc[c] = "consume"
    <2>1. published' = published
      BY <1>6 DEF Lockstep, Skip, ExportEnqueue, ImportEnqueue, Publish, Consume, pipes
    <2>2. consumed'[p] = Base(p, ph) + AtMost(s, i)
      <3>1. CASE Importing(c)
        <4>1. consumed'[p] = consumed[p] + 1
          BY <1>1, <1>6, <3>1 DEF Lockstep, Skip, ExportEnqueue, ImportEnqueue, Publish, Consume, TypeOK
        <4> QED BY <1>1, <1>3, <3>1, <4>1 DEF Importing, AtMost
      <3>2. CASE ~Importing(c)
        <4>1. consumed'[p] = consumed[p]
          BY <1>6, <3>2 DEF Lockstep, Skip, ExportEnqueue, ImportEnqueue, Publish, Consume, pipes
        <4> QED BY <1>1, <1>3, <3>2, <4>1 DEF Importing, AtMost
      <3> QED BY <3>1, <3>2
    <2>3. CASE s + 1 = Steps(c, ph)
      <3>1. pc'[c] = AfterPhase(ph) /\ step'[c] = 0
        BY <1>2, <1>6, <2>3 DEF Go, TypeOK
      <3>2. published[c] = Base(c, ph) + o /\ consumed'[p] = Base(p, ph) + i
        BY <1>1, <1>3, <1>6, <2>2, <2>3 DEF AtMost
      <3>3. CASE ph = "gather"
        BY <1>1, <1>2, <2>1, <3>1, <3>2, <3>3 DEF PositionOf, Moved, Base, AfterPhase, InLoop
      <3>4. CASE ph = "scatter"
        BY <1>1, <1>2, <2>1, <3>1, <3>2, <3>4 DEF PositionOf, Moved, Base, AfterPhase, InLoop, Total
      <3> QED BY <1>1, <3>3, <3>4 DEF Phases
    <2>4. CASE s + 1 # Steps(c, ph)
      <3>1. pc'[c] = "export" /\ step'[c] = s + 1
        BY <1>2, <1>6, <2>4 DEF Go, TypeOK
      <3>2. s + 1 < Steps(c, ph)
        BY <1>1, <1>3, <2>4
      <3> QED BY <1>1, <1>2, <1>3, <1>4, <1>6, <2>1, <2>2, <3>1, <3>2 DEF PositionOf, Moved, InLoop
    <2> QED BY <2>3, <2>4
  <1> QED BY <1>5, <1>6

(* A step that moves neither c nor its pipes keeps its position. *)
LEMMA PositionKept ==
  ASSUME NEW c \in Cards, PositionOf(c), pc'[c] = pc[c], step'[c] = step[c], phase'[c] = phase[c],
         error'[c] = error[c], n' = n, published'[c] = published[c],
         consumed'[Peer(c)] = consumed[Peer(c)], c \in adopted' <=> c \in adopted
  PROVE  PositionOf(c)'
  BY DEF PositionOf, Moved, Steps, Base, Total, InLoop

(* A phase begins where the one before it ended. *)
LEMMA PhaseBegins ==
  ASSUME TypeOK, NEW c \in Cards, NEW ph \in Phases, c \notin adopted', n' = n,
         Moved(c, Base(c, ph), Base(Peer(c), ph)), step'[c] = 0, phase'[c] = ph,
         pc'[c] = FirstPoint(c, ph), UNCHANGED <<published, consumed>>
  PROVE  PositionOf(c)'
  <1> DEFINE p == Peer(c)
  <1>1. p \in Cards /\ n[ph][c] \in Nat /\ n[ph][p] \in Nat /\ Base(c, ph) \in Nat /\ Base(p, ph) \in Nat
    BY Peers DEF TypeOK, Base, Phases
  <1>2. Steps(c, ph) = IF n[ph][p] = 0 \/ n[ph][p] < n[ph][c] THEN n[ph][c] ELSE n[ph][p] + 1
    BY <1>1, StepsAre DEF Steps
  <1>3. Base(c, ph)' = Base(c, ph) /\ Base(p, ph)' = Base(p, ph) /\ Steps(c, ph)' = Steps(c, ph)
    BY DEF Base, Steps
  <1>4. CASE Steps(c, ph) = 0
    <2>1. n[ph][c] = 0 /\ n[ph][p] = 0
      BY <1>1, <1>2, <1>4
    <2>2. pc'[c] = AfterPhase(ph)
      BY <1>4 DEF FirstPoint
    <2>3. CASE ph = "gather"
      BY <1>1, <2>1, <2>2, <2>3 DEF PositionOf, Moved, Base, AfterPhase, InLoop
    <2>4. CASE ph = "scatter"
      BY <1>1, <2>1, <2>2, <2>4 DEF PositionOf, Moved, Base, AfterPhase, InLoop, Total
    <2> QED BY <2>3, <2>4 DEF Phases
  <1>5. CASE Steps(c, ph) # 0
    <2>1. pc'[c] = "export" /\ 0 < Steps(c, ph)
      BY <1>1, <1>2, <1>5 DEF FirstPoint
    <2>2. AtMost(0, n[ph][c]) = 0 /\ AtMost(0, n[ph][p]) = 0
      BY <1>1 DEF AtMost
    <2> QED BY <1>1, <1>3, <2>1, <2>2 DEF PositionOf, Moved, InLoop
  <1> QED BY <1>4, <1>5

(* Every step leaves both cards where their points say. *)
LEMMA PositionStep == IInv /\ [Next]_vars => Position'
  <1> SUFFICES ASSUME TypeOK, Position, Failures, [Next]_vars PROVE Position'
    BY DEF IInv
  <1>0. \A c \in Cards : PositionOf(c)
    BY DEF Position
  <1>1. ASSUME NEW c \in Cards, Lockstep(c) PROVE Position'
    <2>1. PositionOf(c)'
      BY <1>0, <1>1, LoopStep, LoopMoves DEF Failures, InLoop
    <2>2. ASSUME NEW d \in Cards, d # c PROVE PositionOf(d)'
      <3>1. Peer(d) = c /\ Peer(c) = d
        BY <2>2 DEF Cards, Peer
      <3>2. published'[d] = published[d] /\ consumed'[c] = consumed[c]
        BY <1>1, <2>2, <3>1 DEF Lockstep, Skip, ExportEnqueue, ImportEnqueue, Publish, Consume, TypeOK,
             pipes
      <3> QED BY <1>0, <1>1, <2>2, <3>1, <3>2, LoopStep, PositionKept
    <2> QED BY <2>1, <2>2 DEF Position
  <1>2. ASSUME NEW c \in Cards, Poisoned(c) \/ Timeout(c) \/ Fault(c) PROVE Position'
    <2>1. PositionOf(c)'
      BY <1>0, <1>2, LeaveStep DEF PositionOf, Moved, Total, InLoop, Failures, Running
    <2>2. ASSUME NEW d \in Cards, d # c PROVE PositionOf(d)'
      BY <1>0, <1>2, <2>2, LeaveStep, PositionKept
    <2> QED BY <2>1, <2>2 DEF Position
  <1>3. ASSUME NEW c \in Cards, Begin(c) PROVE Position'
    <2>1. PositionOf(c)'
      <3>1. /\ phase'[c] = "gather" /\ pc'[c] = FirstPoint(c, "gather") /\ step'[c] = 0
            /\ Moved(c, 0, 0)
        BY <1>0, <1>3 DEF Begin, PositionOf, TypeOK, Failures, Running
      <3>2. UNCHANGED <<n, published, consumed>> /\ c \notin adopted'
        BY <1>3 DEF Begin, call, pipes, endVars, Failures
      <3> QED BY <3>1, <3>2, PhaseBegins DEF Base, Phases
    <2>2. ASSUME NEW d \in Cards, d # c PROVE PositionOf(d)'
      BY <1>0, <1>3, <2>2, PositionKept DEF Begin, TypeOK, call, pipes, endVars
    <2> QED BY <2>1, <2>2 DEF Position
  <1>4. ASSUME NEW c \in Cards, Adopt(c) PROVE Position'
    <2>1. PositionOf(c)'
      BY <1>0, <1>4 DEF Adopt, PositionOf, TypeOK, call, pipes, Moved, Total, InLoop
    <2>2. ASSUME NEW d \in Cards, d # c PROVE PositionOf(d)'
      BY <1>0, <1>4, <2>2, PositionKept DEF Adopt, TypeOK, call, pipes
    <2> QED BY <2>1, <2>2 DEF Position
  <1>5. ASSUME NEW c \in Cards, PoisonAll(c) PROVE Position'
    <2>1. PositionOf(c)'
      BY <1>0, <1>5 DEF PoisonAll, PositionOf, TypeOK, call, pipes, endVars, Moved, Total, InLoop
    <2>2. ASSUME NEW d \in Cards, d # c PROVE PositionOf(d)'
      BY <1>0, <1>5, <2>2, PositionKept DEF PoisonAll, TypeOK, call, pipes, endVars
    <2> QED BY <2>1, <2>2 DEF Position
  <1>6. ASSUME NEW c \in Cards, Drain(c) PROVE Position'
    <2>1. PositionOf(c)'
      BY <1>0, <1>6 DEF Drain, PositionOf, TypeOK, call, pipes, Moved, Total, InLoop
    <2>2. ASSUME NEW d \in Cards, d # c PROVE PositionOf(d)'
      BY <1>0, <1>6, <2>2, PositionKept DEF Drain, TypeOK, call, pipes
    <2> QED BY <2>1, <2>2 DEF Position
  <1>7. CASE StageA
    <2>1. PositionOf("A")'
      <3>1. CASE pc'["A"] = "stage"
        BY <1>0, <1>7, <3>1 DEF StageA, PositionOf, TypeOK, call, pipes, endVars, Moved, Total, InLoop, Cards
      <3>2. CASE pc'["A"] = FirstPoint("A", "scatter")
        <4>1. /\ "A" \in Cards /\ step'["A"] = 0 /\ phase'["A"] = "scatter" /\ "A" \notin adopted'
              /\ Moved("A", n["gather"]["A"], n["gather"][Peer("A")])
              /\ UNCHANGED <<n, published, consumed>>
          BY <1>0, <1>7 DEF StageA, PositionOf, TypeOK, call, pipes, endVars, Cards, Failures, Running
        <4> QED BY <3>2, <4>1, PhaseBegins DEF Base, Phases
      <3> QED BY <1>7, <3>1, <3>2 DEF StageA, TypeOK, Cards
    <2>2. PositionOf("B")'
      BY <1>0, <1>7, PositionKept DEF StageA, TypeOK, call, pipes, endVars, Cards
    <2> QED BY <2>1, <2>2 DEF Position, Cards
  <1>8. CASE Arm
    BY <1>0, <1>8, PositionKept DEF Arm, call, pipes, endVars, Position
  <1>9. CASE StageB
    <2>1. PositionOf("B")'
      BY <1>0, <1>9 DEF StageB, PositionOf, TypeOK, call, pipes, endVars, Moved, Total, InLoop, Cards
    <2>2. PositionOf("A")'
      BY <1>0, <1>9, PositionKept DEF StageB, TypeOK, call, pipes, endVars, Cards
    <2> QED BY <2>1, <2>2 DEF Position, Cards
  <1>10. CASE Disarm
    <2>1. PositionOf("B")'
      <3>1. CASE error["B"] # "none"
        BY <1>0, <1>10, <3>1 DEF Disarm, PositionOf, TypeOK, call, pipes, endVars, Moved, Total, InLoop, Cards
      <3>2. CASE error["B"] = "none"
        <4>1. /\ "B" \in Cards /\ step'["B"] = 0 /\ phase'["B"] = "scatter" /\ "B" \notin adopted'
              /\ Moved("B", n["gather"]["B"], n["gather"][Peer("B")])
              /\ pc'["B"] = FirstPoint("B", "scatter") /\ UNCHANGED <<n, published, consumed>>
          BY <1>0, <1>10, <3>2 DEF Disarm, PositionOf, TypeOK, call, pipes, endVars, Cards, Failures
        <4> QED BY <4>1, PhaseBegins DEF Base, Phases
      <3> QED BY <3>1, <3>2
    <2>2. PositionOf("A")'
      BY <1>0, <1>10, PositionKept DEF Disarm, TypeOK, call, pipes, endVars, Cards
    <2> QED BY <2>1, <2>2 DEF Position, Cards
  <1>11. CASE UNCHANGED vars
    BY <1>0, <1>11, PositionKept DEF vars, Position
  <1> QED
    BY StepCases, <1>1, <1>2, <1>3, <1>4, <1>5, <1>6, <1>7, <1>8, <1>9, <1>10, <1>11

(* A card exports the next batch of its own ring and imports the next one  *)
(* of the peer's. *)
LEMMA NextOut ==
  ASSUME TypeOK, NEW c \in Cards, PositionOf(c), pc[c] \in {"export", "import", "publish"}, Exporting(c)
  PROVE  OutBatch(c) = published[c]
  BY Counts, BatchTypes DEF PositionOf, Moved, InLoop, Exporting, OutBatch, AtMost

(* The batch a card imports is the oldest the peer has published. *)
LEMMA NextIn ==
  ASSUME TypeOK, NEW c \in Cards, PositionOf(c), pc[c] \in InLoop, Importing(c)
  PROVE  InBatch(c) = consumed[Peer(c)]
  BY Counts, BatchTypes DEF PositionOf, Moved, Importing, InBatch, AtMost

(* A step that leaves a card's point and copies alone keeps them safe: the *)
(* peer only frees slots and publishes batches. *)
LEMMA CopiesKept ==
  ASSUME TypeOK, NEW c \in Cards, CopiesOf(c), pc'[c] = pc[c], step'[c] = step[c],
         phase'[c] = phase[c], error'[c] = error[c], n' = n,
         writing'[c] = writing[c], reading'[c] = reading[c], c \in dirty => c \in dirty',
         consumed'[c] \in Nat, consumed'[c] >= consumed[c],
         published'[Peer(c)] \in Nat, published'[Peer(c)] >= published[Peer(c)]
  PROVE  CopiesOf(c)'
  <1>1. /\ OutBatch(c)' = OutBatch(c) /\ InBatch(c)' = InBatch(c)
        /\ Exporting(c)' = Exporting(c) /\ Importing(c)' = Importing(c)
    BY DEF OutBatch, InBatch, Exporting, Importing, Base
  <1>2. /\ OutBatch(c) \in Nat /\ InBatch(c) \in Int /\ consumed[c] \in Nat /\ Slots \in Nat
        /\ published[Peer(c)] \in Nat
    BY BatchTypes, Peers, RingAssumption DEF TypeOK
  <1>3. SlotFree(c, OutBatch(c)) => SlotFree(c, OutBatch(c))'
    BY <1>1, <1>2 DEF SlotFree
  <1>4. published[Peer(c)] > InBatch(c) => published'[Peer(c)] > InBatch(c)
    BY <1>2
  <1> QED BY <1>1, <1>3, <1>4 DEF CopiesOf, InLoop

(* So does a step that moves no pipe. *)
LEMMA CopiesFrame ==
  ASSUME TypeOK, NEW c \in Cards, CopiesOf(c), pc'[c] = pc[c], step'[c] = step[c],
         phase'[c] = phase[c], error'[c] = error[c], writing'[c] = writing[c], reading'[c] = reading[c],
         c \in dirty => c \in dirty', UNCHANGED <<n, published, consumed>>
  PROVE  CopiesOf(c)'
  <1>1. consumed[c] \in Nat /\ published[Peer(c)] \in Nat
    BY Peers DEF TypeOK
  <1>2. consumed[c] >= consumed[c] /\ published[Peer(c)] >= published[Peer(c)]
    BY <1>1
  <1> QED BY <1>1, <1>2, CopiesKept

(* The pipes only move forward. *)
LEMMA PipesGrow ==
  ASSUME TypeOK, NEW c \in Cards, Lockstep(c), NEW d \in Cards
  PROVE  /\ consumed'[d] \in Nat /\ consumed'[d] >= consumed[d]
         /\ published'[d] \in Nat /\ published'[d] >= published[d]
         /\ d # c => writing'[d] = writing[d] /\ reading'[d] = reading[d]
  <1>1. consumed[d] \in Nat /\ published[d] \in Nat
    BY DEF TypeOK
  <1>2. \/ published' = published
        \/ published' = [published EXCEPT ![c] = @ + 1]
    BY DEF Lockstep, Skip, ExportEnqueue, ImportEnqueue, Publish, Consume, pipes
  <1>3. \/ consumed' = consumed
        \/ consumed' = [consumed EXCEPT ![Peer(c)] = @ + 1]
    BY DEF Lockstep, Skip, ExportEnqueue, ImportEnqueue, Publish, Consume, pipes
  <1>4. d # c => writing'[d] = writing[d] /\ reading'[d] = reading[d]
    BY DEF Lockstep, Skip, ExportEnqueue, ImportEnqueue, Publish, Consume, TypeOK, copies
  <1>5. published'[d] \in {published[d], published[d] + 1}
    BY <1>1, <1>2 DEF TypeOK
  <1>6. consumed'[d] \in {consumed[d], consumed[d] + 1}
    BY <1>1, <1>3 DEF TypeOK
  <1> QED BY <1>1, <1>4, <1>5, <1>6

(* The copies of a card that moves through a step of RunLockstep. *)
LEMMA LoopCopies ==
  ASSUME TypeOK, NEW c \in Cards, CopiesOf(c), Lockstep(c)
  PROVE  CopiesOf(c)'
  <1>1. /\ pc[c] \in InLoop /\ Go(c) /\ UNCHANGED <<n, phase>>
        /\ pc'[c] \in InLoop \cup {"stage", "wait"}
    BY LoopStep
  <1>2. Peer(c) \in Cards /\ Peer(c) # c
    BY Peers
  <1>3. ASSUME pc[c] # "consume"
        PROVE  /\ step'[c] = step[c]
               /\ pc[c] = "export" => pc'[c] = "import"
               /\ pc[c] = "import" => pc'[c] = "publish"
               /\ pc[c] = "publish" => pc'[c] = "consume"
               /\ OutBatch(c)' = OutBatch(c) /\ InBatch(c)' = InBatch(c)
               /\ Exporting(c)' = Exporting(c) /\ Importing(c)' = Importing(c)
    <2>1. step'[c] = step[c]
      BY <1>1, <1>3 DEF Go, TypeOK
    <2> QED BY <1>1, <1>3, <2>1 DEF Go, TypeOK, OutBatch, InBatch, Exporting, Importing, Base
  <1>4. CASE pc[c] = "export"
    <2>1. UNCHANGED <<reading, published, consumed>>
      BY <1>4 DEF Lockstep, Skip, ExportEnqueue, ImportEnqueue, Publish, Consume, pipes, copies
    <2>2. IF Exporting(c) THEN writing'[c] = OutBatch(c) /\ SlotFree(c, OutBatch(c)) ELSE writing' = writing
      BY <1>4 DEF Lockstep, Skip, ExportEnqueue, ImportEnqueue, Publish, Consume, TypeOK, copies
    <2> QED BY <1>3, <1>4, <2>1, <2>2 DEF CopiesOf, InLoop, SlotFree
  <1>5. CASE pc[c] = "import"
    <2>1. UNCHANGED <<writing, published, consumed>>
      BY <1>5 DEF Lockstep, Skip, ExportEnqueue, ImportEnqueue, Publish, Consume, pipes, copies
    <2>2. IF Importing(c) THEN reading'[c] = InBatch(c) /\ published[Peer(c)] > InBatch(c) ELSE reading' = reading
      BY <1>5 DEF Lockstep, Skip, ExportEnqueue, ImportEnqueue, Publish, Consume, TypeOK, copies
    <2> QED BY <1>3, <1>5, <2>1, <2>2 DEF CopiesOf, InLoop, SlotFree
  <1>6. CASE pc[c] = "publish"
    <2>1. /\ UNCHANGED <<reading, consumed>> /\ published'[Peer(c)] = published[Peer(c)]
          /\ writing'[c] = None
      BY <1>2, <1>6 DEF Lockstep, Skip, ExportEnqueue, ImportEnqueue, Publish, Consume, pipes, copies,
           TypeOK, CopiesOf, InLoop
    <2> QED BY <1>3, <1>6, <2>1 DEF CopiesOf, InLoop, SlotFree
  <1>7. CASE pc[c] = "consume"
    <2>1. pc'[c] \in {"export", "stage", "wait"}
      BY <1>1, <1>7 DEF Go, TypeOK, AfterPhase
    <2>2. writing' = writing /\ reading'[c] = None
      BY <1>7 DEF Lockstep, Skip, ExportEnqueue, ImportEnqueue, Publish, Consume, copies, TypeOK,
           CopiesOf, InLoop
    <2> QED BY <1>7, <2>1, <2>2 DEF CopiesOf, InLoop
  <1> QED BY <1>1, <1>4, <1>5, <1>6, <1>7 DEF InLoop

(* Every step leaves the copies that the points allow. *)
LEMMA CopiesStep == IInv /\ [Next]_vars => Copies'
  <1> SUFFICES ASSUME TypeOK, Copies, Failures, [Next]_vars PROVE Copies'
    BY DEF IInv
  <1>0. \A c \in Cards : CopiesOf(c) /\ consumed[c] \in Nat /\ published[c] \in Nat /\ Peer(c) \in Cards
    BY Peers DEF Copies, TypeOK
  <1>1. ASSUME NEW c \in Cards, Lockstep(c) PROVE Copies'
    <2>1. ASSUME NEW d \in Cards, d # c PROVE CopiesOf(d)'
      BY <1>0, <1>1, <2>1, LoopStep, PipesGrow, CopiesKept
    <2> QED BY <1>0, <1>1, <2>1, LoopCopies DEF Copies
  <1>2. ASSUME NEW c \in Cards, Poisoned(c) \/ Timeout(c) \/ Fault(c) PROVE Copies'
    <2>1. CopiesOf(c)'
      BY <1>0, <1>2, LeaveStep DEF CopiesOf, InLoop
    <2>2. ASSUME NEW d \in Cards, d # c PROVE CopiesOf(d)'
      BY <1>0, <1>2, <2>2, LeaveStep, CopiesFrame
    <2> QED BY <2>1, <2>2 DEF Copies
  <1>3. ASSUME NEW c \in Cards, Begin(c) PROVE Copies'
    <2>1. CopiesOf(c)'
      BY <1>0, <1>3 DEF Begin, CopiesOf, TypeOK, InLoop, copies, endVars, FirstPoint, AfterPhase
    <2>2. ASSUME NEW d \in Cards, d # c PROVE CopiesOf(d)'
      BY <1>0, <1>3, <2>2, CopiesFrame DEF Begin, TypeOK, call, pipes, copies, endVars
    <2> QED BY <2>1, <2>2 DEF Copies
  <1>4. ASSUME NEW c \in Cards, Adopt(c) PROVE Copies'
    <2>1. CopiesOf(c)'
      BY <1>0, <1>4 DEF Adopt, CopiesOf, TypeOK, InLoop, copies
    <2>2. ASSUME NEW d \in Cards, d # c PROVE CopiesOf(d)'
      BY <1>0, <1>4, <2>2, CopiesFrame DEF Adopt, TypeOK, call, pipes, copies
    <2> QED BY <2>1, <2>2 DEF Copies
  <1>5. ASSUME NEW c \in Cards, PoisonAll(c) PROVE Copies'
    <2>1. CopiesOf(c)'
      BY <1>0, <1>5 DEF PoisonAll, CopiesOf, TypeOK, InLoop, copies, endVars
    <2>2. ASSUME NEW d \in Cards, d # c PROVE CopiesOf(d)'
      BY <1>0, <1>5, <2>2, CopiesFrame DEF PoisonAll, TypeOK, call, pipes, copies, endVars
    <2> QED BY <2>1, <2>2 DEF Copies
  <1>6. ASSUME NEW c \in Cards, Drain(c) PROVE Copies'
    <2>1. CopiesOf(c)'
      BY <1>0, <1>6 DEF Drain, Synced, CopiesOf, TypeOK, InLoop
    <2>2. ASSUME NEW d \in Cards, d # c PROVE CopiesOf(d)'
      BY <1>0, <1>6, <2>2, CopiesFrame DEF Drain, Synced, TypeOK, call, pipes
    <2> QED BY <2>1, <2>2 DEF Copies
  <1>7. CASE StageA
    <2>1. CopiesOf("A")'
      BY <1>0, <1>7 DEF StageA, CopiesOf, TypeOK, InLoop, copies, endVars, FirstPoint, AfterPhase, Cards
    <2>2. CopiesOf("B")'
      BY <1>0, <1>7, CopiesFrame DEF StageA, TypeOK, call, pipes, copies, endVars, Cards
    <2> QED BY <2>1, <2>2 DEF Copies, Cards
  <1>8. CASE Arm
    BY <1>0, <1>8, CopiesFrame DEF Arm, call, pipes, copies, endVars, Copies
  <1>9. CASE StageB
    <2>1. CopiesOf("B")'
      BY <1>0, <1>9 DEF StageB, CopiesOf, TypeOK, InLoop, copies, endVars, Cards
    <2>2. CopiesOf("A")'
      BY <1>0, <1>9, CopiesFrame DEF StageB, TypeOK, call, pipes, copies, endVars, Cards
    <2> QED BY <2>1, <2>2 DEF Copies, Cards
  <1>10. CASE Disarm
    <2>1. CopiesOf("B")'
      BY <1>0, <1>10 DEF Disarm, CopiesOf, TypeOK, InLoop, copies, endVars, FirstPoint, AfterPhase, Cards
    <2>2. CopiesOf("A")'
      BY <1>0, <1>10, CopiesFrame DEF Disarm, TypeOK, call, pipes, copies, endVars, Cards
    <2> QED BY <2>1, <2>2 DEF Copies, Cards
  <1>11. CASE UNCHANGED vars
    BY <1>0, <1>11, CopiesFrame DEF vars, Copies
  <1> QED
    BY StepCases, <1>1, <1>2, <1>3, <1>4, <1>5, <1>6, <1>7, <1>8, <1>9, <1>10, <1>11

(* A step that does not touch a ring, its counters or what left it. *)
LEMMA RingFrame ==
  ASSUME NEW c \in Cards, RingOf(c), published'[c] = published[c], consumed'[c] = consumed[c],
         got'[Peer(c)] = got[Peer(c)], ring'[c] = ring[c]
  PROVE  RingOf(c)'
  BY DEF RingOf

(* The D2H of the next batch writes a slot outside the window. *)
LEMMA RingExport ==
  ASSUME TypeOK, NEW c \in Cards, RingOf(c), PositionOf(c), ExportEnqueue(c)
  PROVE  RingOf(c)'
  <1>1. OutBatch(c) = published[c] /\ published[c] - consumed[c] < Slots
    BY NextOut DEF ExportEnqueue, SlotFree
  <1>2. published[c] \in Nat /\ consumed[c] \in Nat /\ UNCHANGED <<published, consumed, got>>
    BY DEF TypeOK, ExportEnqueue, pipes
  <1>3. ASSUME NEW b \in consumed[c]..published[c] - 1 PROVE ring'[c][b % Slots] = b
    <2>1. b \in Nat /\ b < published[c] /\ published[c] - b < Slots
      BY <1>1, <1>2, RingAssumption
    <2>2. b % Slots # published[c] % Slots
      BY <1>2, <2>1, SlotsDiffer
    <2>3. ring' = [ring EXCEPT ![c][published[c] % Slots] = None]
      BY <1>1 DEF ExportEnqueue
    <2>4. ring[c] \in [0..Slots - 1 -> Int] /\ b % Slots \in 0..Slots - 1
      BY <2>1, SlotOf DEF TypeOK
    <2>5. ring'[c][b % Slots] = ring[c][b % Slots]
      BY <2>2, <2>3, <2>4 DEF TypeOK
    <2> QED BY <1>3, <2>5 DEF RingOf
  <1> QED BY <1>2, <1>3 DEF RingOf

(* The sync of the D2H puts the next batch into its slot and the window.   *)
LEMMA RingPublish ==
  ASSUME TypeOK, NEW c \in Cards, RingOf(c), PositionOf(c), CopiesOf(c), Publish(c)
  PROVE  RingOf(c)'
  <1>1. writing[c] = published[c] /\ published[c] - consumed[c] < Slots
    BY NextOut DEF Publish, CopiesOf, InLoop, SlotFree
  <1>2. /\ published[c] \in Nat /\ consumed[c] \in Nat /\ UNCHANGED <<consumed, got>>
        /\ published'[c] = published[c] + 1
    BY DEF TypeOK, Publish
  <1>3. ASSUME NEW b \in consumed[c]..published[c] PROVE ring'[c][b % Slots] = b
    <2>1. ring' = [ring EXCEPT ![c][published[c] % Slots] = published[c]]
      BY <1>1 DEF Publish
    <2>0. b \in Nat
      BY <1>2
    <2>2. b \in Nat /\ ring[c] \in [0..Slots - 1 -> Int] /\ b % Slots \in 0..Slots - 1
      BY <2>0, SlotOf DEF TypeOK
    <2>3. CASE b = published[c]
      BY <2>1, <2>2, <2>3 DEF TypeOK
    <2>4. CASE b # published[c]
      <3>1. b < published[c] /\ published[c] - b < Slots /\ b \in consumed[c]..published[c] - 1
        <4>1. consumed[c] <= b /\ b <= published[c]
          BY <1>2
        <4>2. Slots \in Nat
          BY RingAssumption
        <4>3. b < published[c]
          BY <1>2, <2>0, <2>4, <4>1
        <4>4. published[c] - b < Slots
          BY <1>1, <1>2, <2>0, <4>1, <4>2
        <4> QED BY <1>2, <2>0, <4>1, <4>3, <4>4
      <3>2. b % Slots # published[c] % Slots
        BY <1>2, <2>2, <3>1, SlotsDiffer
      <3>3. ring'[c][b % Slots] = ring[c][b % Slots]
        BY <2>1, <2>2, <3>2 DEF TypeOK
      <3> QED BY <3>1, <3>3 DEF RingOf
    <2> QED BY <2>3, <2>4
  <1>4. consumed[c] <= published[c] + 1 /\ published[c] + 1 <= consumed[c] + Slots
    BY <1>1, <1>2, RingAssumption DEF RingOf
  <1> QED BY <1>2, <1>3, <1>4 DEF RingOf

(* The sync of the H2D gives the peer the oldest batch of the window.      *)
LEMMA RingConsume ==
  ASSUME TypeOK, NEW c \in Cards, NEW d \in Cards, d = Peer(c), RingOf(d), PositionOf(c), CopiesOf(c),
         Consume(c)
  PROVE  /\ RingOf(d)'
         /\ consumed[d] < published[d] /\ consumed'[d] = consumed[d] + 1
         /\ got' = [got EXCEPT ![c] = Append(@, consumed[d])]
  <1>1. Peer(d) = c /\ reading[c] = consumed[d] /\ published[d] > consumed[d]
    BY NextIn, Peers DEF Consume, CopiesOf, InLoop
  <1>2. /\ published[d] \in Nat /\ consumed[d] \in Nat /\ UNCHANGED <<published, ring>>
        /\ consumed'[d] = consumed[d] + 1
    BY DEF TypeOK, Consume
  <1>3. ring[d][consumed[d] % Slots] = consumed[d]
    BY <1>1, <1>2 DEF RingOf
  <1>4. got' = [got EXCEPT ![c] = Append(@, consumed[d])]
    BY <1>1, <1>3 DEF Consume
  <1>5. got'[c] = [k \in 1..consumed[d] + 1 |-> k - 1]
    <2> DEFINE s == [k \in 1..consumed[d] |-> k - 1]
               t == [k \in 1..consumed[d] + 1 |-> k - 1]
    <2>1. got[c] = s
      BY <1>1 DEF RingOf
    <2>2. s \in Seq(Int) /\ t \in Seq(Int) /\ Len(s) = consumed[d] /\ Len(t) = consumed[d] + 1
      <3>1. s \in Seq(Int) /\ Len(s) = consumed[d]
        BY <1>2
      <3>2. consumed[d] + 1 \in Nat
        BY <1>2
      <3>3. t \in Seq(Int) /\ Len(t) = consumed[d] + 1
        BY <3>2
      <3> QED BY <3>1, <3>3
    <2>3. Append(s, consumed[d]) \in Seq(Int) /\ Len(Append(s, consumed[d])) = consumed[d] + 1
      BY <1>2, <2>2
    <2>4. \A k \in 1..consumed[d] + 1 : Append(s, consumed[d])[k] = t[k]
      BY <1>2, <2>2
    <2>5. Append(s, consumed[d]) = t
      BY <2>2, <2>3, <2>4, SeqEqual
    <2> QED BY <1>4, <2>1, <2>5 DEF TypeOK
  <1>6. published[d] <= consumed[d] + Slots /\ Slots \in Nat
    BY RingAssumption DEF RingOf
  <1>7. consumed[d] + 1 <= published[d] /\ published[d] <= consumed[d] + 1 + Slots
    BY <1>1, <1>2, <1>6
  <1>8. ASSUME NEW b \in consumed[d] + 1..published[d] - 1 PROVE ring[d][b % Slots] = b
    BY <1>2, <1>8 DEF RingOf
  <1>9. RingOf(d)'
    BY <1>1, <1>2, <1>5, <1>7, <1>8 DEF RingOf
  <1> QED BY <1>1, <1>2, <1>4, <1>9

(* Every step keeps the rings in order. *)
LEMMA RingsStep == IInv /\ [Next]_vars => RingsHold'
  <1> SUFFICES ASSUME TypeOK, RingsHold, Position, Copies, [Next]_vars PROVE RingsHold'
    BY DEF IInv
  <1>0. \A c \in Cards : RingOf(c) /\ PositionOf(c) /\ CopiesOf(c)
    BY DEF RingsHold, Position, Copies
  <1>1. ASSUME NEW c \in Cards, Skip(c) \/ ImportEnqueue(c) PROVE RingsHold'
    BY <1>0, <1>1, RingFrame DEF Skip, ImportEnqueue, pipes, copies, RingsHold
  <1>2. ASSUME NEW c \in Cards, ExportEnqueue(c) PROVE RingsHold'
    <2>1. ASSUME NEW d \in Cards, d # c PROVE RingOf(d)'
      BY <1>0, <1>2, <2>1, RingFrame DEF ExportEnqueue, TypeOK, pipes
    <2> QED BY <1>0, <1>2, <2>1, RingExport DEF RingsHold
  <1>3. ASSUME NEW c \in Cards, Publish(c) PROVE RingsHold'
    <2>1. ASSUME NEW d \in Cards, d # c PROVE RingOf(d)'
      BY <1>0, <1>3, <2>1, RingFrame DEF Publish, TypeOK
    <2> QED BY <1>0, <1>3, <2>1, RingPublish DEF RingsHold
  <1>4. ASSUME NEW c \in Cards, Consume(c) PROVE RingsHold'
    <2>1. RingOf(Peer(c))'
      BY <1>0, <1>4, Peers, RingConsume
    <2>2. RingOf(c)'
      <3>1. Peer(c) # c /\ Peer(c) \in Cards
        BY Peers
      <3> QED BY <1>0, <1>4, <3>1, RingFrame DEF Consume, TypeOK
    <2> QED BY <2>1, <2>2 DEF RingsHold, Cards, Peer
  <1>5. ASSUME NEW c \in Cards, Poisoned(c) \/ Timeout(c) \/ Fault(c) PROVE RingsHold'
    BY <1>0, <1>5, LeaveStep, RingFrame DEF RingsHold
  <1>6. ASSUME NEW c \in Cards, Begin(c) \/ Adopt(c) \/ PoisonAll(c) \/ Drain(c) PROVE RingsHold'
    BY <1>0, <1>6, RingFrame DEF Begin, Adopt, PoisonAll, Drain, pipes, copies, RingsHold
  <1>7. CASE StageA \/ Arm \/ StageB \/ Disarm
    BY <1>0, <1>7, RingFrame DEF StageA, Arm, StageB, Disarm, pipes, copies, RingsHold
  <1>8. CASE UNCHANGED vars
    BY <1>0, <1>8, RingFrame DEF vars, RingsHold
  <1> QED
    BY StepCases, <1>1, <1>2, <1>3, <1>4, <1>5, <1>6, <1>7, <1>8 DEF Lockstep

(* The call begins with the invariant: nothing moved, nothing under way. *)
LEMMA InitIInv == Init => IInv
  <1> SUFFICES ASSUME Init PROVE IInv
    OBVIOUS
  <1>1. TypeOK
    <2>1. n \in [Phases -> [Cards -> Nat]]
      BY RingAssumption DEF Init
    <2>2. ring \in [Cards -> [0..Slots - 1 -> Int]] /\ writing \in [Cards -> Int] /\ reading \in [Cards -> Int]
      BY NoneIsInt DEF Init
    <2>3. got \in [Cards -> Seq(Int)]
      BY DEF Init
    <2>4. sent \in 0..Chunks /\ taken \in 0..sent /\ sent - taken <= ChanSlots
      BY RingAssumption DEF Init
    <2> QED BY <2>1, <2>2, <2>3, <2>4 DEF Init, TypeOK, Points, Phases
  <1>2. RingsHold
    <2>1. ASSUME NEW c \in Cards PROVE RingOf(c)
      <3>1. published[c] = 0 /\ consumed[c] = 0 /\ got[Peer(c)] = <<>>
        BY Peers DEF Init
      <3>2. [k \in 1..0 |-> k - 1] = <<>>
        OBVIOUS
      <3>3. 0..0 - 1 = {} /\ Slots \in Nat
        BY RingAssumption
      <3> QED BY <3>1, <3>2, <3>3 DEF RingOf
    <2> QED BY <2>1 DEF RingsHold
  <1>3. Position
    BY Peers DEF Init, Position, PositionOf, Moved, InLoop
  <1>4. Copies
    BY DEF Init, Copies, CopiesOf, InLoop
  <1>5. Stages
    BY DEF Init, Stages, AfterStage, InLoop, Cards
  <1>6. Failures
    BY DEF Init, Failures, Running
  <1> QED BY <1>1, <1>2, <1>3, <1>4, <1>5, <1>6 DEF IInv

(* The inductive invariant holds in every state of a pipelined call: the   *)
(* rings, the two cards' positions in RunLockstep, their copies, the stage *)
(* prefill and the failure protocol stay in step.                          *)
THEOREM InvHolds == Spec => []IInv
  <1>1. IInv /\ [Next]_vars => IInv'
    BY TypeStep, RingsStep, PositionStep, CopiesStep, StagesStep, FailuresStep DEF IInv
  <1> QED BY InitIInv, <1>1, PTL DEF Spec

-----------------------------------------------------------------------------
(* No stage computes before its whole gather has arrived and no rank       *)
(* adopts the end state before every batch of both phases is in, however   *)
(* the two threads of HybridMain interleave.                               *)
THEOREM PhasesAreWholeHolds == Spec => []PhasesAreWhole
  <1>1. IInv => PhasesAreWhole
    <2> SUFFICES ASSUME IInv, NEW c \in Cards
                 PROVE  /\ pc[c] = "stage" => /\ Len(got[c]) = n["gather"][Peer(c)]
                                              /\ published[c] = n["gather"][c]
                        /\ c \in adopted =>
                             /\ got[c] = [k \in 1..n["gather"][Peer(c)] + n["scatter"][Peer(c)] |-> k - 1]
                             /\ open /\ taken = Chunks
      BY DEF PhasesAreWhole
    <2>1. /\ TypeOK /\ Stages /\ Failures /\ PositionOf(c) /\ RingOf(Peer(c))
          /\ Peer(c) \in Cards /\ Peer(Peer(c)) = c
      BY Peers DEF IInv, Position, RingsHold
    <2>2. got[c] = [k \in 1..consumed[Peer(c)] |-> k - 1] /\ consumed[Peer(c)] \in Nat
      BY <2>1 DEF RingOf, TypeOK
    <2>3. Len(got[c]) = consumed[Peer(c)]
      BY <2>2
    <2>4. pc[c] = "stage" => consumed[Peer(c)] = n["gather"][Peer(c)] /\ published[c] = n["gather"][c]
      BY <2>1 DEF PositionOf, Moved, Failures, Running
    <2>5. c \in adopted => consumed[Peer(c)] = Total(Peer(c)) /\ open /\ taken = Chunks
      BY <2>1 DEF PositionOf, Moved, Failures, Stages
    <2> QED BY <2>2, <2>3, <2>4, <2>5 DEF Total
  <1> QED BY InvHolds, <1>1, PTL

(* A thread that is out leaves no copy under way unless its sync failed,   *)
(* no armed tail capture, and a failed call reports its root cause: no     *)
(* call ends with nothing but poison consequences.                         *)
THEOREM LeavesNothingHolds == Spec => []LeavesNothing
  <1>1. IInv => LeavesNothing
    <2> SUFFICES ASSUME IInv PROVE LeavesNothing
      OBVIOUS
    <2>1. \A c \in Cards : pc[c] = "ended" /\ c \notin dirty => writing[c] = None /\ reading[c] = None
      BY DEF IInv, Copies, CopiesOf
    <2>2. pc["B"] = "ended" => ~armed
      BY DEF IInv, Stages
    <2>3. (\A c \in Cards : pc[c] = "ended") /\ adopted # Cards => \E c \in Cards : error[c] = "failed"
      <3> SUFFICES ASSUME \A c \in Cards : pc[c] = "ended", adopted # Cards
                   PROVE  \E c \in Cards : error[c] = "failed"
        OBVIOUS
      <3>1. PICK c \in Cards : c \notin adopted
        BY DEF IInv, TypeOK
      <3> QED BY <3>1 DEF IInv, Failures
    <2> QED BY <2>1, <2>2, <2>3 DEF LeavesNothing
  <1> QED BY InvHolds, <1>1, PTL

-----------------------------------------------------------------------------
(* Where the pipes are while a card waits for a slot: the peer is at least *)
(* a ring behind.                                                          *)
LEMMA WaitsForSlot ==
  ASSUME TypeOK, NEW c \in Cards, PositionOf(c), pc[c] = "export", Exporting(c), ~SlotFree(c, OutBatch(c))
  PROVE  /\ step[c] < n[phase[c]][c] /\ published[c] = Base(c, phase[c]) + step[c]
         /\ consumed[Peer(c)] = Base(Peer(c), phase[c])
                                + AtMost(IF step[c] = 0 THEN 0 ELSE step[c] - 1, n[phase[c]][Peer(c)])
         /\ consumed[c] <= published[c] - 2
  <1>1. published[c] \in Nat /\ consumed[c] \in Nat /\ Slots \in Nat /\ Slots >= 2
    BY RingAssumption DEF TypeOK
  <1>2. OutBatch(c) = published[c] /\ step[c] < n[phase[c]][c] /\ OutBatch(c) = Base(c, phase[c]) + step[c]
    BY NextOut DEF Exporting, OutBatch
  <1>3. consumed[Peer(c)] = Base(Peer(c), phase[c])
                            + AtMost(IF step[c] = 0 THEN 0 ELSE step[c] - 1, n[phase[c]][Peer(c)])
    BY DEF PositionOf, Moved, InLoop
  <1>4. consumed[c] <= published[c] - 2
    BY <1>1, <1>2 DEF SlotFree
  <1> QED BY <1>2, <1>3, <1>4

(* Where they are while a card waits for a batch: it consumed all that the *)
(* peer has published.                                                     *)
LEMMA WaitsForBatch ==
  ASSUME TypeOK, NEW c \in Cards, PositionOf(c), RingOf(Peer(c)), pc[c] = "import", Importing(c),
         published[Peer(c)] <= InBatch(c)
  PROVE  /\ step[c] >= 1 /\ step[c] - 1 < n[phase[c]][Peer(c)]
         /\ published[Peer(c)] = Base(Peer(c), phase[c]) + step[c] - 1
         /\ consumed[Peer(c)] = published[Peer(c)]
         /\ published[c] = Base(c, phase[c]) + AtMost(step[c], n[phase[c]][c])
  <1>1. Peer(c) \in Cards /\ published[Peer(c)] \in Nat /\ consumed[Peer(c)] \in Nat
    BY Peers DEF TypeOK
  <1>2. InBatch(c) = consumed[Peer(c)]
    BY NextIn DEF InLoop
  <1>3. consumed[Peer(c)] = published[Peer(c)]
    BY <1>1, <1>2 DEF RingOf
  <1>4. step[c] >= 1 /\ step[c] - 1 < n[phase[c]][Peer(c)] /\ InBatch(c) = Base(Peer(c), phase[c]) + step[c] - 1
    BY DEF Importing, InBatch
  <1>5. published[c] = Base(c, phase[c]) + AtMost(step[c], n[phase[c]][c])
    BY DEF PositionOf, Moved, InLoop
  <1> QED BY <1>2, <1>3, <1>4, <1>5

(* The four waits of a thread, each with the poison it would have seen.    *)
LEMMA WaitKinds ==
  ASSUME NEW c \in Cards, Waits(c)
  PROVE  \/ pc[c] = "export" /\ Exporting(c) /\ ~SlotFree(c, OutBatch(c))
         \/ pc[c] = "import" /\ Importing(c) /\ published[Peer(c)] <= InBatch(c)
         \/ c = "A" /\ pc[c] = "stage" /\ sent < Chunks /\ sent - taken >= ChanSlots
         \/ c = "B" /\ pc[c] = "stage" /\ taken < Chunks /\ taken = sent
         \/ pc[c] = "wait" /\ ~open
  BY DEF Waits

(* No wait is blind to poison once PoisonAll is through.                   *)
LEMMA PoisonReaches ==
  ASSUME NEW c \in Cards, Waits(c), poisoned = Shared
  PROVE  SeesPoison(c)
  BY WaitKinds DEF SeesPoison, Shared, Pipe, Peer, Cards

(* The batches of a phase, and where the phases begin.                     *)
LEMMA Bases ==
  ASSUME TypeOK, NEW c \in Cards
  PROVE  /\ n["gather"][c] \in Nat /\ n["scatter"][c] \in Nat /\ Total(c) = n["gather"][c] + n["scatter"][c]
         /\ phase[c] \in {"gather", "scatter"} /\ step[c] \in Nat
         /\ published[c] \in Nat /\ consumed[c] \in Nat
         /\ \A x \in Cards : Base(x, "gather") = 0 /\ Base(x, "scatter") = n["gather"][x]
  BY DEF TypeOK, Phases, Total, Base

(* What a card that waits in a loop has not received: the waited batch is  *)
(* one of its phase.                                                       *)
LEMMA LoopWaitBounds ==
  ASSUME TypeOK, NEW c \in Cards, NEW d \in Cards, d = Peer(c), c = Peer(d),
         PositionOf(c), RingOf(d), Waits(c), pc[c] \in {"export", "import"}
  PROVE  /\ \/ pc[c] = "export" /\ published[c] < Base(c, phase[c]) + n[phase[c]][c]
                                /\ consumed[c] <= published[c] - 2
            \/ pc[c] = "import" /\ published[d] < Base(d, phase[c]) + n[phase[c]][d]
                                /\ consumed[d] = published[d]
  <1>1. /\ phase[c] \in {"gather", "scatter"} /\ step[c] \in Nat
        /\ n[phase[c]][c] \in Nat /\ n[phase[c]][d] \in Nat
        /\ Base(c, phase[c]) \in Nat /\ Base(d, phase[c]) \in Nat
    BY Bases, BatchTypes
  <1>2. CASE pc[c] = "export"
    BY <1>1, <1>2, WaitKinds, WaitsForSlot
  <1>3. CASE pc[c] = "import"
    BY <1>1, <1>3, WaitKinds, WaitsForBatch
  <1> QED BY <1>2, <1>3

(* A card in RunLockstep's loop cannot be kept waiting by a peer that is   *)
(* past the phase: the peer has sent and taken all of the phase.           *)
LEMMA PastPhase ==
  ASSUME TypeOK, NEW c \in Cards, NEW d \in Cards, d = Peer(c), c = Peer(d),
         PositionOf(c), RingOf(d), Waits(c), pc[c] \in {"export", "import"},
         published[d] >= Base(d, phase[c]) + n[phase[c]][d],
         consumed[c] >= Base(c, phase[c]) + n[phase[c]][c]
  PROVE  FALSE
  <1>1. /\ phase[c] \in {"gather", "scatter"}
        /\ n[phase[c]][c] \in Nat /\ n[phase[c]][d] \in Nat
        /\ Base(c, phase[c]) \in Nat /\ Base(d, phase[c]) \in Nat
        /\ \A x \in Cards : published[x] \in Nat /\ consumed[x] \in Nat
    BY Bases, BatchTypes
  <1> QED BY <1>1, LoopWaitBounds

(* A card that is two batches behind is at an earlier step of the loop.    *)
LEMMA EarlierStep ==
  ASSUME NEW i \in Nat, NEW j \in Nat, NEW m \in Nat, NEW base \in Nat, NEW p \in Nat, NEW q \in Nat,
         i < m, p = base + i, q = base + AtMost(IF j = 0 THEN 0 ELSE j - 1, m), q <= p - 2
  PROVE  j < i
  BY DEF AtMost

(* Two cards in the loop do not wait for each other: in one phase the one  *)
(* that is behind has what it waits for, and a card of an earlier phase    *)
(* waits for nothing of a later one.                                       *)
LEMMA LoopsMeet ==
  ASSUME TypeOK, NEW c \in Cards, NEW d \in Cards, d = Peer(c), c = Peer(d),
         PositionOf(c), PositionOf(d), RingOf(c), RingOf(d), Waits(c), Waits(d),
         pc[c] \in {"export", "import"}, pc[d] \in {"export", "import"}
  PROVE  FALSE
  <1>1. /\ \A x \in Cards : /\ phase[x] \in {"gather", "scatter"} /\ step[x] \in Nat
                            /\ n["gather"][x] \in Nat /\ n["scatter"][x] \in Nat
                            /\ published[x] \in Nat /\ consumed[x] \in Nat
                            /\ Base(x, "gather") = 0 /\ Base(x, "scatter") = n["gather"][x]
    BY Bases
  <1>2. CASE pc[c] = "export" /\ pc[d] = "export"
    <2>1. /\ step[c] < n[phase[c]][c] /\ published[c] = Base(c, phase[c]) + step[c]
          /\ consumed[d] = Base(d, phase[c]) + AtMost(IF step[c] = 0 THEN 0 ELSE step[c] - 1, n[phase[c]][d])
          /\ consumed[c] <= published[c] - 2
      BY <1>2, WaitKinds, WaitsForSlot
    <2>2. /\ step[d] < n[phase[d]][d] /\ published[d] = Base(d, phase[d]) + step[d]
          /\ consumed[c] = Base(c, phase[d]) + AtMost(IF step[d] = 0 THEN 0 ELSE step[d] - 1, n[phase[d]][c])
          /\ consumed[d] <= published[d] - 2
      BY <1>2, WaitKinds, WaitsForSlot
    <2>0. \A x \in Cards : n[phase[x]][x] \in Nat /\ Base(x, phase[x]) \in Nat
      BY <1>1
    <2>3. CASE phase[c] = phase[d]
      <3>0. \A x \in Cards : step[x] \in Nat /\ n[phase[x]][x] \in Nat /\ Base(x, phase[x]) \in Nat
        BY <1>1, <2>0
      <3>1. step[d] < step[c]
        <4>1. consumed[c] = Base(c, phase[c]) + AtMost(IF step[d] = 0 THEN 0 ELSE step[d] - 1, n[phase[c]][c])
          BY <2>2, <2>3
        <4> DEFINE i == step[c]
                   j == step[d]
                   m == n[phase[c]][c]
                   base == Base(c, phase[c])
                   p == published[c]
                   q == consumed[c]
        <4>2. i \in Nat /\ j \in Nat /\ m \in Nat /\ base \in Nat /\ p \in Nat /\ q \in Nat
          BY <1>1, <3>0
        <4>3. i < m /\ p = base + i /\ q <= p - 2
          BY <2>1
        <4>4. q = base + AtMost(IF j = 0 THEN 0 ELSE j - 1, m)
          BY <4>1
        <4> HIDE DEF i, j, m, base, p, q
        <4>5. j < i
          BY <4>2, <4>3, <4>4, EarlierStep
        <4> QED BY <4>5 DEF i, j
      <3>2. step[c] < step[d]
        <4>1. consumed[d] = Base(d, phase[d]) + AtMost(IF step[c] = 0 THEN 0 ELSE step[c] - 1, n[phase[d]][d])
          BY <2>1, <2>3
        <4> DEFINE i == step[d]
                   j == step[c]
                   m == n[phase[d]][d]
                   base == Base(d, phase[d])
                   p == published[d]
                   q == consumed[d]
        <4>2. i \in Nat /\ j \in Nat /\ m \in Nat /\ base \in Nat /\ p \in Nat /\ q \in Nat
          BY <1>1, <3>0
        <4>3. i < m /\ p = base + i /\ q <= p - 2
          BY <2>2
        <4>4. q = base + AtMost(IF j = 0 THEN 0 ELSE j - 1, m)
          BY <4>1
        <4> HIDE DEF i, j, m, base, p, q
        <4>5. j < i
          BY <4>2, <4>3, <4>4, EarlierStep
        <4> QED BY <4>5 DEF i, j
      <3> QED BY <1>1, <3>1, <3>2
    <2>5. CASE phase[c] = "gather" /\ phase[d] = "scatter"
      <3>0. AtMost(IF step[d] = 0 THEN 0 ELSE step[d] - 1, n["scatter"][c]) >= 0
        BY <1>1 DEF AtMost
      <3>1. consumed[c] >= n["gather"][c] /\ published[c] < n["gather"][c]
        <4>1. consumed[c] = n["gather"][c] + AtMost(IF step[d] = 0 THEN 0 ELSE step[d] - 1, n["scatter"][c])
          BY <1>1, <2>2, <2>5
        <4>2. AtMost(IF step[d] = 0 THEN 0 ELSE step[d] - 1, n["scatter"][c]) \in Int
          BY <1>1 DEF AtMost
        <4>3. published[c] = step[c] /\ step[c] < n["gather"][c]
          BY <1>1, <2>1, <2>5
        <4> DEFINE t == AtMost(IF step[d] = 0 THEN 0 ELSE step[d] - 1, n["scatter"][c])
        <4>4. consumed[c] = n["gather"][c] + t /\ t \in Int /\ t >= 0
          BY <3>0, <4>1, <4>2
        <4> HIDE DEF t
        <4> QED BY <1>1, <4>3, <4>4
      <3> QED BY <1>1, <2>1, <3>1
    <2>6. CASE phase[c] = "scatter" /\ phase[d] = "gather"
      <3>1. consumed[d] >= n["gather"][d] /\ published[d] < n["gather"][d]
        BY <1>1, <2>1, <2>2, <2>6 DEF AtMost
      <3> QED BY <1>1, <2>2, <3>1
    <2> QED BY <1>1, <2>3, <2>5, <2>6
  <1>3. CASE pc[c] = "import" /\ pc[d] = "import"
    <2>1. /\ step[c] >= 1 /\ step[c] - 1 < n[phase[c]][d]
          /\ published[d] = Base(d, phase[c]) + step[c] - 1 /\ consumed[d] = published[d]
          /\ published[c] = Base(c, phase[c]) + AtMost(step[c], n[phase[c]][c])
      BY <1>3, WaitKinds, WaitsForBatch
    <2>2. /\ step[d] >= 1 /\ step[d] - 1 < n[phase[d]][c]
          /\ published[c] = Base(c, phase[d]) + step[d] - 1 /\ consumed[c] = published[c]
          /\ published[d] = Base(d, phase[d]) + AtMost(step[d], n[phase[d]][d])
      BY <1>3, WaitKinds, WaitsForBatch
    <2>3. CASE phase[c] = "gather" /\ phase[d] = "gather"
      BY <1>1, <2>1, <2>2, <2>3 DEF AtMost
    <2>4. CASE phase[c] = "scatter" /\ phase[d] = "scatter"
      BY <1>1, <2>1, <2>2, <2>4 DEF AtMost
    <2>5. CASE phase[c] = "gather" /\ phase[d] = "scatter"
      BY <1>1, <2>1, <2>2, <2>5 DEF AtMost
    <2>6. CASE phase[c] = "scatter" /\ phase[d] = "gather"
      BY <1>1, <2>1, <2>2, <2>6 DEF AtMost
    <2> QED BY <1>1, <2>3, <2>4, <2>5, <2>6
  <1>4. CASE pc[c] # pc[d]
    BY <1>1, <1>4, LoopWaitBounds
  <1> QED BY <1>2, <1>3, <1>4

(* As long as neither thread hangs in the device, one of them can go on    *)
(* without a time-out, and a failed thread leaves the other one no wait    *)
(* that does not see the poison (hybrid_ring.h's "it cannot deadlock").    *)
THEOREM SomeoneMovesHolds == Spec => []SomeoneMoves
  <1>1. IInv => SomeoneMoves
    <2> SUFFICES ASSUME IInv, \A c \in Cards : Stuck(c), NEW c \in Cards, pc[c] # "ended" PROVE FALSE
      BY DEF SomeoneMoves
    <2>0. TypeOK /\ Stages /\ Failures /\ \A x \in Cards : PositionOf(x) /\ RingOf(x)
      BY DEF IInv, Position, RingsHold
    <2> DEFINE d == Peer(c)
    <2>1. d \in Cards /\ Peer(d) = c /\ d # c /\ Waits(c) /\ ~SeesPoison(c)
      BY Peers DEF Stuck
    <2> HIDE DEF d
    <2>2. /\ sent \in Nat /\ taken \in Nat /\ taken <= sent /\ sent <= Chunks
          /\ Chunks \in Nat /\ ChanSlots \in Nat /\ ChanSlots >= 1
      BY <2>0, RingAssumption DEF TypeOK
    <2>3. \A x \in Cards : /\ n["gather"][x] \in Nat /\ n["scatter"][x] \in Nat
                           /\ Total(x) = n["gather"][x] + n["scatter"][x]
                           /\ phase[x] \in {"gather", "scatter"}
                           /\ published[x] \in Nat /\ consumed[x] \in Nat
                           /\ \A y \in Cards : Base(y, "gather") = 0 /\ Base(y, "scatter") = n["gather"][y]
      BY <2>0, Bases
    <2>4. \A x \in Cards : AfterStage(x) => sent = Chunks /\ (x = "B" => taken = Chunks)
      BY <2>0, <2>2 DEF Stages, Cards
    <2> DEFINE Passed(x, y) == published[x] = Total(x) /\ consumed[y] = Total(y)
    <2>5. ASSUME NEW x \in Cards, NEW y \in Cards, y = Peer(x), x = Peer(y), Passed(x, y), Waits(y),
                 pc[y] \in {"export", "import"}
          PROVE  FALSE
      BY <2>0, <2>3, <2>5, PastPhase
    <2>6. CASE pc[d] = "ended"
      <3>1. d \in adopted
        BY <2>0, <2>1, <2>6, PoisonReaches DEF Failures
      <3>2. open /\ taken = Chunks /\ Passed(d, c)
        BY <2>0, <2>1, <3>1 DEF Failures, Stages, PositionOf, Moved
      <3>3. pc[c] \in {"export", "import"}
        BY <2>1, <2>2, <3>2, WaitKinds
      <3> QED BY <2>1, <2>5, <3>2, <3>3, Peers
    <2>7. CASE pc[d] # "ended"
      <3>1. Waits(d)
        BY <2>1, <2>7 DEF Stuck
      <3>2. ASSUME NEW x \in Cards, NEW y \in Cards, y = Peer(x), x = Peer(y), Waits(x), Waits(y),
                   pc[x] \in {"stage", "wait"}
            PROVE  FALSE
        <4>1. CASE pc[x] = "wait"
          <5>1. ~open /\ x = "A" /\ y = "B" /\ sent = Chunks
            BY <2>0, <2>4, <3>2, <4>1, WaitKinds DEF Stages, AfterStage, Cards, Peer
          <5>2. Passed(x, y)
            BY <2>0, <3>2, <4>1 DEF PositionOf, Moved
          <5>3. pc[y] \in {"export", "import"}
            BY <2>0, <2>2, <3>2, <5>1, WaitKinds DEF Stages, AfterStage
          <5> QED BY <2>5, <3>2, <5>2, <5>3
        <4>2. CASE pc[x] = "stage"
          <5>1. Moved(x, n["gather"][x], n["gather"][y])
            BY <2>0, <3>2, <4>2 DEF PositionOf, Failures, Running
          <5>2. CASE AfterStage(y)
            BY <2>0, <2>2, <2>4, <3>2, <4>2, <5>2, WaitKinds DEF Peer, Cards
          <5>3. CASE ~AfterStage(y) /\ pc[y] \in {"export", "import"}
            <6>1. phase[y] = "gather"
              BY <2>3, <3>2, <5>3 DEF AfterStage, InLoop
            <6> QED BY <2>0, <2>3, <3>2, <5>1, <5>3, <6>1, PastPhase DEF Moved
          <5>4. CASE ~AfterStage(y) /\ pc[y] \notin {"export", "import"}
            BY <2>2, <3>2, <4>2, <5>4, WaitKinds DEF AfterStage, Cards, Peer
          <5> QED BY <5>2, <5>3, <5>4
        <4> QED BY <3>2, <4>1, <4>2
      <3>3. pc[c] \in {"export", "import", "stage", "wait"} /\ pc[d] \in {"export", "import", "stage", "wait"}
        BY <2>1, <3>1, WaitKinds
      <3>4. d = Peer(c) /\ c = Peer(d)
        BY <2>1 DEF d
      <3> QED BY <2>0, <2>1, <3>1, <3>2, <3>3, <3>4, LoopsMeet
    <2> QED BY <2>6, <2>7
  <1> QED BY InvHolds, <1>1, PTL

-----------------------------------------------------------------------------
(* The refinement. The batches under way are those from consumed to        *)
(* published.                                                              *)
Window(a, b) == [k \in 1..b - a |-> a + k - 1]

(* A window grows at its end and shrinks at its head. *)
LEMMA WindowIs ==
  ASSUME NEW a \in Nat, NEW b \in Nat, a <= b
  PROVE  /\ Window(a, b) \in Seq(Int) /\ Len(Window(a, b)) = b - a
         /\ Window(a, b + 1) = Append(Window(a, b), b)
         /\ a < b => /\ Window(a, b) # <<>> /\ Head(Window(a, b)) = a
                     /\ Window(a + 1, b) = Tail(Window(a, b))
  <1>1. \A x, y \in Nat : x <= y => Window(x, y) \in Seq(Int) /\ Len(Window(x, y)) = y - x
    BY DEF Window
  <1>2. Window(a, b + 1) = Append(Window(a, b), b)
    <2>1. Window(a, b + 1) \in Seq(Int) /\ Len(Window(a, b + 1)) = b - a + 1
      BY <1>1
    <2>0. Window(a, b) \in Seq(Int) /\ Len(Window(a, b)) = b - a /\ b \in Int
      BY <1>1
    <2>2. Append(Window(a, b), b) \in Seq(Int) /\ Len(Append(Window(a, b), b)) = b - a + 1
      BY <2>0
    <2>3. ASSUME NEW k \in 1..b - a + 1 PROVE Window(a, b + 1)[k] = Append(Window(a, b), b)[k]
      <3>1. Window(a, b + 1)[k] = a + k - 1
        BY DEF Window
      <3>2. CASE k = b - a + 1
        <4>1. Append(Window(a, b), b)[k] = b
          BY <2>0, <3>2
        <4> QED BY <3>1, <3>2, <4>1
      <3>3. CASE k # b - a + 1
        <4>1. k \in 1..b - a
          BY <3>3
        <4>2. Append(Window(a, b), b)[k] = Window(a, b)[k]
          BY <1>1, <4>1
        <4> QED BY <3>1, <4>1, <4>2 DEF Window
      <3> QED BY <3>2, <3>3
    <2> QED BY <2>1, <2>2, <2>3, SeqEqual
  <1>3. ASSUME a < b PROVE /\ Window(a, b) # <<>> /\ Head(Window(a, b)) = a
                           /\ Window(a + 1, b) = Tail(Window(a, b))
    <2>1. Window(a, b) \in Seq(Int) /\ Len(Window(a, b)) = b - a /\ Window(a, b)[1] = a
      BY <1>1, <1>3 DEF Window
    <2>2. Window(a, b) # <<>> /\ Head(Window(a, b)) = a
      BY <1>3, <2>1
    <2>3. Window(a + 1, b) \in Seq(Int) /\ Len(Window(a + 1, b)) = b - a - 1
      BY <1>1, <1>3
    <2>4. Tail(Window(a, b)) \in Seq(Int) /\ Len(Tail(Window(a, b))) = b - a - 1
      BY <2>1, <2>2, <1>3
    <2>5. ASSUME NEW k \in 1..b - a - 1 PROVE Window(a + 1, b)[k] = Tail(Window(a, b))[k]
      <3>1. Window(a + 1, b)[k] = a + k
        BY <1>3 DEF Window
      <3>2. Tail(Window(a, b))[k] = Window(a, b)[k + 1]
        BY <1>3, <2>1, <2>2
      <3>3. Window(a, b)[k + 1] = a + k
        BY <1>3 DEF Window
      <3> QED BY <3>1, <3>2, <3>3
    <2> QED BY <2>2, <2>3, <2>4, <2>5, SeqEqual
  <1> QED BY <1>1, <1>2, <1>3

(* Read through the slots, what is under way is the window. *)
LEMMA WayIs ==
  ASSUME TypeOK, RingsHold
  PROVE  /\ Way = [c \in Cards |-> Window(consumed[c], published[c])]
         /\ \A c \in Cards : /\ consumed[c] \in Nat /\ published[c] \in Nat /\ consumed[c] <= published[c]
                             /\ got[Peer(c)] \in Seq(Int) /\ Len(got[Peer(c)]) = consumed[c]
  <1>1. ASSUME NEW c \in Cards
        PROVE  /\ consumed[c] \in Nat /\ published[c] \in Nat /\ consumed[c] <= published[c]
               /\ got[Peer(c)] \in Seq(Int) /\ Len(got[Peer(c)]) = consumed[c]
    <2>1. consumed[c] \in Nat /\ published[c] \in Nat /\ RingOf(c)
      BY DEF TypeOK, RingsHold
    <2> QED BY <2>1 DEF RingOf
  <1>2. ASSUME NEW c \in Cards
        PROVE  [k \in 1..published[c] - consumed[c] |-> ring[c][(consumed[c] + k - 1) % Slots]]
                 = Window(consumed[c], published[c])
    <2>1. ASSUME NEW k \in 1..published[c] - consumed[c]
          PROVE  ring[c][(consumed[c] + k - 1) % Slots] = consumed[c] + k - 1
      <3>1. consumed[c] + k - 1 \in consumed[c]..published[c] - 1
        BY <1>1
      <3> QED BY <3>1 DEF RingsHold, RingOf
    <2> QED BY <2>1 DEF Window
  <1> QED BY <1>1, <1>2 DEF Way

(* The same of the state after a step. *)
LEMMA WayNext == (TypeOK /\ RingsHold => Way = [c \in Cards |-> Window(consumed[c], published[c])])'
  <1>1. TypeOK /\ RingsHold => Way = [c \in Cards |-> Window(consumed[c], published[c])]
    BY WayIs
  <1> QED BY <1>1, PTL

(* The abstract transfer's peer is the other card. *)
LEMMA AbstractPeer ==
  ASSUME NEW c \in Cards
  PROVE  Transfer!Peer(c) = Peer(c)
  BY DEF Transfer!Peer, Cards, Peer

(* Every step of the two threads is a send, a receive or a stutter of the  *)
(* transfer: Publish sends, Consume receives, and a D2H into a slot, an    *)
(* H2D out of one, a phase change or a failure is invisible.               *)
LEMMA TransferStep ==
  IInv /\ IInv' /\ [Next]_vars => [Transfer!Next]_(Transfer!vars)
  <1> SUFFICES ASSUME IInv, IInv', [Next]_vars PROVE [Transfer!Next]_(Transfer!vars)
    OBVIOUS
  <1>0. TypeOK /\ RingsHold /\ Position /\ Copies /\ TypeOK' /\ RingsHold'
    BY DEF IInv
  <1>1. /\ Way = [c \in Cards |-> Window(consumed[c], published[c])]
        /\ \A c \in Cards : /\ consumed[c] \in Nat /\ published[c] \in Nat /\ consumed[c] <= published[c]
                            /\ got[Peer(c)] \in Seq(Int) /\ Len(got[Peer(c)]) = consumed[c]
    BY <1>0, WayIs
  <1>3. Way' = [c \in Cards |-> Window(consumed'[c], published'[c])]
    BY <1>0, WayNext
  <1>4. ASSUME UNCHANGED <<published, consumed, got>> PROVE UNCHANGED Transfer!vars
    BY <1>1, <1>3, <1>4 DEF Transfer!vars
  <1>5. ASSUME NEW c \in Cards, Publish(c) PROVE Transfer!Send(c)
    <2>1. published[c] - consumed[c] < Slots
      <3>1. writing[c] = OutBatch(c) /\ SlotFree(c, OutBatch(c)) /\ OutBatch(c) = published[c]
        BY <1>0, <1>5, NextOut DEF Publish, Copies, CopiesOf, InLoop, Position
      <3> QED BY <3>1 DEF SlotFree
    <2>2. published' = [published EXCEPT ![c] = @ + 1] /\ UNCHANGED <<consumed, got>>
      BY <1>5 DEF Publish
    <2>3. \A d \in Cards : published'[d] = IF d = c THEN published[c] + 1 ELSE published[d]
      BY <1>0, <2>2 DEF TypeOK
    <2>4. Way[c] = Window(consumed[c], published[c]) /\ Len(Way[c]) = published[c] - consumed[c]
      BY <1>1, WindowIs
    <2>5. Len(got[Transfer!Peer(c)]) + Len(Way[c]) = published[c]
      <3>1. Len(got[Transfer!Peer(c)]) = consumed[c]
        BY <1>1, AbstractPeer
      <3> QED BY <1>1, <2>4, <3>1
    <2>6. Way' = [Way EXCEPT ![c] = Append(@, published[c])]
      <3>1. Window(consumed[c], published[c] + 1) = Append(Way[c], published[c])
        BY <1>1, <2>4, WindowIs
      <3>2. \A d \in Cards : Way'[d] = IF d = c THEN Append(Way[c], published[c]) ELSE Way[d]
        <4>1. ASSUME NEW d \in Cards PROVE consumed'[d] = consumed[d] /\ Way'[d] = Window(consumed'[d], published'[d])
          BY <1>3, <2>2
        <4>2. ASSUME NEW d \in Cards PROVE Way[d] = Window(consumed[d], published[d])
          BY <1>1
        <4> QED BY <2>3, <3>1, <4>1, <4>2
      <3>3. Way = [d \in Cards |-> Way[d]] /\ Way' = [d \in Cards |-> Way'[d]]
        BY <1>1, <1>3
      <3> QED BY <3>2, <3>3
    <2> QED BY <2>1, <2>2, <2>4, <2>5, <2>6 DEF Transfer!Send
  <1>6. ASSUME NEW c \in Cards, Consume(c) PROVE Transfer!Receive(c)
    <2> DEFINE d == Peer(c)
    <2>1. d \in Cards /\ Transfer!Peer(c) = d
      BY Peers, AbstractPeer
    <2> HIDE DEF d
    <2>2. /\ consumed[d] < published[d] /\ got' = [got EXCEPT ![c] = Append(@, consumed[d])]
      BY <1>0, <1>6, <2>1, RingConsume DEF RingsHold, Position, Copies, d
    <2>3. consumed' = [consumed EXCEPT ![d] = @ + 1] /\ UNCHANGED published
      BY <1>6 DEF Consume, d
    <2>4. \A x \in Cards : consumed'[x] = IF x = d THEN consumed[d] + 1 ELSE consumed[x]
      BY <1>0, <2>3 DEF TypeOK
    <2>5. /\ Way[d] = Window(consumed[d], published[d]) /\ Way[d] # <<>> /\ Head(Way[d]) = consumed[d]
          /\ Window(consumed[d] + 1, published[d]) = Tail(Way[d])
      BY <1>1, <2>1, <2>2, WindowIs
    <2>6. Way' = [Way EXCEPT ![d] = Tail(@)]
      <3>1. \A x \in Cards : Way'[x] = IF x = d THEN Tail(Way[d]) ELSE Way[x]
        BY <1>1, <1>3, <2>3, <2>4, <2>5
      <3>2. Way = [x \in Cards |-> Way[x]] /\ Way' = [x \in Cards |-> Way'[x]]
        BY <1>1, <1>3
      <3> QED BY <2>1, <3>1, <3>2
    <2> QED BY <2>1, <2>2, <2>5, <2>6 DEF Transfer!Receive
  <1>7. ASSUME NEW c \in Cards,
               \/ Skip(c) \/ ExportEnqueue(c) \/ ImportEnqueue(c)
               \/ Begin(c) \/ Adopt(c) \/ PoisonAll(c) \/ Drain(c)
        PROVE  UNCHANGED Transfer!vars
    BY <1>4, <1>7 DEF Skip, ExportEnqueue, ImportEnqueue, Begin, Adopt, PoisonAll, Drain, pipes, copies
  <1>8. ASSUME NEW c \in Cards, Poisoned(c) \/ Timeout(c) \/ Fault(c) PROVE UNCHANGED Transfer!vars
    BY <1>0, <1>4, <1>8, LeaveStep
  <1>9. CASE StageA \/ Arm \/ StageB \/ Disarm
    BY <1>4, <1>9 DEF StageA, Arm, StageB, Disarm, pipes, copies
  <1>10. CASE UNCHANGED vars
    BY <1>4, <1>10 DEF vars
  <1> QED
    BY StepCases, <1>5, <1>6, <1>7, <1>8, <1>9, <1>10 DEF Lockstep, Transfer!Next

(* The rings implement ReshardTransfer: whatever the threads, the streams, *)
(* the phases and the faults do, each card's batches reach the other in    *)
(* order, whole and once, and at most Slots of them are under way.         *)
THEOREM ImplementsHolds == Spec => Implements
  <1>1. Init => Transfer!Init
    <2> SUFFICES ASSUME Init PROVE Transfer!Init
      OBVIOUS
    <2>1. \A c \in Cards : published[c] - consumed[c] = 0
      BY DEF Init
    <2>2. Way = [c \in Cards |-> <<>>]
      <3>1. \A c \in Cards : [k \in 1..published[c] - consumed[c] |-> ring[c][(consumed[c] + k - 1) % Slots]] = <<>>
        BY <2>1
      <3> QED BY <3>1 DEF Way
    <2> QED BY <2>2 DEF Init, Transfer!Init
  <1> QED BY InvHolds, <1>1, TransferStep, PTL DEF Spec, Implements, Transfer!Spec
=============================================================================
