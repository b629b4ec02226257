---------------------------- MODULE BatchServing ----------------------------
(***************************************************************************)
(* Batched serving (--batch N): the request threads of                     *)
(* Engine::BatchWorkerLoop (src/src/server/engine.cpp), each with one slot *)
(* of the model, their ports (src/src/server/batch_port.h), the executor   *)
(* thread that owns the model (src/src/server/batch_executor.h), the       *)
(* bounded queue they pop (src/src/server/request_queue.h), and shutdown.  *)
(*                                                                         *)
(* A request takes the primary lock, has the executor reset the model's    *)
(* single-sequence state and prefill it, has it copied into the thread's   *)
(* slot, gives the lock back, and then decodes row by row: the executor    *)
(* feeds the waiting rows of several slots in one DecodeBatch call.        *)
(*                                                                         *)
(* A critical section of the executor's mutex is one step.  The model is   *)
(* the histories it holds: the prompts in the single-sequence state, and   *)
(* per slot the prompts imported and the rows fed since.                   *)
(***************************************************************************)
EXTENDS Integers, Sequences, FiniteSets

CONSTANTS
  Slot,       \* the slots, one request thread each
  Request,    \* the requests that arrive, each once
  MaxQueue,   \* --max-queue
  MaxTokens,  \* [request]: rows it decodes at most (max_tokens)
  Tp,         \* the model is a tensor-parallel group
  EarlyStop,  \* the executor may be stopped under its callers
  None

ASSUME BatchAssumption ==
  /\ MaxQueue \in Nat /\ MaxTokens \in [Request -> Nat]
  /\ Tp \in BOOLEAN /\ EarlyStop \in BOOLEAN
  /\ None \notin Slot \cup Request
  /\ IsFiniteSet(Slot) /\ Slot # {}

VARIABLES
  arriving,  \* requests the HTTP threads have yet to submit
  queue, closed,  \* BoundedQueue
  pc,        \* [slot]: where its request thread is
  cur,       \* [slot]: the request it runs
  got,       \* [slot]: tokens its request got back
  joined,    \* [slot]: joined_
  result,    \* [slot]: the future its thread waits for
  primary,   \* the owner of the primary lock
  jobs, steps, decoding, stop,  \* BatchExecutor: jobs_, steps_, decoding_, stop_
  jobTurn,   \* Loop(): job_turn
  exec,      \* where the executor thread is
  client,    \* the slot whose job runs
  taken,     \* the rows of the step being decoded
  stopper,   \* where the caller of Stop() is
  seq,       \* the model: prompts in the single-sequence state
  slot,      \* the model: [slot]: its SlotState and history
  health,    \* TpModel: state_
  stepsPast, \* ghost: steps begun while the head of jobs_ waited
  jobsPast   \* ghost: jobs begun while the head of steps_ waited

queueVars == <<arriving, queue, closed>>
threadVars == <<pc, cur, got, joined, primary>>
postVars == <<jobs, steps, decoding>>
loopVars == <<jobTurn, exec, client, taken>>
modelVars == <<seq, slot, health>>
ghostVars == <<stepsPast, jobsPast>>
vars == <<queueVars, threadVars, result, postVars, stop, stopper, loopVars, modelVars, ghostVars>>

Kinds == {"reset", "prefill", "release", "health"}
Points == {"pop", "lock", "reset", "wait_reset", "prefill", "wait_prefill", "join", "unlock",
           "decode", "wait_step", "fail", "wait_health", "finish", "release", "wait_release",
           "released", "exit"}
\* a slot that holds nothing (SlotState{})
Free == [active |-> FALSE, prompt |-> <<>>, rows |-> 0]

Init ==
  /\ arriving = Request /\ queue = <<>> /\ closed = FALSE
  /\ pc = [s \in Slot |-> "pop"] /\ cur = [s \in Slot |-> None]
  /\ got = [s \in Slot |-> 0] /\ joined = [s \in Slot |-> FALSE]
  /\ result = [s \in Slot |-> "none"] /\ primary = None
  /\ jobs = <<>> /\ steps = <<>> /\ decoding = {} /\ stop = FALSE
  /\ jobTurn = FALSE /\ exec = "wait" /\ client = None /\ taken = <<>> /\ stopper = "idle"
  /\ seq = <<>> /\ slot = [s \in Slot |-> Free] /\ health = "kReady"
  /\ stepsPast = 0 /\ jobsPast = 0

-----------------------------------------------------------------------------
(* The queue: HTTP threads submit, Shutdown closes.                        *)

Submit(r) ==
  /\ r \in arriving
  /\ arriving' = arriving \ {r}
  /\ queue' = IF closed \/ Len(queue) >= MaxQueue THEN queue ELSE Append(queue, r)
  /\ UNCHANGED <<closed, threadVars, result, postVars, stop, stopper, loopVars, modelVars, ghostVars>>

Close ==
  /\ ~closed /\ closed' = TRUE
  /\ UNCHANGED <<arriving, queue, threadVars, result, postVars, stop, stopper, loopVars, modelVars, ghostVars>>

-----------------------------------------------------------------------------
(* A request thread.                                                       *)

Goto(s, to) == pc' = [pc EXCEPT ![s] = to]
threadRest == <<queueVars, stop, stopper, loopVars, modelVars>>

Pop(s) ==
  /\ pc[s] = "pop" /\ queue # <<>>
  /\ queue' = Tail(queue)
  /\ cur' = [cur EXCEPT ![s] = Head(queue)]
  /\ Goto(s, "lock")
  /\ UNCHANGED <<arriving, closed, got, joined, primary, result, postVars, stop, stopper, loopVars,
                 modelVars, ghostVars>>

PopClosed(s) ==
  /\ pc[s] = "pop" /\ queue = <<>> /\ closed
  /\ Goto(s, "exit")
  /\ UNCHANGED <<cur, got, joined, primary, result, postVars, threadRest, ghostVars>>

\* BatchPort::Reset: the lock first
LockPrimary(s) ==
  /\ pc[s] = "lock" /\ primary = None
  /\ primary' = s
  /\ Goto(s, "reset")
  /\ UNCHANGED <<cur, got, joined, result, postVars, threadRest, ghostVars>>

(* BatchExecutor::Run up to result.get(): throws, to `otherwise`, once the *)
(* executor was stopped.                                                   *)
Run(s, kind, waiting, otherwise) ==
  /\ IF stop
       THEN Goto(s, otherwise) /\ UNCHANGED <<jobs, result, stepsPast>>
       ELSE /\ jobs' = Append(jobs, [kind |-> kind, slot |-> s])
            /\ result' = [result EXCEPT ![s] = "pending"]
            /\ stepsPast' = IF jobs = <<>> THEN 0 ELSE stepsPast
            /\ Goto(s, waiting)
  /\ UNCHANGED <<cur, got, joined, primary, steps, threadRest, jobsPast>>

PostReset(s) == pc[s] = "reset" /\ Run(s, "reset", "wait_reset", "fail") /\ UNCHANGED decoding
PostPrefill(s) ==
  pc[s] = "prefill" /\ Run(s, "prefill", "wait_prefill", "fail") /\ UNCHANGED decoding

\* the future is ready: its value or its exception
Got(s, point, ok, error) ==
  /\ pc[s] = point /\ result[s] \notin {"none", "pending"}
  /\ result' = [result EXCEPT ![s] = "none"]
  /\ Goto(s, IF result[s] = "ok" THEN ok ELSE error)

\* mutant: the lock is given back after the reset
GotResetUnlocks(s) ==
  /\ Got(s, "wait_reset", "prefill", "fail")
  /\ primary' = None
  /\ UNCHANGED <<cur, got, joined, postVars, threadRest, ghostVars>>

GotReset(s) ==
  /\ Got(s, "wait_reset", "prefill", "fail")
  /\ UNCHANGED <<cur, got, joined, primary, postVars, threadRest, ghostVars>>

GotPrefill(s) ==
  /\ Got(s, "wait_prefill", "join", "fail")
  /\ joined' = [joined EXCEPT ![s] = result[s] = "ok"]
  /\ UNCHANGED <<cur, got, primary, postVars, threadRest, ghostVars>>

Join(s) ==
  /\ pc[s] = "join"
  /\ decoding' = decoding \cup {s}
  /\ Goto(s, "unlock")
  /\ UNCHANGED <<cur, got, joined, primary, result, jobs, steps, threadRest, ghostVars>>

UnlockPrimary(s) ==
  /\ pc[s] = "unlock"
  /\ primary' = None
  /\ Goto(s, "decode")
  /\ UNCHANGED <<cur, got, joined, result, postVars, threadRest, ghostVars>>

(* BatchExecutor::StepAsync; the slot of a thread that waits for a row     *)
(* cannot post another, so only a stopped executor refuses.                *)
PostStep(s) ==
  /\ pc[s] = "decode" /\ got[s] < MaxTokens[cur[s]]
  /\ IF stop
       THEN Goto(s, "fail") /\ UNCHANGED <<steps, decoding, result, jobsPast>>
       ELSE /\ steps' = Append(steps, s)
            /\ decoding' = decoding \cup {s}
            /\ result' = [result EXCEPT ![s] = "pending"]
            /\ jobsPast' = IF steps = <<>> THEN 0 ELSE jobsPast
            /\ Goto(s, "wait_step")
  /\ UNCHANGED <<cur, got, joined, primary, jobs, threadRest, stepsPast>>

GotStep(s) ==
  /\ Got(s, "wait_step", "decode", "fail")
  /\ got' = [got EXCEPT ![s] = IF result[s] = "ok" THEN @ + 1 ELSE @]
  /\ UNCHANGED <<cur, joined, primary, postVars, threadRest, ghostVars>>

\* end of sequence, a stop string, the budget, a client that left
EndDecode(s) ==
  /\ pc[s] = "decode"
  /\ Goto(s, "finish")
  /\ UNCHANGED <<cur, got, joined, primary, result, postVars, threadRest, ghostVars>>

\* mutant: a callback that throws while the step runs does not wait for it
HostFailsEarly(s) ==
  /\ pc[s] \in {"lock", "prefill", "decode", "wait_step"}
  /\ Goto(s, "fail")
  /\ UNCHANGED <<cur, got, joined, primary, result, postVars, threadRest, ghostVars>>

\* an exception on the request's own thread (template, sink), or a 400
HostFails(s) ==
  /\ pc[s] \in {"lock", "prefill", "decode"}
  /\ Goto(s, "fail")
  /\ UNCHANGED <<cur, got, joined, primary, result, postVars, threadRest, ghostVars>>

\* the catch of RunRequest asks the executor for the group's health
AskHealth(s) ==
  /\ pc[s] = "fail"
  /\ IF Tp
       THEN Run(s, "health", "wait_health", "finish") /\ UNCHANGED decoding
       ELSE /\ Goto(s, "finish")
            /\ UNCHANGED <<cur, got, joined, primary, result, postVars, threadRest, ghostVars>>

GotHealth(s) ==
  /\ Got(s, "wait_health", "finish", "finish")
  /\ UNCHANGED <<cur, got, joined, primary, postVars, threadRest, ghostVars>>

(* ~BatchPort: Finish.  Leave and the release job only for a slot that was *)
(* imported; what Run throws is swallowed.                                 *)
Leave(s) ==
  /\ pc[s] = "finish" /\ joined[s]
  /\ decoding' = decoding \ {s}
  /\ Goto(s, "release")
  /\ UNCHANGED <<cur, got, joined, primary, result, jobs, steps, threadRest, ghostVars>>

PostRelease(s) ==
  pc[s] = "release" /\ Run(s, "release", "wait_release", "released") /\ UNCHANGED decoding

GotRelease(s) ==
  /\ Got(s, "wait_release", "released", "released")
  /\ UNCHANGED <<cur, got, joined, primary, postVars, threadRest, ghostVars>>

\* mutant: a request that failed before its import keeps the lock
FinishKeepsLock(s) ==
  /\ pc[s] = "released" \/ (pc[s] = "finish" /\ ~joined[s])
  /\ joined' = [joined EXCEPT ![s] = FALSE]
  /\ cur' = [cur EXCEPT ![s] = None] /\ got' = [got EXCEPT ![s] = 0]
  /\ Goto(s, "pop")
  /\ UNCHANGED <<primary, result, postVars, threadRest, ghostVars>>

Finish(s) ==
  /\ pc[s] = "released" \/ (pc[s] = "finish" /\ ~joined[s])
  /\ joined' = [joined EXCEPT ![s] = FALSE]
  /\ primary' = IF primary = s THEN None ELSE primary
  /\ cur' = [cur EXCEPT ![s] = None] /\ got' = [got EXCEPT ![s] = 0]
  /\ Goto(s, "pop")
  /\ UNCHANGED <<result, postVars, threadRest, ghostVars>>

-----------------------------------------------------------------------------
(* The executor thread: BatchExecutor::Loop.                               *)

execRest == <<queueVars, threadVars, decoding, stop, stopper>>

StartJob ==
  /\ exec = "wait" /\ ~stop
  /\ jobs # <<>> /\ (steps = <<>> \/ jobTurn)
  /\ exec' = Head(jobs).kind /\ client' = Head(jobs).slot
  /\ jobs' = Tail(jobs)
  /\ jobTurn' = FALSE
  /\ jobsPast' = IF steps = <<>> THEN 0 ELSE jobsPast + 1
  /\ stepsPast' = 0
  /\ UNCHANGED <<execRest, result, steps, taken, modelVars>>

(* The step waits for the rows of sequences between tokens, for a job, or  *)
(* for the window to close: it may begin with any rows that are there.     *)
StartGather ==
  /\ exec = "wait" /\ ~stop
  /\ steps # <<>> /\ (jobs = <<>> \/ ~jobTurn)
  /\ exec' = "gather"
  /\ UNCHANGED <<execRest, result, jobs, steps, jobTurn, client, taken, modelVars, ghostVars>>

TakeRows ==
  /\ exec = "gather" /\ ~stop
  /\ LET n == IF Len(steps) < Cardinality(Slot) THEN Len(steps) ELSE Cardinality(Slot)
     IN taken' = SubSeq(steps, 1, n) /\ steps' = SubSeq(steps, n + 1, Len(steps))
  /\ exec' = "step"
  /\ stepsPast' = IF jobs = <<>> THEN 0 ELSE stepsPast + 1
  /\ jobsPast' = 0
  /\ UNCHANGED <<execRest, result, jobs, jobTurn, client, modelVars>>

\* mutant: the wait for work does not look at stop_
SeesStopInGather == stop /\ exec = "gather"

SeesStop == stop /\ exec \in {"wait", "gather"}

Exit ==
  /\ SeesStop
  /\ exec' = "exited"
  /\ UNCHANGED <<execRest, result, jobs, steps, jobTurn, client, taken, modelVars, ghostVars>>

Rows == {taken[i] : i \in 1..Len(taken)}
Answer(who, what) == result' = [s \in Slot |-> IF s \in who THEN what ELSE result[s]]
\* a group that is not kReady refuses every call but Reset and BatchRelease
Refuses == health # "kReady"
(* A failed call: a group needs recovery, or is lost when a rank stalled;  *)
(* a single device does not care.                                          *)
Breaks == health' \in IF Tp THEN {"kNeedsRecovery", "kFatal"} ELSE {health}

\* mutant: no turn for the jobs after a step
StepDoneNoTurn ==
  /\ exec' = "wait" /\ taken' = <<>>
  /\ UNCHANGED <<execRest, jobs, steps, jobTurn, client, ghostVars>>

StepDone ==
  /\ exec' = "wait" /\ taken' = <<>> /\ jobTurn' = TRUE
  /\ UNCHANGED <<execRest, jobs, steps, client, ghostVars>>

(* batch::CheckStep on the rows: every slot holds a sequence, none twice.  *)
CheckStep ==
  /\ \A s \in Rows : slot[s].active
  /\ \A i, j \in 1..Len(taken) : taken[i] = taken[j] => i = j

\* a step feeds one token to the slot of every row
Advanced == [s \in Slot |-> IF s \in Rows THEN [slot[s] EXCEPT !.rows = @ + 1] ELSE slot[s]]

StepOk ==
  /\ exec = "step" /\ ~Refuses /\ CheckStep
  /\ slot' = Advanced
  /\ Answer(Rows, "ok")
  /\ StepDone
  /\ UNCHANGED <<seq, health>>

(* It threw.  Illegal rows throw before any slot is touched; a step that   *)
(* began gives its slots up, but for ranks that disagree only once they    *)
(* are done (RequireAllEqual).  Every row fails.                           *)
StepThrows ==
  /\ exec = "step" /\ ~Refuses
  /\ IF CheckStep
       THEN \/ slot' = [s \in Slot |-> IF s \in Rows THEN Free ELSE slot[s]]
            \/ Tp /\ slot' = Advanced
       ELSE UNCHANGED slot
  /\ Breaks
  /\ Answer(Rows, "error")
  /\ StepDone
  /\ UNCHANGED seq

StepRefused ==
  /\ exec = "step" /\ Refuses
  /\ Answer(Rows, "state_error")
  /\ StepDone
  /\ UNCHANGED modelVars

JobDone(what) ==
  /\ Answer({client}, what)
  /\ exec' = "wait" /\ client' = None
  /\ UNCHANGED <<execRest, jobs, steps, jobTurn, taken, ghostVars>>

\* Reset also recovers a group; the slots keep their sequences
ResetOk ==
  /\ exec = "reset" /\ health # "kFatal"
  /\ seq' = <<>> /\ health' = "kReady"
  /\ JobDone("ok")
  /\ UNCHANGED slot

\* a recovery that throws is the end of the group
ResetThrows ==
  /\ exec = "reset" /\ health # "kFatal"
  /\ seq' = <<None>>
  /\ IF health = "kReady" THEN Breaks ELSE health' = "kFatal"
  /\ JobDone("error")
  /\ UNCHANGED slot

ResetRefused ==
  /\ exec = "reset" /\ health = "kFatal"
  /\ JobDone("state_error")
  /\ UNCHANGED modelVars

\* PrefillAndImport: the prefill and the copy into the slot are one job
PrefillOk ==
  /\ exec = "prefill" /\ ~Refuses
  /\ seq' = Append(seq, cur[client])
  /\ slot' = [slot EXCEPT ![client] = [active |-> TRUE, prompt |-> seq', rows |-> 0]]
  /\ JobDone("ok")
  /\ UNCHANGED health

\* the prefill threw, or the import, which frees the slot it half filled
PrefillThrows ==
  /\ exec = "prefill" /\ ~Refuses
  /\ \/ seq' = <<None>> /\ UNCHANGED slot
     \/ seq' = Append(seq, cur[client]) /\ slot' = [slot EXCEPT ![client] = Free]
  /\ Breaks
  /\ JobDone("error")

PrefillRefused ==
  /\ exec = "prefill" /\ Refuses
  /\ JobDone("state_error")
  /\ UNCHANGED modelVars

\* BatchRelease: legal in any state but kFatal
ReleaseJob ==
  /\ exec = "release" /\ health # "kFatal"
  /\ slot' = [slot EXCEPT ![client] = Free]
  /\ JobDone("ok")
  /\ UNCHANGED <<seq, health>>

\* it throws in kFatal, and when a rank stalls
ReleaseThrows ==
  /\ exec = "release" /\ Tp
  /\ health' = "kFatal"
  /\ JobDone("error")
  /\ UNCHANGED <<seq, slot>>

HealthRead ==
  /\ exec = "health"
  /\ JobDone("ok")
  /\ UNCHANGED modelVars

-----------------------------------------------------------------------------
(* Stop(): Engine::Shutdown calls it when the request threads are gone; on *)
(* its own (EarlyStop) it fails whatever is queued.                        *)

stopRest == <<queueVars, threadVars, decoding, loopVars, modelVars>>

StopFlag ==
  /\ stopper = "idle"
  /\ EarlyStop \/ \A s \in Slot : pc[s] = "exit"
  /\ stop' = TRUE /\ stopper' = "join"
  /\ UNCHANGED <<stopRest, result, jobs, steps, ghostVars>>

\* mutant: the dropped jobs live on, their futures with them
StopDropSilent ==
  /\ stopper = "join" /\ exec = "exited"
  /\ Answer({steps[i] : i \in 1..Len(steps)}, "error")
  /\ jobs' = <<>> /\ steps' = <<>>
  /\ stopper' = "done"
  /\ UNCHANGED <<stopRest, stop, ghostVars>>

StopDrop ==
  /\ stopper = "join" /\ exec = "exited"
  /\ Answer({jobs[i].slot : i \in 1..Len(jobs)} \cup {steps[i] : i \in 1..Len(steps)}, "error")
  /\ jobs' = <<>> /\ steps' = <<>>
  /\ stopper' = "done"
  /\ UNCHANGED <<stopRest, stop, ghostVars>>

-----------------------------------------------------------------------------
Thread(s) ==
  \/ Pop(s) \/ PopClosed(s) \/ LockPrimary(s) \/ PostReset(s) \/ GotReset(s)
  \/ PostPrefill(s) \/ GotPrefill(s) \/ Join(s) \/ UnlockPrimary(s)
  \/ PostStep(s) \/ GotStep(s) \/ EndDecode(s)
  \/ AskHealth(s) \/ GotHealth(s) \/ Leave(s) \/ PostRelease(s) \/ GotRelease(s) \/ Finish(s)

Loop ==
  \/ StartJob \/ StartGather \/ TakeRows \/ Exit
  \/ StepOk \/ StepThrows \/ StepRefused
  \/ ResetOk \/ ResetThrows \/ ResetRefused \/ PrefillOk \/ PrefillThrows \/ PrefillRefused
  \/ ReleaseJob \/ ReleaseThrows \/ HealthRead

Done ==
  /\ stopper = "done" /\ arriving = {} /\ \A s \in Slot : pc[s] = "exit"
  /\ UNCHANGED vars

Next ==
  \/ \E r \in Request : Submit(r)
  \/ Close
  \/ \E s \in Slot : Thread(s) \/ HostFails(s)
  \/ Loop
  \/ StopFlag \/ StopDrop
  \/ Done

Spec == Init /\ [][Next]_vars

(* The threads run: a request thread, the executor thread and the caller   *)
(* of Stop each keep taking steps while they can.  Nothing says when a     *)
(* request arrives, whether anything fails, or whether the executor is     *)
(* stopped while it is in use.  Weak fairness of a thread is written with  *)
(* its enabling condition spelled out: all its steps move its pc.          *)
ThreadReady(s) ==
  CASE pc[s] = "pop" -> queue # <<>> \/ closed
    [] pc[s] = "lock" -> primary = None
    [] pc[s] = "exit" -> FALSE
    [] OTHER -> result[s] # "pending"

ThreadFairness(s) == []<>~ThreadReady(s) \/ []<><<pc'[s] # pc[s]>>_pc

LoopReady == CASE exec = "exited" -> FALSE
               [] exec = "wait" -> SeesStop \/ (~stop /\ (jobs # <<>> \/ steps # <<>>))
               [] OTHER -> TRUE

LoopFairness == []<>~LoopReady \/ []<><<exec' # exec>>_exec

StopReady ==
  \/ stopper = "idle" /\ \A s \in Slot : pc[s] = "exit"
  \/ stopper = "join" /\ exec = "exited"

StopFairness == []<>~StopReady \/ []<><<stopper' # stopper>>_stopper

Fairness == (\A s \in Slot : ThreadFairness(s)) /\ LoopFairness /\ StopFairness
LiveSpec == Spec /\ Fairness

-----------------------------------------------------------------------------
(* Properties.                                                             *)

(* Every variable keeps its type; the queue never passes its bound.        *)
TypeOK ==
  /\ arriving \subseteq Request /\ queue \in Seq(Request) /\ Len(queue) <= MaxQueue
  /\ closed \in BOOLEAN /\ stop \in BOOLEAN /\ jobTurn \in BOOLEAN
  /\ pc \in [Slot -> Points] /\ cur \in [Slot -> Request \cup {None}]
  /\ got \in [Slot -> Nat] /\ joined \in [Slot -> BOOLEAN]
  /\ result \in [Slot -> {"none", "pending", "ok", "error", "state_error"}]
  /\ primary \in Slot \cup {None}
  /\ jobs \in Seq([kind : Kinds, slot : Slot]) /\ steps \in Seq(Slot)
  /\ decoding \subseteq Slot /\ taken \in Seq(Slot)
  /\ exec \in {"wait", "gather", "step", "exited"} \cup Kinds /\ client \in Slot \cup {None}
  /\ stopper \in {"idle", "join", "done"}
  /\ seq \in Seq(Request \cup {None}) /\ health \in {"kReady", "kNeedsRecovery", "kFatal"}
  /\ slot \in [Slot -> [active : BOOLEAN, prompt : Seq(Request \cup {None}), rows : Nat]]
  /\ stepsPast \in Nat /\ jobsPast \in Nat

(* While a request decodes, its slot holds its own prompt, whole and       *)
(* alone, and the rows fed since are exactly the tokens it was answered:   *)
(* the primary lock keeps a second prompt out of the single-sequence state *)
(* from Reset to import (batch_port.h:158), and no failure of another      *)
(* request, no recovery and no batch it shares disturbs it.                *)
SlotIsOwn ==
  \A s \in Slot : pc[s] = "decode" =>
    slot[s] = [active |-> TRUE, prompt |-> <<cur[s]>>, rows |-> got[s]]

(* A request thread that takes its next request left nothing behind: its   *)
(* slot is free, no step waits for it and it holds no lock, however its    *)
(* last request ended (batch_port.h:129).  A stopped executor or a dead    *)
(* group cannot take the slot back.                                        *)
GivenBack ==
  \A s \in Slot : pc[s] = "pop" =>
    /\ primary # s /\ s \notin decoding
    /\ slot[s] = Free \/ stop \/ health = "kFatal"

(* The rows the executor gathers over a window in which other sequences    *)
(* join, leave and fail are a step CheckStep accepts (batch_plan.h:124):   *)
(* under TP an illegal one would cost the whole group.                     *)
StepIsLegal == exec = "step" /\ ~Refuses => CheckStep

(* Jobs and steps alternate while both wait (job_turn, batch_executor.h):  *)
(* at most one step begins before the waiting head job, at most one job    *)
(* before the waiting rows.                                                *)
Alternation == stepsPast <= 1 /\ jobsPast <= 1

(* Every request a thread took is over at some point: none waits for ever  *)
(* for a lock, a job or a row, whatever fails and whenever the executor    *)
(* is stopped (a dropped job answers its caller, batch_executor.h:150).    *)
RequestsEnd == \A s \in Slot : cur[s] # None ~> cur[s] = None

(* Shutdown ends once the queue is closed: the request threads drain it    *)
(* and go, then the executor is stopped and joined (engine.cpp:287).       *)
ShutdownEnds == closed ~> (stopper = "done" /\ \A s \in Slot : pc[s] = "exit")

-----------------------------------------------------------------------------
(* The inductive invariant behind SlotIsOwn, GivenBack, StepIsLegal and    *)
(* Alternation (BatchServingProofs).                                       *)

(* Where a thread waits for a job of a kind, or for its row.               *)
WaitPoint(kind) == CASE kind = "reset"   -> "wait_reset"
                     [] kind = "prefill" -> "wait_prefill"
                     [] kind = "release" -> "wait_release"
                     [] kind = "health"  -> "wait_health"
                     [] OTHER            -> "wait_step"
Pending(s, kind) == pc[s] = WaitPoint(kind) /\ result[s] = "pending"

(* Whatever the executor holds - queued, taken, or in progress - is one    *)
(* request of a thread that waits for just that, and no thread has two.    *)
JobsOwned ==
  /\ \A i \in 1..Len(jobs) : Pending(jobs[i].slot, jobs[i].kind)
  /\ \A i, j \in 1..Len(jobs) : jobs[i].slot = jobs[j].slot => i = j
StepsOwned ==
  /\ \A i \in 1..Len(steps) : Pending(steps[i], "step")
  /\ \A i, j \in 1..Len(steps) : steps[i] = steps[j] => i = j
TakenOwned ==
  /\ exec # "step" => taken = <<>>
  /\ \A i \in 1..Len(taken) : Pending(taken[i], "step")
  /\ \A i, j \in 1..Len(taken) : taken[i] = taken[j] => i = j
  /\ \A i \in 1..Len(taken), j \in 1..Len(steps) : taken[i] # steps[j]
ClientOwned ==
  IF exec \in Kinds
    THEN client \in Slot /\ Pending(client, exec) /\ \A i \in 1..Len(jobs) : jobs[i].slot # client
    ELSE client = None
Owned == JobsOwned /\ StepsOwned /\ TakenOwned /\ ClientOwned

(* The primary lock is held from the reset to the import, or kept by a     *)
(* request that failed in between until it is over.                        *)
Guarded == {"reset", "wait_reset", "prefill", "wait_prefill", "join", "unlock"}
Ending == {"fail", "wait_health", "finish", "release", "wait_release", "released"}
LockOf(s) ==
  /\ pc[s] \in Guarded => primary = s
  /\ primary = s => pc[s] \in Guarded \cup Ending
Locked == \A s \in Slot : LockOf(s)

(* What the single-sequence state and the thread's slot hold at each of    *)
(* its points, and that only an imported slot is among the decoding.       *)
Prefilled(s) == [active |-> TRUE, prompt |-> <<cur[s]>>, rows |-> got[s]]
Clean(s) == slot[s] = Free \/ stop \/ health = "kFatal"
ToPrefill(s) ==
  \/ pc[s] = "prefill" \/ (pc[s] = "wait_reset" /\ result[s] = "ok")
  \/ pc[s] = "wait_prefill" /\ result[s] = "pending"
Settled(s) ==
  \/ pc[s] \in {"join", "unlock", "decode"}
  \/ pc[s] = "wait_prefill" /\ result[s] = "ok"
  \/ pc[s] = "wait_step" /\ result[s] = "pending"
Without(s) ==
  \/ pc[s] \in {"pop", "lock", "reset", "wait_reset", "prefill", "exit", "released"}
  \/ pc[s] = "wait_prefill" /\ result[s] # "ok"
  \/ pc[s] \in {"fail", "wait_health", "finish"} /\ ~joined[s]
  \/ pc[s] = "wait_release" /\ result[s] # "pending"
SlotOf(s) ==
  /\ pc[s] \in {"join", "unlock", "decode", "wait_step", "release", "wait_release", "released"} => joined[s]
  /\ pc[s] \in {"pop", "lock", "reset", "wait_reset", "prefill", "wait_prefill", "exit"}
       => ~joined[s] /\ got[s] = 0
  /\ pc[s] \in {"join", "unlock"} => got[s] = 0
  /\ s \in decoding => joined[s] /\ pc[s] \notin {"release", "wait_release", "released"}
  /\ ToPrefill(s) => seq = <<>>
  /\ Settled(s) => slot[s] = Prefilled(s)
  /\ pc[s] = "wait_step" /\ result[s] = "ok"
       => slot[s] = [active |-> TRUE, prompt |-> <<cur[s]>>, rows |-> got[s] + 1]
  /\ Without(s) => Clean(s)
SlotsHold == \A s \in Slot : SlotOf(s)

(* Whose turn it is after one has passed the other, and when the executor  *)
(* may be gone.                                                            *)
Turns ==
  /\ stepsPast = 0 \/ (stepsPast = 1 /\
       (exec = "exited" \/ (jobs # <<>> /\ (exec = "step" \/ (exec = "wait" /\ jobTurn)))))
  /\ jobsPast = 0 \/ (jobsPast = 1 /\
       (exec = "exited" \/ (steps # <<>> /\ ~jobTurn /\ exec \in Kinds \cup {"wait", "gather"})))
  /\ exec = "exited" \/ stopper # "idle" => stop

IInv == TypeOK /\ Owned /\ Locked /\ SlotsHold /\ Turns
=============================================================================
