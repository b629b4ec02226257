------------------------- MODULE BatchServingProofs -------------------------
(***************************************************************************)
(* For any number of slots and requests, any budgets, and any failure or   *)
(* stop: while a request decodes its slot is its own, a thread that takes  *)
(* its next request left nothing behind, every step the executor begins is *)
(* legal, and jobs and steps alternate.  The proof is the invariance of    *)
(* BatchServing!IInv: first that every queued or running piece of work is  *)
(* owned by one waiting thread, then the primary lock, then what the model *)
(* holds for each slot.                                                    *)
(***************************************************************************)
EXTENDS BatchServing, TLAPS, FiniteSetTheorems

(* The steps of the specification. *)
LEMMA StepCases ==
  ASSUME [Next]_vars
  PROVE  \/ \E r \in Request : Submit(r)
         \/ Close
         \/ \E s \in Slot : Thread(s) \/ HostFails(s)
         \/ Loop
         \/ StopFlag \/ StopDrop
         \/ UNCHANGED vars
  BY DEF Next, Done

(* None is no slot and no request. *)
LEMMA NoneIsNone == None \notin Slot /\ None \notin Request /\ MaxQueue \in Nat
  BY BatchAssumption

(* What a request thread does touches its own entries, the queue, the lock *)
(* and what it posts; never the model or the executor's place in Loop().   *)
OwnOnly(s) ==
  /\ UNCHANGED <<stop, stopper, jobTurn, exec, client, taken, seq, slot, health>>
  /\ pc' \in [Slot -> Points] /\ cur' \in [Slot -> Request \cup {None}]
  /\ got' \in [Slot -> Nat] /\ joined' \in [Slot -> BOOLEAN]
  /\ result' \in [Slot -> {"none", "pending", "ok", "error", "state_error"}]
  /\ primary' \in Slot \cup {None} /\ decoding' \subseteq Slot
  /\ \A t \in Slot : t # s =>
       /\ pc'[t] = pc[t] /\ cur'[t] = cur[t] /\ got'[t] = got[t] /\ joined'[t] = joined[t]
       /\ result'[t] = result[t] /\ (t \in decoding' <=> t \in decoding)

(* A thread acts only when no job and no row of its own is with the        *)
(* executor.                                                               *)
Idle(s) == \A k \in Kinds \cup {"step"} : ~Pending(s, k)

(* Posting a job is a thread's own business. *)
LEMMA RunShape ==
  ASSUME TypeOK, NEW s \in Slot, NEW kind \in Kinds, NEW w \in Points, NEW o \in Points,
         Run(s, kind, w, o), UNCHANGED decoding
  PROVE  /\ OwnOnly(s) /\ UNCHANGED <<cur, got, joined, primary, decoding, steps, queueVars, jobsPast>>
         /\ \/ stop /\ pc'[s] = o /\ UNCHANGED <<jobs, result, stepsPast>>
            \/ /\ ~stop /\ pc'[s] = w /\ result'[s] = "pending"
               /\ jobs' = Append(jobs, [kind |-> kind, slot |-> s])
               /\ stepsPast' = IF jobs = <<>> THEN 0 ELSE stepsPast
  BY DEF TypeOK, Run, Goto, threadRest, loopVars, modelVars, OwnOnly

(* Every step of a request thread is its own. *)
LEMMA ThreadShape ==
  ASSUME TypeOK, NEW s \in Slot, Thread(s) \/ HostFails(s)
  PROVE  OwnOnly(s) /\ Idle(s)
  <1>0. \A k \in Kinds \cup {"step"} :
          WaitPoint(k) \in {"wait_reset", "wait_prefill", "wait_release", "wait_health", "wait_step"}
    BY DEF WaitPoint, Kinds
  <1>1. pc[s] \notin {"wait_reset", "wait_prefill", "wait_release", "wait_health", "wait_step"} => Idle(s)
    BY <1>0 DEF Idle, Pending
  <1>2. result[s] # "pending" => Idle(s)
    BY DEF Idle, Pending
  <1> USE DEF Points
  <1>3. CASE Pop(s)
    <2>1. Head(queue) \in Request
      BY <1>3 DEF TypeOK, Pop
    <2> QED BY <1>1, <1>3, <2>1 DEF Pop, Goto, TypeOK, loopVars, modelVars, postVars, OwnOnly
  <1>4. CASE PopClosed(s)
    BY <1>1, <1>4 DEF PopClosed, Goto, TypeOK, threadRest, loopVars, modelVars, postVars, OwnOnly
  <1>5. CASE LockPrimary(s)
    BY <1>1, <1>5 DEF LockPrimary, Goto, TypeOK, threadRest, loopVars, modelVars, postVars, OwnOnly
  <1>6. CASE PostReset(s) \/ PostPrefill(s) \/ PostRelease(s)
    BY <1>1, <1>6, RunShape DEF PostReset, PostPrefill, PostRelease, Kinds
  <1>7a. CASE GotReset(s)
    <2>1. /\ pc' \in [Slot -> Points]
          /\ result' \in [Slot -> {"none", "pending", "ok", "error", "state_error"}]
          /\ result[s] # "pending"
          /\ \A t \in Slot : t # s => pc'[t] = pc[t] /\ result'[t] = result[t]
      BY <1>7a DEF GotReset, Got, Goto, TypeOK
    <2> QED BY <1>2, <1>7a, <2>1 DEF GotReset, TypeOK, threadRest, loopVars, modelVars, postVars, OwnOnly
  <1>7b. CASE GotHealth(s)
    <2>1. /\ pc' \in [Slot -> Points]
          /\ result' \in [Slot -> {"none", "pending", "ok", "error", "state_error"}]
          /\ result[s] # "pending"
          /\ \A t \in Slot : t # s => pc'[t] = pc[t] /\ result'[t] = result[t]
      BY <1>7b DEF GotHealth, Got, Goto, TypeOK
    <2> QED BY <1>2, <1>7b, <2>1 DEF GotHealth, TypeOK, threadRest, loopVars, modelVars, postVars, OwnOnly
  <1>7c. CASE GotRelease(s)
    <2>1. /\ pc' \in [Slot -> Points]
          /\ result' \in [Slot -> {"none", "pending", "ok", "error", "state_error"}]
          /\ result[s] # "pending"
          /\ \A t \in Slot : t # s => pc'[t] = pc[t] /\ result'[t] = result[t]
      BY <1>7c DEF GotRelease, Got, Goto, TypeOK
    <2> QED BY <1>2, <1>7c, <2>1 DEF GotRelease, TypeOK, threadRest, loopVars, modelVars, postVars, OwnOnly
  <1>8. CASE GotPrefill(s)
    <2>1. /\ pc' \in [Slot -> Points]
          /\ result' \in [Slot -> {"none", "pending", "ok", "error", "state_error"}]
          /\ result[s] # "pending"
          /\ \A t \in Slot : t # s => pc'[t] = pc[t] /\ result'[t] = result[t]
      BY <1>8 DEF GotPrefill, Got, Goto, TypeOK
    <2>2. joined' \in [Slot -> BOOLEAN] /\ \A t \in Slot : t # s => joined'[t] = joined[t]
      BY <1>8 DEF GotPrefill, TypeOK
    <2> QED BY <1>2, <1>8, <2>1, <2>2 DEF GotPrefill, TypeOK, threadRest, loopVars, modelVars, postVars, OwnOnly
  <1>9. CASE GotStep(s)
    <2>1. /\ pc' \in [Slot -> Points]
          /\ result' \in [Slot -> {"none", "pending", "ok", "error", "state_error"}]
          /\ result[s] # "pending"
          /\ \A t \in Slot : t # s => pc'[t] = pc[t] /\ result'[t] = result[t]
      BY <1>9 DEF GotStep, Got, Goto, TypeOK
    <2>2. got[s] \in Nat /\ got[s] + 1 \in Nat
      BY DEF TypeOK
    <2>3. got' \in [Slot -> Nat] /\ \A t \in Slot : t # s => got'[t] = got[t]
      BY <1>9, <2>2 DEF GotStep, TypeOK
    <2> QED BY <1>2, <1>9, <2>1, <2>3 DEF GotStep, TypeOK, threadRest, loopVars, modelVars, postVars, OwnOnly
  <1>10. CASE Join(s)
    BY <1>1, <1>10 DEF Join, Goto, TypeOK, threadRest, loopVars, modelVars, OwnOnly
  <1>11. CASE UnlockPrimary(s)
    BY <1>1, <1>11 DEF UnlockPrimary, Goto, TypeOK, threadRest, loopVars, modelVars, postVars, OwnOnly
  <1>12. CASE PostStep(s)
    <2>1. CASE stop
      BY <1>1, <1>12, <2>1 DEF PostStep, Goto, TypeOK, threadRest, loopVars, modelVars, OwnOnly
    <2>2. CASE ~stop
      <3>1. /\ pc' \in [Slot -> Points] /\ decoding' \subseteq Slot
            /\ result' \in [Slot -> {"none", "pending", "ok", "error", "state_error"}]
            /\ \A t \in Slot : t # s => /\ pc'[t] = pc[t] /\ result'[t] = result[t]
                                      /\ (t \in decoding' <=> t \in decoding)
        <4>1. /\ pc' = [pc EXCEPT ![s] = "wait_step"] /\ result' = [result EXCEPT ![s] = "pending"]
              /\ decoding' = decoding \cup {s}
          BY <1>12, <2>2 DEF PostStep, Goto
        <4> QED BY <4>1 DEF TypeOK
      <3> QED BY <1>1, <1>12, <3>1 DEF PostStep, TypeOK, threadRest, loopVars, modelVars, OwnOnly
    <2> QED BY <2>1, <2>2
  <1>13. CASE EndDecode(s) \/ HostFails(s)
    BY <1>1, <1>13 DEF EndDecode, HostFails, Goto, TypeOK, threadRest, loopVars, modelVars, postVars, OwnOnly
  <1>14. CASE AskHealth(s)
    <2>1. CASE Tp
      BY <1>1, <1>14, <2>1, RunShape DEF AskHealth, Kinds
    <2>2. CASE ~Tp
      BY <1>1, <1>14, <2>2 DEF AskHealth, Goto, TypeOK, threadRest, loopVars, modelVars, postVars, OwnOnly
    <2> QED BY <2>1, <2>2
  <1>15. CASE Leave(s)
    BY <1>1, <1>15 DEF Leave, Goto, TypeOK, threadRest, loopVars, modelVars, OwnOnly
  <1>16. CASE Finish(s)
    BY <1>1, <1>16 DEF Finish, Goto, TypeOK, threadRest, loopVars, modelVars, postVars, OwnOnly
  <1> QED
    BY <1>3, <1>4, <1>5, <1>6, <1>7a, <1>7b, <1>7c, <1>8, <1>9, <1>10, <1>11, <1>12, <1>13, <1>14, <1>15, <1>16
       DEF Thread

(* What the executor does touches no thread's place, lock or queue.        *)
ExecOnly ==
  /\ UNCHANGED <<queueVars, threadVars, decoding, stop, stopper>>
  /\ result' \in [Slot -> {"none", "pending", "ok", "error", "state_error"}]

(* An answer reaches the threads it is for and no other. *)
LEMMA AnswerIs ==
  ASSUME TypeOK, NEW who, NEW what \in {"ok", "error", "state_error"}, Answer(who, what)
  PROVE  /\ result' \in [Slot -> {"none", "pending", "ok", "error", "state_error"}]
         /\ \A s \in Slot : result'[s] = IF s \in who THEN what ELSE result[s]
  BY DEF Answer, TypeOK

(* The histories the model may hold. *)
SlotTypes == [active : BOOLEAN, prompt : Seq(Request \cup {None}), rows : Nat]

(* A freed, an advanced and a filled slot are histories. *)
LEMMA SlotContents ==
  ASSUME TypeOK
  PROVE  /\ Free \in SlotTypes /\ Advanced \in [Slot -> SlotTypes]
         /\ [s \in Slot |-> IF s \in Rows THEN Free ELSE slot[s]] \in [Slot -> SlotTypes]
         /\ \A q \in Seq(Request \cup {None}) : [active |-> TRUE, prompt |-> q, rows |-> 0] \in SlotTypes
  <1>1. Free \in SlotTypes
    BY DEF Free, SlotTypes
  <1>2. slot \in [Slot -> SlotTypes]
    BY DEF TypeOK, SlotTypes
  <1>3. ASSUME NEW s \in Slot PROVE [slot[s] EXCEPT !.rows = @ + 1] \in SlotTypes
    <2>1. slot[s] \in SlotTypes
      BY <1>2
    <2> QED BY <2>1 DEF SlotTypes
  <1>4. Advanced \in [Slot -> SlotTypes]
    BY <1>2, <1>3 DEF Advanced
  <1>5. [s \in Slot |-> IF s \in Rows THEN Free ELSE slot[s]] \in [Slot -> SlotTypes]
    BY <1>1, <1>2
  <1>6. \A q \in Seq(Request \cup {None}) : [active |-> TRUE, prompt |-> q, rows |-> 0] \in SlotTypes
    BY DEF SlotTypes
  <1> QED BY <1>1, <1>4, <1>5, <1>6

(* The rows and the model of a step that ran, threw or was refused. *)
LEMMA StepTypes ==
  ASSUME TypeOK, StepOk \/ StepThrows \/ StepRefused
  PROVE  /\ ExecOnly /\ UNCHANGED <<jobs, steps, client, seq, ghostVars>>
         /\ exec = "step" /\ exec' = "wait" /\ taken' = <<>> /\ jobTurn' = TRUE
         /\ slot' \in [Slot -> SlotTypes] /\ health' \in {"kReady", "kNeedsRecovery", "kFatal"}
         /\ health = "kFatal" => health' = "kFatal"
         /\ \E what \in {"ok", "error", "state_error"} :
              \A s \in Slot : result'[s] = IF s \in Rows THEN what ELSE result[s]
  <1>0. slot \in [Slot -> SlotTypes] /\ health \in {"kReady", "kNeedsRecovery", "kFatal"}
    BY DEF TypeOK, SlotTypes
  <1>1. CASE StepOk
    <2>1. Answer(Rows, "ok") /\ StepDone /\ slot' = Advanced /\ exec = "step" /\ UNCHANGED <<seq, health>>
      BY <1>1 DEF StepOk
    <2> QED BY <1>0, <2>1, AnswerIs, SlotContents DEF StepDone, execRest, ExecOnly
  <1>2. CASE StepThrows
    <2>1. Answer(Rows, "error") /\ StepDone /\ exec = "step" /\ UNCHANGED seq /\ ~Refuses /\ Breaks
      BY <1>2 DEF StepThrows
    <2>2. slot' \in [Slot -> SlotTypes]
      BY <1>0, <1>2, SlotContents DEF StepThrows
    <2>3. health' \in {"kReady", "kNeedsRecovery", "kFatal"} /\ health # "kFatal"
      BY <1>0, <2>1 DEF Breaks, Refuses
    <2> QED BY <2>1, <2>2, <2>3, AnswerIs DEF StepDone, execRest, ExecOnly
  <1>3. CASE StepRefused
    <2>1. Answer(Rows, "state_error") /\ StepDone /\ exec = "step" /\ UNCHANGED <<seq, slot, health>>
      BY <1>3 DEF StepRefused, modelVars
    <2> QED BY <1>0, <2>1, AnswerIs DEF StepDone, execRest, ExecOnly
  <1> QED BY <1>1, <1>2, <1>3

(* The executor runs one job to its end. *)
Jobs ==
  \/ ResetOk \/ ResetThrows \/ ResetRefused \/ PrefillOk \/ PrefillThrows \/ PrefillRefused
  \/ ReleaseJob \/ ReleaseThrows \/ HealthRead

(* The same of a job: it answers its client and touches no slot but that   *)
(* client's.                                                               *)
LEMMA JobTypes ==
  ASSUME TypeOK, ClientOwned, Jobs
  PROVE  /\ ExecOnly /\ UNCHANGED <<jobs, steps, jobTurn, taken, ghostVars>>
         /\ exec \in Kinds /\ exec' = "wait" /\ client' = None /\ client \in Slot
         /\ seq' \in Seq(Request \cup {None}) /\ slot' \in [Slot -> SlotTypes]
         /\ health' \in {"kReady", "kNeedsRecovery", "kFatal"}
         /\ health = "kFatal" => health' = "kFatal"
         /\ \A s \in Slot : s # client => slot'[s] = slot[s]
         /\ \E what \in {"ok", "error"} \cup {"state_error"} :
              \A s \in Slot : result'[s] = IF s = client THEN what ELSE result[s]
  <1> DEFINE Hist == Seq(Request \cup {None})
             After(what) == /\ ExecOnly /\ UNCHANGED <<jobs, steps, jobTurn, taken, ghostVars>>
                            /\ exec' = "wait" /\ client' = None
                            /\ \A s \in Slot : result'[s] = IF s = client THEN what ELSE result[s]
  <1>0. /\ slot \in [Slot -> SlotTypes] /\ health \in {"kReady", "kNeedsRecovery", "kFatal"}
        /\ seq \in Hist /\ <<>> \in Hist /\ <<None>> \in Hist
    BY DEF TypeOK, SlotTypes
  <1>1. exec \in Kinds /\ client \in Slot
    <2>1. exec \in Kinds
      BY DEF Jobs, ResetOk, ResetThrows, ResetRefused, PrefillOk, PrefillThrows, PrefillRefused, ReleaseJob,
             ReleaseThrows, HealthRead, Kinds
    <2> QED BY <2>1 DEF ClientOwned
  <1>2. ASSUME NEW what \in {"ok", "error", "state_error"}, JobDone(what) PROVE After(what)
    <2>1. Answer({client}, what)
      BY <1>2 DEF JobDone
    <2> QED BY <1>2, <2>1, AnswerIs DEF JobDone, execRest, ExecOnly
  <1>3. cur[client] \in Request \cup {None}
    BY <1>1 DEF TypeOK
  <1>4. Append(seq, cur[client]) \in Hist
    BY <1>0, <1>3
  <1>5. ASSUME NEW v \in SlotTypes
        PROVE  /\ [slot EXCEPT ![client] = v] \in [Slot -> SlotTypes]
               /\ \A s \in Slot : s # client => [slot EXCEPT ![client] = v][s] = slot[s]
    BY <1>0, <1>1, <1>5
  <1>6. Free \in SlotTypes /\ \A q \in Hist : [active |-> TRUE, prompt |-> q, rows |-> 0] \in SlotTypes
    BY SlotContents
  <1>7. health = "kReady" /\ Breaks => health' \in {"kReady", "kNeedsRecovery", "kFatal"}
    BY DEF Breaks
  <1> HIDE DEF After, Hist
  <1>8. CASE ResetOk
    <2>1. After("ok")
      BY <1>2, <1>8 DEF ResetOk
    <2> QED BY <1>0, <1>1, <1>8, <2>1 DEF ResetOk, After, Hist
  <1>9. CASE ResetThrows
    <2>1. After("error")
      BY <1>2, <1>9 DEF ResetThrows
    <2>2. /\ seq' = <<None>> /\ UNCHANGED slot /\ health # "kFatal"
          /\ health' \in {"kReady", "kNeedsRecovery", "kFatal"}
      BY <1>7, <1>9 DEF ResetThrows
    <2> QED BY <1>0, <1>1, <2>1, <2>2 DEF After, Hist
  <1>10. CASE ResetRefused
    <2>1. After("state_error") /\ UNCHANGED <<seq, slot, health>>
      BY <1>2, <1>10 DEF ResetRefused, modelVars
    <2> QED BY <1>0, <1>1, <2>1 DEF After, Hist
  <1>11. CASE PrefillOk
    <2>1. After("ok")
      BY <1>2, <1>11 DEF PrefillOk
    <2>2. seq' \in Hist /\ UNCHANGED health
      BY <1>4, <1>11 DEF PrefillOk
    <2>3. slot' = [slot EXCEPT ![client] = [active |-> TRUE, prompt |-> seq', rows |-> 0]]
      BY <1>11 DEF PrefillOk
    <2>4. slot' \in [Slot -> SlotTypes] /\ \A s \in Slot : s # client => slot'[s] = slot[s]
      BY <1>5, <1>6, <2>2, <2>3
    <2> QED BY <1>0, <1>1, <2>1, <2>2, <2>4 DEF After, Hist
  <1>12. CASE PrefillThrows
    <2>1. After("error")
      BY <1>2, <1>12 DEF PrefillThrows
    <2>2. /\ health' \in {"kReady", "kNeedsRecovery", "kFatal"} /\ health # "kFatal"
      BY <1>7, <1>12 DEF PrefillThrows, Refuses
    <2>3. seq' \in Hist
      BY <1>0, <1>4, <1>12 DEF PrefillThrows
    <2>4. slot' \in [Slot -> SlotTypes] /\ \A s \in Slot : s # client => slot'[s] = slot[s]
      BY <1>0, <1>5, <1>6, <1>12 DEF PrefillThrows
    <2> QED BY <1>1, <2>1, <2>2, <2>3, <2>4 DEF After, Hist
  <1>13. CASE PrefillRefused
    <2>1. After("state_error") /\ UNCHANGED <<seq, slot, health>>
      BY <1>2, <1>13 DEF PrefillRefused, modelVars
    <2> QED BY <1>0, <1>1, <2>1 DEF After, Hist
  <1>14. CASE ReleaseJob
    <2>1. After("ok") /\ UNCHANGED <<seq, health>>
      BY <1>2, <1>14 DEF ReleaseJob
    <2>2. slot' \in [Slot -> SlotTypes] /\ \A s \in Slot : s # client => slot'[s] = slot[s]
      BY <1>5, <1>6, <1>14 DEF ReleaseJob
    <2> QED BY <1>0, <1>1, <2>1, <2>2 DEF After, Hist
  <1>15. CASE ReleaseThrows
    <2>1. After("error") /\ UNCHANGED <<seq, slot>> /\ health' = "kFatal"
      BY <1>2, <1>15 DEF ReleaseThrows
    <2> QED BY <1>0, <1>1, <2>1 DEF After, Hist
  <1>16. CASE HealthRead
    <2>1. After("ok") /\ UNCHANGED <<seq, slot, health>>
      BY <1>2, <1>16 DEF HealthRead, modelVars
    <2> QED BY <1>0, <1>1, <2>1 DEF After, Hist
  <1> QED
    BY <1>8, <1>9, <1>10, <1>11, <1>12, <1>13, <1>14, <1>15, <1>16 DEF Jobs

-----------------------------------------------------------------------------
(* What a thread posts: nothing, a job it then waits for, or a row.        *)
PostsJob(s) ==
  \/ jobs' = jobs /\ stepsPast' = stepsPast
  \/ \E k \in Kinds : /\ jobs' = Append(jobs, [kind |-> k, slot |-> s])
                      /\ pc'[s] = WaitPoint(k) /\ result'[s] = "pending"
                      /\ stepsPast' = IF jobs = <<>> THEN 0 ELSE stepsPast
PostsRow(s) ==
  \/ steps' = steps /\ jobsPast' = jobsPast
  \/ /\ steps' = Append(steps, s) /\ pc'[s] = "wait_step" /\ result'[s] = "pending"
     /\ jobsPast' = IF steps = <<>> THEN 0 ELSE jobsPast
PopsQueue == UNCHANGED queueVars \/ (queue # <<>> /\ queue' = Tail(queue) /\ UNCHANGED <<arriving, closed>>)

(* A thread posts at most one piece of work, a job or a row, and moves on  *)
(* to wait for it.                                                         *)
LEMMA ThreadPosts ==
  ASSUME TypeOK, NEW s \in Slot, Thread(s) \/ HostFails(s)
  PROVE  PostsJob(s) /\ PostsRow(s) /\ PopsQueue
  <1>1. ASSUME NEW kind \in Kinds, NEW o \in Points, Run(s, kind, WaitPoint(kind), o), UNCHANGED decoding
        PROVE  PostsJob(s) /\ PostsRow(s) /\ PopsQueue
    <2>1. WaitPoint(kind) \in Points
      BY DEF WaitPoint, Points
    <2>2. /\ UNCHANGED <<steps, queueVars, jobsPast>>
          /\ \/ UNCHANGED <<jobs, stepsPast>>
             \/ /\ pc'[s] = WaitPoint(kind) /\ result'[s] = "pending"
                /\ jobs' = Append(jobs, [kind |-> kind, slot |-> s])
                /\ stepsPast' = IF jobs = <<>> THEN 0 ELSE stepsPast
      BY <1>1, <2>1, RunShape
    <2> QED BY <2>2 DEF PostsJob, PostsRow, PopsQueue
  <1>2. UNCHANGED <<jobs, steps, stepsPast, jobsPast>> /\ PopsQueue => PostsJob(s) /\ PostsRow(s) /\ PopsQueue
    BY DEF PostsJob, PostsRow
  <1>3. UNCHANGED queueVars => PopsQueue
    BY DEF PopsQueue
  <1>4. CASE Pop(s)
    <2>1. PopsQueue
      BY <1>4 DEF Pop, PopsQueue
    <2> QED BY <1>2, <1>4, <2>1 DEF Pop, postVars, ghostVars
  <1>5. CASE PopClosed(s) \/ LockPrimary(s) \/ EndDecode(s) \/ HostFails(s) \/ UnlockPrimary(s)
    BY <1>2, <1>3, <1>5 DEF PopClosed, LockPrimary, EndDecode, HostFails, UnlockPrimary, threadRest, postVars, ghostVars
  <1>6. CASE Join(s) \/ Leave(s) \/ Finish(s)
    BY <1>2, <1>3, <1>6 DEF Join, Leave, Finish, threadRest, postVars, ghostVars
  <1>7. CASE GotReset(s) \/ GotPrefill(s) \/ GotStep(s) \/ GotHealth(s) \/ GotRelease(s)
    BY <1>2, <1>3, <1>7 DEF GotReset, GotPrefill, GotStep, GotHealth, GotRelease, threadRest, postVars, ghostVars
  <1>8. CASE PostReset(s) \/ PostPrefill(s) \/ PostRelease(s)
    <2>1. WaitPoint("reset") = "wait_reset" /\ WaitPoint("prefill") = "wait_prefill"
          /\ WaitPoint("release") = "wait_release"
      BY DEF WaitPoint
    <2>2. {"reset", "prefill", "release"} \subseteq Kinds /\ {"fail", "released"} \subseteq Points
      BY DEF Kinds, Points
    <2> QED BY <1>1, <1>8, <2>1, <2>2 DEF PostReset, PostPrefill, PostRelease
  <1>9. CASE AskHealth(s)
    <2>1. CASE Tp
      <3>1. WaitPoint("health") = "wait_health" /\ "health" \in Kinds /\ "finish" \in Points
        BY DEF WaitPoint, Kinds, Points
      <3> QED BY <1>1, <1>9, <2>1, <3>1 DEF AskHealth
    <2>2. CASE ~Tp
      BY <1>2, <1>3, <1>9, <2>2 DEF AskHealth, threadRest, postVars, ghostVars
    <2> QED BY <2>1, <2>2
  <1>10. CASE PostStep(s)
    <2>1. CASE stop
      BY <1>2, <1>3, <1>10, <2>1 DEF PostStep, threadRest
    <2>2. CASE ~stop
      <3>1. pc'[s] = "wait_step" /\ result'[s] = "pending"
        BY <1>10, <2>2 DEF PostStep, Goto, TypeOK
      <3>2. /\ UNCHANGED <<jobs, stepsPast, queueVars>>
            /\ steps' = Append(steps, s) /\ jobsPast' = IF steps = <<>> THEN 0 ELSE jobsPast
        BY <1>10, <2>2 DEF PostStep, threadRest
      <3> QED BY <1>3, <3>1, <3>2 DEF PostsJob, PostsRow
    <2> QED BY <2>1, <2>2
  <1> QED BY <1>4, <1>5, <1>6, <1>7, <1>8, <1>9, <1>10 DEF Thread

(* The first and the other jobs and rows. *)
LEMMA HeadAndTail ==
  ASSUME NEW S, NEW q \in Seq(S), q # <<>>
  PROVE  /\ Head(q) = q[1] /\ Head(q) \in S /\ Tail(q) \in Seq(S) /\ Len(Tail(q)) = Len(q) - 1
         /\ Len(q) \in Nat /\ Len(q) >= 1 /\ 1 \in 1..Len(q)
         /\ \A i \in 1..Len(Tail(q)) : Tail(q)[i] = q[i + 1] /\ i + 1 \in 1..Len(q)
  OBVIOUS

(* A step takes a prefix of the waiting rows and leaves the rest. *)
LEMMA RowsTaken ==
  ASSUME TypeOK, TakeRows
  PROVE  \E k \in 0..Len(steps) :
           /\ taken' \in Seq(Slot) /\ Len(taken') = k /\ \A i \in 1..k : taken'[i] = steps[i]
           /\ steps' \in Seq(Slot) /\ Len(steps') = Len(steps) - k
           /\ \A i \in 1..Len(steps) - k : steps'[i] = steps[i + k]
  <1> DEFINE k == IF Len(steps) < Cardinality(Slot) THEN Len(steps) ELSE Cardinality(Slot)
  <1>1. steps \in Seq(Slot) /\ Len(steps) \in Nat
    BY DEF TypeOK
  <1>2. Cardinality(Slot) \in Nat
    BY BatchAssumption, FS_CardinalityType
  <1>3. k \in 0..Len(steps)
    BY <1>1, <1>2
  <1>4. taken' = SubSeq(steps, 1, k) /\ steps' = SubSeq(steps, k + 1, Len(steps))
    BY DEF TakeRows
  <1> HIDE DEF k
  <1>5. taken' \in Seq(Slot) /\ Len(taken') = k /\ \A i \in 1..k : taken'[i] = steps[i]
    BY <1>1, <1>3, <1>4
  <1>6. /\ steps' \in Seq(Slot) /\ Len(steps') = Len(steps) - k
        /\ \A i \in 1..Len(steps) - k : steps'[i] = steps[i + k]
    <2>1. \A i \in k + 1..Len(steps) : i \in 1..Len(steps) /\ steps[i] \in Slot
      BY <1>1, <1>3
    <2>2. SubSeq(steps, k + 1, Len(steps)) = [i \in 1..Len(steps) - k |-> steps[i + k]]
      BY <1>1, <1>3
    <2>3. \A i \in 1..Len(steps) - k : steps[i + k] \in Slot
      BY <1>1, <1>3
    <2> QED BY <1>1, <1>3, <1>4, <2>2, <2>3
  <1> QED BY <1>3, <1>5, <1>6

(* Every step keeps the types. *)
LEMMA TypeStep == IInv /\ [Next]_vars => TypeOK'
  <1> SUFFICES ASSUME TypeOK, ClientOwned, [Next]_vars PROVE TypeOK'
    BY DEF IInv, Owned
  <1>1. ASSUME NEW r \in Request, Submit(r) PROVE TypeOK'
    <2>1. queue' \in Seq(Request) /\ Len(queue') <= MaxQueue
      <3>1. CASE closed \/ Len(queue) >= MaxQueue
        BY <1>1, <3>1 DEF Submit, TypeOK
      <3>2. CASE ~(closed \/ Len(queue) >= MaxQueue)
        BY <1>1, <3>2, NoneIsNone DEF Submit, TypeOK
      <3> QED BY <3>1, <3>2
    <2>2. arriving' \subseteq Request
      BY <1>1 DEF Submit, TypeOK
    <2> QED BY <1>1, <2>1, <2>2 DEF Submit, TypeOK, threadVars, postVars, loopVars, modelVars, ghostVars
  <1>2. CASE Close
    BY <1>2 DEF Close, TypeOK, threadVars, postVars, loopVars, modelVars, ghostVars
  <1>3. ASSUME NEW s \in Slot, Thread(s) \/ HostFails(s) PROVE TypeOK'
    <2>1. OwnOnly(s) /\ PostsJob(s) /\ PostsRow(s) /\ PopsQueue
      BY <1>3, ThreadShape, ThreadPosts
    <2>2. queue' \in Seq(Request) /\ Len(queue') <= MaxQueue /\ UNCHANGED <<arriving, closed>>
      <3>1. CASE UNCHANGED queueVars
        BY <3>1 DEF queueVars, TypeOK
      <3>2. CASE queue # <<>> /\ queue' = Tail(queue) /\ UNCHANGED <<arriving, closed>>
        <4>1. queue \in Seq(Request) /\ Len(queue) <= MaxQueue
          BY DEF TypeOK
        <4> QED BY <3>2, <4>1, HeadAndTail, NoneIsNone
      <3> QED BY <2>1, <3>1, <3>2 DEF PopsQueue
    <2>3. jobs' \in Seq([kind : Kinds, slot : Slot]) /\ stepsPast' \in Nat
      <3>1. jobs \in Seq([kind : Kinds, slot : Slot]) /\ stepsPast \in Nat
        BY DEF TypeOK
      <3>2. CASE jobs' = jobs /\ stepsPast' = stepsPast
        BY <3>1, <3>2
      <3>3. ASSUME NEW k \in Kinds, jobs' = Append(jobs, [kind |-> k, slot |-> s]),
                   stepsPast' = IF jobs = <<>> THEN 0 ELSE stepsPast
            PROVE  jobs' \in Seq([kind : Kinds, slot : Slot]) /\ stepsPast' \in Nat
        <4>1. [kind |-> k, slot |-> s] \in [kind : Kinds, slot : Slot]
          OBVIOUS
        <4>2. jobs' \in Seq([kind : Kinds, slot : Slot])
          BY <3>1, <3>3, <4>1
        <4> QED BY <3>1, <3>3, <4>2
      <3> QED BY <2>1, <3>2, <3>3 DEF PostsJob
    <2>4. steps' \in Seq(Slot) /\ jobsPast' \in Nat
      <3>1. steps \in Seq(Slot) /\ jobsPast \in Nat
        BY DEF TypeOK
      <3> QED BY <2>1, <3>1 DEF PostsRow
    <2> QED BY <2>1, <2>2, <2>3, <2>4 DEF OwnOnly, TypeOK
  <1>4. CASE StepOk \/ StepThrows \/ StepRefused
    <2>1. /\ ExecOnly /\ UNCHANGED <<jobs, steps, client, seq, ghostVars>>
          /\ exec' = "wait" /\ taken' = <<>> /\ jobTurn' = TRUE
          /\ slot' \in [Slot -> SlotTypes] /\ health' \in {"kReady", "kNeedsRecovery", "kFatal"}
      BY <1>4, StepTypes
    <2>2. taken' \in Seq(Slot) /\ jobTurn' \in BOOLEAN
      BY <2>1
    <2>3. /\ UNCHANGED <<arriving, queue, closed, pc, cur, got, joined, primary, decoding, stop, stopper>>
          /\ UNCHANGED <<jobs, steps, client, seq, stepsPast, jobsPast>>
          /\ result' \in [Slot -> {"none", "pending", "ok", "error", "state_error"}]
      BY <2>1 DEF ExecOnly, queueVars, threadVars, ghostVars
    <2>4. exec' = "wait" /\ health' \in {"kReady", "kNeedsRecovery", "kFatal"}
          /\ slot' \in [Slot -> [active : BOOLEAN, prompt : Seq(Request \cup {None}), rows : Nat]]
      BY <2>1 DEF SlotTypes
    <2> QED BY <2>2, <2>3, <2>4 DEF TypeOK
  <1>5. CASE Jobs
    BY <1>5, JobTypes DEF ExecOnly, SlotTypes, TypeOK, queueVars, threadVars, ghostVars
  <1>6. CASE StartJob
    <2>1. jobs \in Seq([kind : Kinds, slot : Slot]) /\ jobs # <<>>
      BY <1>6 DEF StartJob, TypeOK
    <2>2. Head(jobs) \in [kind : Kinds, slot : Slot] /\ Tail(jobs) \in Seq([kind : Kinds, slot : Slot])
      BY <2>1, HeadAndTail
    <2>3. stepsPast' \in Nat /\ jobsPast' \in Nat
      BY <1>6 DEF StartJob, TypeOK
    <2>4. exec' \in Kinds /\ client' \in Slot /\ jobs' \in Seq([kind : Kinds, slot : Slot]) /\ jobTurn' \in BOOLEAN
      BY <1>6, <2>2 DEF StartJob
    <2> QED BY <1>6, <2>3, <2>4 DEF StartJob, TypeOK, execRest, queueVars, threadVars, modelVars
  <1>7. CASE StartGather \/ Exit
    BY <1>7 DEF StartGather, Exit, TypeOK, execRest, queueVars, threadVars, modelVars, ghostVars
  <1>8. CASE TakeRows
    <2>1. taken' \in Seq(Slot) /\ steps' \in Seq(Slot)
      BY <1>8, RowsTaken
    <2>2. stepsPast' \in Nat /\ jobsPast' \in Nat
      BY <1>8 DEF TakeRows, TypeOK
    <2> QED BY <1>8, <2>1, <2>2 DEF TakeRows, TypeOK, execRest, queueVars, threadVars, modelVars
  <1>9. CASE StopFlag
    BY <1>9 DEF StopFlag, TypeOK, stopRest, queueVars, threadVars, loopVars, modelVars, ghostVars
  <1>10. CASE StopDrop
    <2>1. result' \in [Slot -> {"none", "pending", "ok", "error", "state_error"}]
      BY <1>10, AnswerIs DEF StopDrop
    <2>2. jobs' = <<>> /\ steps' = <<>>
      BY <1>10 DEF StopDrop
    <2> QED BY <1>10, <2>1, <2>2 DEF StopDrop, TypeOK, stopRest, queueVars, threadVars, loopVars, modelVars, ghostVars
  <1>11. CASE UNCHANGED vars
    BY <1>11 DEF vars, TypeOK, queueVars, threadVars, postVars, loopVars, modelVars, ghostVars
  <1> QED
    BY StepCases, <1>1, <1>2, <1>3, <1>4, <1>5, <1>6, <1>7, <1>8, <1>9, <1>10, <1>11 DEF Loop, Jobs

-----------------------------------------------------------------------------
(* A thread waits for one thing at a time. *)
LEMMA OneWait ==
  /\ \A j, k \in Kinds \cup {"step"} : WaitPoint(j) = WaitPoint(k) => j = k
  /\ WaitPoint("step") = "wait_step" /\ "step" \notin Kinds
  BY DEF WaitPoint, Kinds

(* What the executor holds stays owned while the owners stay where they    *)
(* are and nothing moves.                                                  *)
LEMMA OwnedFrame ==
  ASSUME Owned, UNCHANGED <<pc, result, jobs, steps, taken, client, exec>>
  PROVE  Owned'
  BY DEF Owned, JobsOwned, StepsOwned, TakenOwned, ClientOwned, Pending

(* After the step the thread waits for that still.                         *)
StillWaits(t, k) == pc'[t] = WaitPoint(k) /\ result'[t] = "pending"

(* A thread adds at most one thing of its own, and only when it had none.  *)
LEMMA ThreadOwned ==
  ASSUME TypeOK, Owned, NEW s \in Slot, Thread(s) \/ HostFails(s)
  PROVE  Owned'
  <1>1. OwnOnly(s) /\ Idle(s) /\ PostsJob(s) /\ PostsRow(s)
    BY ThreadShape, ThreadPosts
  <1>2. \A t \in Slot, k \in Kinds \cup {"step"} : Pending(t, k) => t # s /\ StillWaits(t, k)
    BY <1>1 DEF Pending, Idle, OwnOnly, StillWaits
  <1>3. jobs \in Seq([kind : Kinds, slot : Slot]) /\ steps \in Seq(Slot) /\ taken \in Seq(Slot)
    BY DEF TypeOK
  <1>4. \A i \in 1..Len(jobs) : /\ jobs[i].slot \in Slot /\ jobs[i].kind \in Kinds /\ jobs[i].slot # s
                                /\ StillWaits(jobs[i].slot, jobs[i].kind)
    <2> DEFINE J == [kind : Kinds, slot : Slot]
    <2>0. jobs \in Seq(J)
      BY <1>3
    <2> HIDE DEF J
    <2>1. \A i \in 1..Len(jobs) : jobs[i] \in J
      BY <2>0
    <2> USE DEF J
    <2>2. \A i \in 1..Len(jobs) : jobs[i].slot \in Slot /\ jobs[i].kind \in Kinds
      BY <2>1
    <2> QED BY <1>2, <2>2 DEF Owned, JobsOwned
  <1>5. \A i \in 1..Len(steps) : steps[i] \in Slot /\ steps[i] # s /\ StillWaits(steps[i], "step")
    <2>1. \A i \in 1..Len(steps) : steps[i] \in Slot
      BY <1>3
    <2> QED BY <1>2, <2>1 DEF Owned, StepsOwned
  <1>6. \A i \in 1..Len(taken) : taken[i] \in Slot /\ taken[i] # s /\ StillWaits(taken[i], "step")
    <2>1. \A i \in 1..Len(taken) : taken[i] \in Slot
      BY <1>3
    <2> QED BY <1>2, <2>1 DEF Owned, TakenOwned
  <1>7. JobsOwned'
    <2>1. CASE jobs' = jobs
      <3>1. \A i, j \in 1..Len(jobs) : jobs[i].slot = jobs[j].slot => i = j
        BY DEF Owned, JobsOwned
      <3>2. \A i \in 1..Len(jobs) : StillWaits(jobs[i].slot, jobs[i].kind)
        BY <1>4
      <3> QED BY <2>1, <3>1, <3>2 DEF JobsOwned, Pending, StillWaits
    <2>2. ASSUME NEW k \in Kinds, jobs' = Append(jobs, [kind |-> k, slot |-> s]),
                 pc'[s] = WaitPoint(k), result'[s] = "pending"
          PROVE  JobsOwned'
      <3>1. Len(jobs) \in Nat /\ Len(jobs') = Len(jobs) + 1
        BY <1>3, <2>2
      <3>2. \A i \in 1..Len(jobs) : jobs'[i] = jobs[i]
        BY <1>3, <2>2
      <3>3. jobs'[Len(jobs) + 1] = [kind |-> k, slot |-> s]
        BY <1>3, <2>2
      <3>4. jobs'[Len(jobs) + 1].slot = s /\ jobs'[Len(jobs) + 1].kind = k
        BY <3>3
      <3>5. \A i \in 1..Len(jobs') : i \in 1..Len(jobs) \/ i = Len(jobs) + 1
        BY <3>1
      <3>6. ASSUME NEW i \in 1..Len(jobs')
            PROVE  pc'[jobs'[i].slot] = WaitPoint(jobs'[i].kind) /\ result'[jobs'[i].slot] = "pending"
        BY <1>4, <2>2, <3>2, <3>4, <3>5 DEF StillWaits
      <3>7. ASSUME NEW i \in 1..Len(jobs'), NEW j \in 1..Len(jobs'), jobs'[i].slot = jobs'[j].slot PROVE i = j
        <4>1. CASE i \in 1..Len(jobs) /\ j \in 1..Len(jobs)
          BY <3>2, <3>7, <4>1 DEF Owned, JobsOwned
        <4>2. CASE i \in 1..Len(jobs) /\ j = Len(jobs) + 1
          BY <1>4, <3>2, <3>4, <3>7, <4>2
        <4>3. CASE i = Len(jobs) + 1 /\ j \in 1..Len(jobs)
          BY <1>4, <3>2, <3>4, <3>7, <4>3
        <4> QED BY <3>5, <4>1, <4>2, <4>3
      <3> QED BY <3>6, <3>7 DEF JobsOwned, Pending
    <2> QED BY <1>1, <2>1, <2>2 DEF PostsJob
  <1>8. StepsOwned' /\ TakenOwned'
    <2>0. UNCHANGED <<taken, exec>>
      BY <1>1 DEF OwnOnly
    <2>1. CASE steps' = steps
      <3>1. \A i, j \in 1..Len(steps) : steps[i] = steps[j] => i = j
        BY DEF Owned, StepsOwned
      <3>2. StepsOwned'
        BY <1>5, <2>1, <3>1 DEF StepsOwned, Pending, StillWaits
      <3>3. TakenOwned'
        BY <1>6, <2>0, <2>1 DEF Owned, TakenOwned, Pending, StillWaits
      <3> QED BY <3>2, <3>3
    <2>2. CASE steps' = Append(steps, s) /\ pc'[s] = "wait_step" /\ result'[s] = "pending"
      <3>1. Len(steps) \in Nat /\ Len(steps') = Len(steps) + 1
        BY <1>3, <2>2
      <3>2. \A i \in 1..Len(steps) : steps'[i] = steps[i]
        BY <1>3, <2>2
      <3>3. steps'[Len(steps) + 1] = s
        BY <1>3, <2>2
      <3>4. \A i \in 1..Len(steps') : i \in 1..Len(steps) \/ i = Len(steps) + 1
        BY <3>1
      <3>5. ASSUME NEW i \in 1..Len(steps')
            PROVE  pc'[steps'[i]] = "wait_step" /\ result'[steps'[i]] = "pending"
        BY <1>5, <2>2, <3>2, <3>3, <3>4, OneWait DEF StillWaits
      <3>6. ASSUME NEW i \in 1..Len(steps'), NEW j \in 1..Len(steps'), steps'[i] = steps'[j] PROVE i = j
        <4>1. CASE i \in 1..Len(steps) /\ j \in 1..Len(steps)
          BY <3>2, <3>6, <4>1 DEF Owned, StepsOwned
        <4>2. CASE i \in 1..Len(steps) /\ j = Len(steps) + 1
          BY <1>5, <3>2, <3>3, <3>6, <4>2
        <4>3. CASE i = Len(steps) + 1 /\ j \in 1..Len(steps)
          BY <1>5, <3>2, <3>3, <3>6, <4>3
        <4> QED BY <3>4, <4>1, <4>2, <4>3
      <3>7. ASSUME NEW i \in 1..Len(taken), NEW j \in 1..Len(steps') PROVE taken[i] # steps'[j]
        BY <1>6, <3>2, <3>3, <3>4 DEF Owned, TakenOwned
      <3>8. StepsOwned'
        BY <3>5, <3>6, OneWait DEF StepsOwned, Pending
      <3>9. TakenOwned'
        BY <1>6, <2>0, <3>7 DEF Owned, TakenOwned, Pending, StillWaits
      <3> QED BY <3>8, <3>9
    <2> QED BY <1>1, <2>1, <2>2 DEF PostsRow
  <1>9. ClientOwned'
    <2>0. UNCHANGED <<client, exec>>
      BY <1>1 DEF OwnOnly
    <2>1. CASE exec \in Kinds
      <3>1. client \in Slot /\ Pending(client, exec) /\ \A i \in 1..Len(jobs) : jobs[i].slot # client
        BY <2>1 DEF Owned, ClientOwned
      <3>2. client # s /\ StillWaits(client, exec)
        BY <1>2, <2>1, <3>1
      <3>3. \A i \in 1..Len(jobs') : jobs'[i].slot # client
        <4>1. CASE jobs' = jobs
          BY <3>1, <4>1
        <4>2. ASSUME NEW k \in Kinds, jobs' = Append(jobs, [kind |-> k, slot |-> s])
              PROVE  \A i \in 1..Len(jobs') : jobs'[i].slot # client
          <5>1. Len(jobs) \in Nat /\ Len(jobs') = Len(jobs) + 1
            BY <1>3, <4>2
          <5>2. \A i \in 1..Len(jobs) : jobs'[i] = jobs[i]
            BY <1>3, <4>2
          <5>3. jobs'[Len(jobs) + 1] = [kind |-> k, slot |-> s]
            BY <1>3, <4>2
          <5>4. \A i \in 1..Len(jobs') : i \in 1..Len(jobs) \/ i = Len(jobs) + 1
            BY <5>1
          <5> QED BY <3>1, <3>2, <5>2, <5>3, <5>4
        <4> QED BY <1>1, <4>1, <4>2 DEF PostsJob
      <3> QED BY <2>0, <2>1, <3>1, <3>2, <3>3 DEF ClientOwned, Pending, StillWaits
    <2>2. CASE exec \notin Kinds
      BY <2>0, <2>2 DEF Owned, ClientOwned
    <2> QED BY <2>1, <2>2
  <1> QED BY <1>7, <1>8, <1>9 DEF Owned

(* The owners of what is queued are slots and wait for what is queued. *)
LEMMA Owners ==
  ASSUME TypeOK, Owned
  PROVE  /\ \A i \in 1..Len(jobs) : jobs[i].slot \in Slot /\ jobs[i].kind \in Kinds /\ jobs[i].slot \notin Rows
         /\ \A i \in 1..Len(steps) : steps[i] \in Slot /\ steps[i] \notin Rows
         /\ \A i \in 1..Len(taken) : taken[i] \in Slot
         /\ exec \in Kinds => client \in Slot /\ client \notin Rows
                              /\ \A i \in 1..Len(steps) : steps[i] # client
  <1>1. \A i \in 1..Len(jobs) : jobs[i].slot \in Slot /\ jobs[i].kind \in Kinds
    <2> DEFINE J == [kind : Kinds, slot : Slot]
    <2>1. jobs \in Seq(J)
      BY DEF TypeOK
    <2> HIDE DEF J
    <2>2. \A i \in 1..Len(jobs) : jobs[i] \in J
      BY <2>1
    <2> QED BY <2>2 DEF J
  <1>2. \A i \in 1..Len(steps) : steps[i] \in Slot
    BY DEF TypeOK
  <1>3. \A i \in 1..Len(taken) : taken[i] \in Slot
    BY DEF TypeOK
  <1>4. \A s \in Rows : pc[s] = WaitPoint("step")
    BY DEF Owned, TakenOwned, Pending, Rows
  <1>5. \A i \in 1..Len(jobs) : pc[jobs[i].slot] = WaitPoint(jobs[i].kind)
    BY DEF Owned, JobsOwned, Pending
  <1>6. \A i \in 1..Len(jobs) : jobs[i].slot \notin Rows
    BY <1>1, <1>4, <1>5, OneWait
  <1>7. \A i \in 1..Len(steps) : steps[i] \notin Rows
    BY DEF Owned, TakenOwned, Rows
  <1>8. ASSUME exec \in Kinds
        PROVE  client \in Slot /\ client \notin Rows /\ \A i \in 1..Len(steps) : steps[i] # client
    <2>1. client \in Slot /\ pc[client] = WaitPoint(exec)
      BY <1>8 DEF Owned, ClientOwned, Pending
    <2>2. \A i \in 1..Len(steps) : pc[steps[i]] = WaitPoint("step")
      BY DEF Owned, StepsOwned, Pending
    <2> QED BY <1>4, <1>8, <2>1, <2>2, OneWait
  <1> QED BY <1>1, <1>2, <1>3, <1>6, <1>7, <1>8

(* Every step keeps each piece of work owned by one waiting thread. *)
LEMMA OwnedStep == IInv /\ [Next]_vars => Owned'
  <1> SUFFICES ASSUME TypeOK, Owned, [Next]_vars PROVE Owned'
    BY DEF IInv
  <1>0. JobsOwned /\ StepsOwned /\ TakenOwned /\ ClientOwned
    BY DEF Owned
  <1>1. ASSUME NEW r \in Request, Submit(r) PROVE Owned'
    BY <1>1, OwnedFrame DEF Submit, threadVars, postVars, loopVars
  <1>2. CASE Close \/ StopFlag \/ UNCHANGED vars
    BY <1>2, OwnedFrame DEF Close, StopFlag, vars, threadVars, postVars, loopVars, stopRest
  <1>3. ASSUME NEW s \in Slot, Thread(s) \/ HostFails(s) PROVE Owned'
    BY <1>3, ThreadOwned
  <1>4. CASE StepOk \/ StepThrows \/ StepRefused
    <2>1. /\ ExecOnly /\ UNCHANGED <<jobs, steps, client>>
          /\ exec = "step" /\ exec' = "wait" /\ taken' = <<>>
      BY <1>4, StepTypes
    <2>2. \A s \in Slot : s \notin Rows => result'[s] = result[s]
      BY <1>4, StepTypes
    <2>3. UNCHANGED pc
      BY <2>1 DEF ExecOnly, threadVars
    <2>4. JobsOwned'
      BY <1>0, <2>1, <2>2, <2>3, Owners DEF JobsOwned, Pending
    <2>5. StepsOwned'
      BY <1>0, <2>1, <2>2, <2>3, Owners DEF StepsOwned, Pending
    <2>6. TakenOwned'
      <3>1. 1..Len(taken') = {}
        BY <2>1
      <3> QED BY <2>1, <3>1 DEF TakenOwned
    <2>7. ClientOwned'
      BY <1>0, <2>1 DEF ClientOwned, Kinds
    <2> QED BY <2>4, <2>5, <2>6, <2>7 DEF Owned
  <1>5. CASE Jobs
    <2>1. /\ ExecOnly /\ UNCHANGED <<jobs, steps, taken>>
          /\ exec \in Kinds /\ exec' = "wait" /\ client' = None
      BY <1>0, <1>5, JobTypes
    <2>2. \A s \in Slot : s # client => result'[s] = result[s]
      BY <1>0, <1>5, JobTypes
    <2>3. UNCHANGED pc
      BY <2>1 DEF ExecOnly, threadVars
    <2>4. JobsOwned'
      BY <1>0, <2>1, <2>2, <2>3, Owners DEF JobsOwned, Pending, ClientOwned
    <2>5. StepsOwned'
      BY <1>0, <2>1, <2>2, <2>3, Owners DEF StepsOwned, Pending
    <2>6. TakenOwned'
      <3>1. taken = <<>>
        BY <1>0, <2>1, OneWait DEF TakenOwned
      <3>2. 1..Len(taken') = {}
        BY <2>1, <3>1
      <3> QED BY <2>1, <3>1, <3>2 DEF TakenOwned
    <2>7. ClientOwned'
      BY <2>1 DEF ClientOwned, Kinds
    <2> QED BY <2>4, <2>5, <2>6, <2>7 DEF Owned
  <1>6. CASE StartJob
    <2>1. /\ jobs # <<>> /\ exec = "wait" /\ exec' = Head(jobs).kind /\ client' = Head(jobs).slot
          /\ jobs' = Tail(jobs) /\ UNCHANGED <<pc, result, steps, taken>>
      BY <1>6 DEF StartJob, execRest, threadVars
    <2>2. /\ Head(jobs) = jobs[1] /\ Len(Tail(jobs)) = Len(jobs) - 1 /\ Len(jobs) \in Nat
          /\ 1 \in 1..Len(jobs)
          /\ \A i \in 1..Len(Tail(jobs)) : Tail(jobs)[i] = jobs[i + 1] /\ i + 1 \in 1..Len(jobs)
      <3> DEFINE J == [kind : Kinds, slot : Slot]
      <3>1. jobs \in Seq(J)
        BY DEF TypeOK
      <3> HIDE DEF J
      <3> QED BY <2>1, <3>1, HeadAndTail
    <2>3. \A i \in 1..Len(jobs') : jobs'[i] = jobs[i + 1] /\ i + 1 \in 1..Len(jobs) /\ i \in Nat /\ i >= 1
      BY <2>1, <2>2
    <2>4. JobsOwned'
      <3>1. \A i \in 1..Len(jobs') : pc'[jobs'[i].slot] = WaitPoint(jobs'[i].kind) /\ result'[jobs'[i].slot] = "pending"
        BY <1>0, <2>1, <2>3 DEF JobsOwned, Pending
      <3>2. \A i, j \in 1..Len(jobs') : jobs'[i].slot = jobs'[j].slot => i = j
        BY <1>0, <2>3 DEF JobsOwned
      <3> QED BY <3>1, <3>2 DEF JobsOwned, Pending
    <2>5. StepsOwned'
      BY <1>0, <2>1 DEF StepsOwned, Pending
    <2>6. exec' \in Kinds /\ client' \in Slot
      BY <2>1, <2>2, Owners
    <2>7. TakenOwned'
      <3>1. taken = <<>> /\ 1..Len(taken) = {}
        BY <1>0, <2>1 DEF TakenOwned
      <3> QED BY <2>1, <3>1 DEF TakenOwned
    <2>8. ClientOwned'
      <3>1. pc'[client'] = WaitPoint(exec') /\ result'[client'] = "pending"
        BY <1>0, <2>1, <2>2 DEF JobsOwned, Pending
      <3>2. \A i \in 1..Len(jobs') : jobs'[i].slot # client'
        <4>1. \A i \in 1..Len(jobs') : i + 1 # 1
          BY <2>3
        <4> QED BY <1>0, <2>1, <2>2, <2>3, <4>1 DEF JobsOwned
      <3> QED BY <2>6, <3>1, <3>2 DEF ClientOwned, Pending
    <2> QED BY <2>4, <2>5, <2>7, <2>8 DEF Owned
  <1>7. CASE StartGather \/ Exit
    <2>1. /\ exec \in {"wait", "gather"} /\ exec' \in {"gather", "exited"}
          /\ UNCHANGED <<pc, result, jobs, steps, taken, client>>
      BY <1>7 DEF StartGather, Exit, SeesStop, execRest, threadVars
    <2> QED BY <1>0, <2>1 DEF Owned, JobsOwned, StepsOwned, TakenOwned, ClientOwned, Pending, Kinds
  <1>8. CASE TakeRows
    <2>1. exec = "gather" /\ exec' = "step" /\ UNCHANGED <<pc, result, jobs, client>>
      BY <1>8 DEF TakeRows, execRest, threadVars
    <2>2. PICK k \in 0..Len(steps) :
            /\ Len(taken') = k /\ \A i \in 1..k : taken'[i] = steps[i]
            /\ Len(steps') = Len(steps) - k
            /\ \A i \in 1..Len(steps) - k : steps'[i] = steps[i + k]
      BY <1>8, RowsTaken
    <2>3. Len(steps) \in Nat /\ k \in Nat /\ k <= Len(steps)
      BY DEF TypeOK
    <2>4. /\ \A i \in 1..Len(taken') : i \in 1..Len(steps) /\ taken'[i] = steps[i] /\ i <= k
          /\ \A i \in 1..Len(steps') : i + k \in 1..Len(steps) /\ steps'[i] = steps[i + k] /\ i + k > k
      BY <2>2, <2>3
    <2>5. JobsOwned'
      BY <1>0, <2>1 DEF JobsOwned, Pending
    <2>6. StepsOwned'
      <3>1. \A i \in 1..Len(steps') : pc'[steps'[i]] = WaitPoint("step") /\ result'[steps'[i]] = "pending"
        BY <1>0, <2>1, <2>4 DEF StepsOwned, Pending
      <3>2. ASSUME NEW i \in 1..Len(steps'), NEW j \in 1..Len(steps'), steps'[i] = steps'[j] PROVE i = j
        <4>1. i + k = j + k
          BY <1>0, <2>4, <3>2 DEF StepsOwned
        <4> QED BY <2>3, <4>1
      <3> QED BY <3>1, <3>2 DEF StepsOwned, Pending
    <2>7. TakenOwned'
      <3>1. \A i \in 1..Len(taken') : pc'[taken'[i]] = WaitPoint("step") /\ result'[taken'[i]] = "pending"
        BY <1>0, <2>1, <2>4 DEF StepsOwned, Pending
      <3>2. \A i, j \in 1..Len(taken') : taken'[i] = taken'[j] => i = j
        BY <1>0, <2>4 DEF StepsOwned
      <3>3. ASSUME NEW i \in 1..Len(taken'), NEW j \in 1..Len(steps') PROVE taken'[i] # steps'[j]
        <4>1. i # j + k
          BY <2>3, <2>4
        <4> QED BY <1>0, <2>4, <4>1 DEF StepsOwned
      <3> QED BY <2>1, <3>1, <3>2, <3>3 DEF TakenOwned, Pending
    <2>8. ClientOwned'
      BY <1>0, <2>1 DEF ClientOwned, Kinds
    <2> QED BY <2>5, <2>6, <2>7, <2>8 DEF Owned
  <1>9. CASE StopDrop
    <2>1. exec = "exited" /\ jobs' = <<>> /\ steps' = <<>> /\ UNCHANGED <<exec, client, taken>>
      BY <1>9 DEF StopDrop, stopRest, loopVars
    <2>2. taken = <<>> /\ client = None
      BY <1>0, <2>1 DEF TakenOwned, ClientOwned, Kinds
    <2>3. 1..Len(jobs') = {} /\ 1..Len(steps') = {} /\ 1..Len(taken') = {}
      BY <2>1, <2>2
    <2> QED BY <2>1, <2>2, <2>3 DEF Owned, JobsOwned, StepsOwned, TakenOwned, ClientOwned, Kinds
  <1> QED
    BY StepCases, <1>1, <1>2, <1>3, <1>4, <1>5, <1>6, <1>7, <1>8, <1>9 DEF Loop, Jobs

-----------------------------------------------------------------------------
(* A step that changes no thread's place and not the lock. *)
LEMMA LockFrame ==
  ASSUME Locked, UNCHANGED <<pc, primary>>
  PROVE  Locked'
  BY DEF Locked, LockOf

(* The lock stays where it is unless its taker finds it free or its owner  *)
(* gives it back.                                                          *)
LEMMA LockMoves ==
  ASSUME TypeOK, Locked, NEW s \in Slot, LockOf(s)', \A t \in Slot : t # s => pc'[t] = pc[t],
         \/ primary' = primary
         \/ primary = None /\ primary' = s
         \/ primary = s /\ primary' = None
  PROVE  Locked'
  <1>1. ASSUME NEW t \in Slot, t # s PROVE LockOf(t)'
    <2>1. LockOf(t) /\ t # None
      BY NoneIsNone DEF Locked
    <2> QED BY <1>1, <2>1 DEF LockOf
  <1> QED BY <1>1 DEF Locked

(* Only the request that took it holds the primary lock, from its reset to *)
(* its import.                                                             *)
LEMMA LockedStep == IInv /\ [Next]_vars => Locked'
  <1> SUFFICES ASSUME TypeOK, ClientOwned, Locked, [Next]_vars PROVE Locked'
    BY DEF IInv, Owned
  <1>1. ASSUME NEW r \in Request, Submit(r) PROVE Locked'
    BY <1>1, LockFrame DEF Submit, threadVars
  <1>2. CASE Close \/ StopFlag \/ StopDrop \/ UNCHANGED vars
    BY <1>2, LockFrame DEF Close, StopFlag, StopDrop, vars, threadVars, stopRest
  <1>3. CASE StepOk \/ StepThrows \/ StepRefused
    BY <1>3, StepTypes, LockFrame DEF ExecOnly, threadVars
  <1>4. CASE Jobs
    BY <1>4, JobTypes, LockFrame DEF ExecOnly, threadVars
  <1>5. CASE StartJob \/ StartGather \/ TakeRows \/ Exit
    BY <1>5, LockFrame DEF StartJob, StartGather, TakeRows, Exit, execRest, threadVars
  <1>6. ASSUME NEW s \in Slot, Thread(s) \/ HostFails(s) PROVE Locked'
    <2>0. LockOf(s) /\ s # None
      BY NoneIsNone DEF Locked
    <2>1. \A t \in Slot : t # s => pc'[t] = pc[t]
      BY <1>6, ThreadShape DEF OwnOnly
    <2> USE DEF Guarded, Ending
    <2>2. ASSUME UNCHANGED primary, pc[s] \in Guarded <=> pc'[s] \in Guarded,
                 pc[s] \in Guarded \cup Ending => pc'[s] \in Guarded \cup Ending
          PROVE  Locked'
      BY <2>0, <2>1, <2>2, LockMoves DEF LockOf
    <2>3. ASSUME UNCHANGED primary, pc'[s] \in Ending PROVE Locked'
      BY <2>0, <2>1, <2>3, LockMoves DEF LockOf
    <2>4. CASE Pop(s) \/ PopClosed(s)
      <3>1. UNCHANGED primary /\ pc[s] = "pop" /\ pc'[s] \in {"lock", "exit"}
        BY <1>6, <2>4 DEF Pop, PopClosed, Goto, TypeOK
      <3> QED BY <2>2, <3>1
    <2>5. CASE LockPrimary(s)
      <3>1. primary = None /\ primary' = s /\ pc'[s] = "reset"
        BY <2>5 DEF LockPrimary, Goto, TypeOK
      <3> QED BY <2>1, <3>1, LockMoves DEF LockOf
    <2>6. CASE PostReset(s) \/ PostPrefill(s)
      <3>1. /\ UNCHANGED primary /\ pc[s] \in {"reset", "prefill"}
            /\ pc'[s] \in {"wait_reset", "wait_prefill", "fail"}
        BY <2>6 DEF PostReset, PostPrefill, Run, Goto, TypeOK
      <3> QED BY <2>2, <2>3, <3>1
    <2>7. CASE PostRelease(s)
      <3>1. UNCHANGED primary /\ pc'[s] \in {"wait_release", "released"}
        BY <2>7 DEF PostRelease, Run, Goto, TypeOK
      <3> QED BY <2>3, <3>1
    <2>8. CASE GotReset(s) \/ GotPrefill(s)
      <3>1. /\ UNCHANGED primary /\ pc[s] \in {"wait_reset", "wait_prefill"}
            /\ pc'[s] \in {"prefill", "join", "fail"}
        BY <2>8 DEF GotReset, GotPrefill, Got, Goto, TypeOK
      <3> QED BY <2>2, <2>3, <3>1
    <2>9. CASE GotStep(s) \/ EndDecode(s)
      <3>1. UNCHANGED primary /\ pc[s] \in {"wait_step", "decode"} /\ pc'[s] \in {"decode", "fail", "finish"}
        BY <2>9 DEF GotStep, EndDecode, Got, Goto, TypeOK
      <3> QED BY <2>2, <2>3, <3>1
    <2>10. CASE GotHealth(s) \/ GotRelease(s) \/ HostFails(s)
      <3>1. UNCHANGED primary /\ pc'[s] \in {"finish", "released", "fail"}
        BY <2>10 DEF GotHealth, GotRelease, HostFails, Got, Goto, TypeOK
      <3> QED BY <2>3, <3>1
    <2>11. CASE Join(s)
      <3>1. UNCHANGED primary /\ pc[s] = "join" /\ pc'[s] = "unlock"
        BY <2>11 DEF Join, Goto, TypeOK
      <3> QED BY <2>2, <3>1
    <2>12. CASE UnlockPrimary(s)
      <3>1. pc[s] = "unlock" /\ primary' = None /\ pc'[s] = "decode"
        BY <2>12 DEF UnlockPrimary, Goto, TypeOK
      <3> QED BY <2>0, <2>1, <3>1, LockMoves DEF LockOf
    <2>13. CASE PostStep(s)
      <3>1. UNCHANGED primary /\ pc[s] = "decode" /\ pc'[s] \in {"wait_step", "fail"}
        BY <2>13 DEF PostStep, Goto, TypeOK
      <3> QED BY <2>2, <2>3, <3>1
    <2>14. CASE AskHealth(s) \/ Leave(s)
      <3>1. UNCHANGED primary /\ pc'[s] \in {"wait_health", "finish", "release"}
        BY <2>14 DEF AskHealth, Leave, Run, Goto, TypeOK
      <3> QED BY <2>3, <3>1
    <2>15. CASE Finish(s)
      <3>1. pc'[s] = "pop" /\ primary' = IF primary = s THEN None ELSE primary
        BY <2>15 DEF Finish, Goto, TypeOK
      <3> QED BY <2>0, <2>1, <3>1, LockMoves DEF LockOf
    <2> QED
      BY <1>6, <2>4, <2>5, <2>6, <2>7, <2>8, <2>9, <2>10, <2>11, <2>12, <2>13, <2>14, <2>15 DEF Thread
  <1> QED
    BY StepCases, <1>1, <1>2, <1>3, <1>4, <1>5, <1>6 DEF Loop, Jobs

-----------------------------------------------------------------------------
(* Jobs and steps take turns.                                              *)
LEMMA TurnsStep == IInv /\ [Next]_vars => Turns'
  <1> SUFFICES ASSUME TypeOK, Owned, Turns, [Next]_vars PROVE Turns'
    BY DEF IInv
  <1> USE DEF Kinds
  <1>1. ASSUME NEW r \in Request, Submit(r) PROVE Turns'
    BY <1>1 DEF Submit, Turns, postVars, loopVars, ghostVars
  <1>2. CASE Close \/ StopFlag \/ UNCHANGED vars
    BY <1>2 DEF Close, StopFlag, Turns, vars, postVars, loopVars, ghostVars, stopRest
  <1>3. CASE StopDrop
    BY <1>3 DEF StopDrop, Turns, loopVars, ghostVars, stopRest
  <1>4. ASSUME NEW s \in Slot, Thread(s) \/ HostFails(s) PROVE Turns'
    <2>1. PostsJob(s) /\ PostsRow(s) /\ UNCHANGED <<stop, stopper, jobTurn, exec>>
      BY <1>4, ThreadShape, ThreadPosts DEF OwnOnly
    <2>2. \A k \in Kinds : Append(jobs, [kind |-> k, slot |-> s]) # <<>>
      <3>1. jobs \in Seq([kind : Kinds, slot : Slot])
        BY DEF TypeOK
      <3> QED BY <3>1
    <2>3. Append(steps, s) # <<>>
      <3>1. steps \in Seq(Slot)
        BY DEF TypeOK
      <3> QED BY <3>1
    <2>4. /\ stepsPast' = 0 \/ stepsPast' = stepsPast
          /\ jobs # <<>> => jobs' # <<>>
          /\ jobsPast' = 0 \/ jobsPast' = jobsPast
          /\ steps # <<>> => steps' # <<>>
      BY <2>1, <2>2, <2>3 DEF PostsJob, PostsRow
    <2> QED BY <2>1, <2>4 DEF Turns
  <1>5. CASE StepOk \/ StepThrows \/ StepRefused
    <2>1. /\ UNCHANGED <<jobs, steps, ghostVars, stop, stopper>>
          /\ exec = "step" /\ exec' = "wait" /\ jobTurn' = TRUE
      BY <1>5, StepTypes DEF ExecOnly
    <2> QED BY <2>1 DEF Turns, ghostVars
  <1>6. CASE Jobs
    <2>1. /\ UNCHANGED <<jobs, steps, jobTurn, ghostVars, stop, stopper>>
          /\ exec \in Kinds /\ exec' = "wait"
      BY <1>6, JobTypes DEF ExecOnly, Owned
    <2> QED BY <2>1 DEF Turns, ghostVars
  <1>7. CASE StartJob
    <2>1. Head(jobs).kind \in Kinds
      <3> DEFINE J == [kind : Kinds, slot : Slot]
      <3>1. jobs \in Seq(J) /\ jobs # <<>>
        BY <1>7 DEF TypeOK, StartJob
      <3> HIDE DEF J
      <3>2. Head(jobs) \in J
        BY <3>1, HeadAndTail
      <3> QED BY <3>2 DEF J
    <2>2. /\ exec = "wait" /\ ~stop /\ (steps = <<>> \/ jobTurn)
          /\ exec' = Head(jobs).kind /\ jobTurn' = FALSE /\ stepsPast' = 0
          /\ jobsPast' = IF steps = <<>> THEN 0 ELSE jobsPast + 1
          /\ UNCHANGED <<steps, stop, stopper>>
      BY <1>7 DEF StartJob, execRest
    <2>3. jobsPast = 0 \/ steps = <<>>
      BY <2>2 DEF Turns
    <2>4. exec' \in Kinds /\ exec' # "exited"
      BY <2>1, <2>2
    <2>5. jobsPast' = 0 \/ (jobsPast' = 1 /\ steps' # <<>> /\ ~jobTurn')
      BY <2>2, <2>3
    <2>6. stopper' # "idle" => stop'
      BY <2>2 DEF Turns
    <2> QED BY <2>2, <2>4, <2>5, <2>6 DEF Turns
  <1>8. CASE StartGather \/ Exit
    BY <1>8 DEF StartGather, Exit, SeesStop, Turns, execRest, ghostVars
  <1>9. CASE TakeRows
    BY <1>9 DEF TakeRows, Turns, TypeOK, execRest
  <1> QED
    BY StepCases, <1>1, <1>2, <1>3, <1>4, <1>5, <1>6, <1>7, <1>8, <1>9 DEF Loop, Jobs

-----------------------------------------------------------------------------
(* What another thread or the executor does for others leaves a slot what  *)
(* it is; and only the lock's owner depends on the single-sequence state.  *)
LEMMA SlotFrame ==
  ASSUME NEW s \in Slot, SlotOf(s), pc'[s] = pc[s], cur'[s] = cur[s], got'[s] = got[s],
         joined'[s] = joined[s], result'[s] = result[s], slot'[s] = slot[s],
         s \in decoding' <=> s \in decoding, seq' = seq \/ pc[s] \notin Guarded,
         stop => stop', health = "kFatal" => health' = "kFatal"
  PROVE  SlotOf(s)'
  BY DEF SlotOf, ToPrefill, Settled, Without, Prefilled, Clean, Guarded

(* What the points around the prefill and the decode say, one by one.      *)
LEMMA WaitingIsClean ==
  ASSUME NEW s \in Slot, SlotOf(s), pc[s] = "prefill" \/ (pc[s] = "wait_prefill" /\ result[s] = "pending")
  PROVE  ~joined[s] /\ got[s] = 0 /\ s \notin decoding /\ seq = <<>> /\ Clean(s)
  <1>1. ~joined[s] /\ got[s] = 0
    BY DEF SlotOf
  <1>2. s \notin decoding
    BY <1>1 DEF SlotOf
  <1>3. seq = <<>>
    BY DEF SlotOf, ToPrefill
  <1>4. Clean(s)
    BY DEF SlotOf, Without
  <1> QED BY <1>1, <1>2, <1>3, <1>4

(* A sequence that decodes, or waits for a row, is whole in its slot.      *)
LEMMA DecodingIsOwn ==
  ASSUME NEW s \in Slot, SlotOf(s), pc[s] = "decode" \/ (pc[s] = "wait_step" /\ result[s] = "pending")
  PROVE  joined[s] /\ slot[s] = Prefilled(s)
  <1>1. joined[s]
    BY DEF SlotOf
  <1>2. slot[s] = Prefilled(s)
    BY DEF SlotOf, Settled
  <1> QED BY <1>1, <1>2

(* A row fed to a slot changes nothing but its count. *)
LEMMA RowFed ==
  ASSUME NEW x \in SlotTypes, NEW h \in Nat
  PROVE  [x EXCEPT !.rows = h] = [active |-> x.active, prompt |-> x.prompt, rows |-> h]
  BY SMT DEF SlotTypes

(* A request's own steps keep what its points say of its slot. *)
LEMMA ThreadSlot ==
  ASSUME TypeOK, Turns, NEW s \in Slot, SlotOf(s), Thread(s) \/ HostFails(s)
  PROVE  SlotOf(s)'
  <1>1. /\ UNCHANGED <<stop, seq, slot, health>>
        /\ pc[s] \in Points /\ result[s] \in {"none", "pending", "ok", "error", "state_error"}
        /\ joined[s] \in BOOLEAN
    BY ThreadShape DEF OwnOnly, TypeOK
  <1> USE DEF SlotOf, ToPrefill, Settled, Without, Prefilled, Clean
  <1>2. CASE Pop(s) \/ PopClosed(s)
    <2>1. /\ pc[s] = "pop" /\ pc'[s] \in {"lock", "exit"} /\ UNCHANGED <<got, joined, decoding>>
      BY <1>2 DEF Pop, PopClosed, Goto, TypeOK, postVars
    <2> QED BY <1>1, <2>1
  <1>3. CASE LockPrimary(s)
    <2>1. pc[s] = "lock" /\ pc'[s] = "reset" /\ UNCHANGED <<got, joined, decoding>>
      BY <1>3 DEF LockPrimary, Goto, TypeOK, postVars
    <2> QED BY <1>1, <2>1
  <1>4. CASE PostReset(s)
    <2>1. /\ pc[s] = "reset" /\ UNCHANGED <<cur, got, joined, decoding>>
          /\ pc'[s] = "fail" \/ (pc'[s] = "wait_reset" /\ result'[s] = "pending")
      BY <1>4 DEF PostReset, Run, Goto, TypeOK
    <2> QED BY <1>1, <2>1
  <1>5. CASE PostPrefill(s)
    <2>1. /\ pc[s] = "prefill" /\ UNCHANGED <<cur, got, joined, decoding>>
          /\ pc'[s] = "fail" \/ (pc'[s] = "wait_prefill" /\ result'[s] = "pending")
      BY <1>5 DEF PostPrefill, Run, Goto, TypeOK
    <2>2. ~joined[s] /\ got[s] = 0 /\ s \notin decoding /\ seq = <<>> /\ Clean(s)
      BY <2>1, WaitingIsClean
    <2>3. CASE pc'[s] = "fail"
      BY <1>1, <2>1, <2>2, <2>3
    <2>4. CASE pc'[s] = "wait_prefill" /\ result'[s] = "pending"
      BY <1>1, <2>1, <2>2, <2>4
    <2> QED BY <2>1, <2>3, <2>4
  <1>6. CASE GotReset(s)
    <2>1. /\ pc[s] = "wait_reset" /\ UNCHANGED <<cur, got, joined, decoding>>
          /\ (result[s] = "ok" /\ pc'[s] = "prefill") \/ (result[s] # "ok" /\ pc'[s] = "fail")
      BY <1>6 DEF GotReset, Got, Goto, TypeOK, postVars
    <2> QED BY <1>1, <2>1
  <1>7. CASE GotPrefill(s)
    <2>1. /\ pc[s] = "wait_prefill" /\ UNCHANGED <<cur, got, decoding>>
          /\ \/ result[s] = "ok" /\ pc'[s] = "join" /\ joined'[s]
             \/ result[s] # "ok" /\ pc'[s] = "fail" /\ ~joined'[s]
      BY <1>7 DEF GotPrefill, Got, Goto, TypeOK, postVars
    <2> QED BY <1>1, <2>1
  <1>8. CASE Join(s)
    <2>1. /\ pc[s] = "join" /\ pc'[s] = "unlock" /\ UNCHANGED <<cur, got, joined>>
      BY <1>8 DEF Join, Goto, TypeOK
    <2> QED BY <1>1, <2>1
  <1>9. CASE UnlockPrimary(s)
    <2>1. /\ pc[s] = "unlock" /\ pc'[s] = "decode" /\ UNCHANGED <<cur, got, joined, decoding>>
      BY <1>9 DEF UnlockPrimary, Goto, TypeOK, postVars
    <2> QED BY <1>1, <2>1
  <1>10. CASE PostStep(s)
    <2>1. /\ pc[s] = "decode" /\ UNCHANGED <<cur, got, joined>>
          /\ \/ pc'[s] = "fail" /\ UNCHANGED decoding
             \/ pc'[s] = "wait_step" /\ result'[s] = "pending"
      BY <1>10 DEF PostStep, Goto, TypeOK
    <2>2. joined[s] /\ slot[s] = Prefilled(s)
      BY <2>1, DecodingIsOwn
    <2>3. CASE pc'[s] = "fail" /\ UNCHANGED decoding
      BY <1>1, <2>1, <2>2, <2>3
    <2>4. CASE pc'[s] = "wait_step" /\ result'[s] = "pending"
      BY <1>1, <2>1, <2>2, <2>4
    <2> QED BY <2>1, <2>3, <2>4
  <1>11. CASE GotStep(s)
    <2>1. /\ pc[s] = "wait_step" /\ UNCHANGED <<cur, joined, decoding>>
          /\ \/ result[s] = "ok" /\ pc'[s] = "decode" /\ got'[s] = got[s] + 1
             \/ result[s] # "ok" /\ pc'[s] = "fail" /\ got'[s] = got[s]
      BY <1>11 DEF GotStep, Got, Goto, TypeOK, postVars
    <2> QED BY <1>1, <2>1
  <1>12. CASE EndDecode(s)
    <2>1. pc[s] = "decode" /\ pc'[s] = "finish" /\ UNCHANGED <<cur, got, joined, decoding>>
      BY <1>12 DEF EndDecode, Goto, TypeOK, postVars
    <2> QED BY <1>1, <2>1
  <1>13. CASE HostFails(s)
    <2>1. pc[s] \in {"lock", "prefill", "decode"} /\ pc'[s] = "fail" /\ UNCHANGED <<cur, got, joined, decoding>>
      BY <1>13 DEF HostFails, Goto, TypeOK, postVars
    <2> QED BY <1>1, <2>1
  <1>14. CASE AskHealth(s) \/ GotHealth(s)
    <2>1. /\ pc[s] \in {"fail", "wait_health"} /\ pc'[s] \in {"wait_health", "finish"}
          /\ UNCHANGED <<cur, got, joined, decoding>>
      BY <1>14 DEF AskHealth, GotHealth, Run, Got, Goto, TypeOK, postVars
    <2> QED BY <1>1, <2>1
  <1>15. CASE Leave(s)
    <2>1. /\ pc[s] = "finish" /\ joined[s] /\ pc'[s] = "release" /\ s \notin decoding'
          /\ UNCHANGED <<cur, got, joined>>
      BY <1>15 DEF Leave, Goto, TypeOK
    <2> QED BY <1>1, <2>1
  <1>16. CASE PostRelease(s)
    <2>1. /\ pc[s] = "release" /\ UNCHANGED <<cur, got, joined, decoding>>
          /\ \/ stop /\ pc'[s] = "released"
             \/ pc'[s] = "wait_release" /\ result'[s] = "pending"
      BY <1>16 DEF PostRelease, Run, Goto, TypeOK
    <2> QED BY <1>1, <2>1
  <1>17. CASE GotRelease(s)
    <2>1. /\ pc[s] = "wait_release" /\ result[s] # "pending" /\ pc'[s] = "released"
          /\ UNCHANGED <<cur, got, joined, decoding>>
      BY <1>17 DEF GotRelease, Got, Goto, TypeOK, postVars
    <2> QED BY <1>1, <2>1
  <1>18. CASE Finish(s)
    <2>1. /\ pc[s] = "released" \/ (pc[s] = "finish" /\ ~joined[s])
          /\ pc'[s] = "pop" /\ ~joined'[s] /\ got'[s] = 0 /\ UNCHANGED decoding
      BY <1>18 DEF Finish, Goto, TypeOK, postVars
    <2> QED BY <1>1, <2>1
  <1> QED
    BY <1>2, <1>3, <1>4, <1>5, <1>6, <1>7, <1>8, <1>9, <1>10, <1>11, <1>12, <1>13, <1>14, <1>15, <1>16,
       <1>17, <1>18 DEF Thread

(* What a step answers each of its rows, and what became of their slots.   *)
LEMMA StepSlots ==
  ASSUME TypeOK, StepOk \/ StepThrows \/ StepRefused, NEW s \in Slot
  PROVE  /\ s \notin Rows => slot'[s] = slot[s] /\ result'[s] = result[s]
         /\ s \in Rows => \/ result'[s] \in {"error", "state_error"}
                          \/ result'[s] = "ok" /\ slot'[s] = [slot[s] EXCEPT !.rows = slot[s].rows + 1]
  <1>1. CASE StepOk
    <2>1. Answer(Rows, "ok") /\ slot' = Advanced
      BY <1>1 DEF StepOk
    <2> QED BY <2>1, AnswerIs DEF Advanced
  <1>2. CASE StepThrows
    <2>1. Answer(Rows, "error")
      BY <1>2 DEF StepThrows
    <2>2. s \notin Rows => slot'[s] = slot[s]
      BY <1>2 DEF StepThrows, Advanced
    <2> QED BY <2>1, <2>2, AnswerIs
  <1>3. CASE StepRefused
    <2>1. Answer(Rows, "state_error") /\ UNCHANGED slot
      BY <1>3 DEF StepRefused, modelVars
    <2> QED BY <2>1, AnswerIs
  <1> QED BY <1>1, <1>2, <1>3

(* What a job does for its client, and when it touches the single-sequence *)
(* state.                                                                  *)
LEMMA JobSlots ==
  ASSUME TypeOK, ClientOwned, Jobs
  PROVE  /\ seq' # seq => pc[client] \in {"wait_reset", "wait_prefill"}
         /\ pc[client] = "wait_reset" /\ result'[client] = "ok" => seq' = <<>> /\ slot'[client] = slot[client]
         /\ pc[client] = "wait_reset" => slot'[client] = slot[client]
         /\ pc[client] = "wait_prefill" /\ result'[client] = "ok" =>
              slot'[client] = [active |-> TRUE, prompt |-> Append(seq, cur[client]), rows |-> 0]
         /\ pc[client] = "wait_prefill" /\ result'[client] # "ok" =>
              slot'[client] = slot[client] \/ slot'[client] = Free
         /\ pc[client] = "wait_release" => slot'[client] = Free \/ health' = "kFatal"
         /\ pc[client] = "wait_health" => slot'[client] = slot[client]
         /\ result'[client] \in {"ok", "error", "state_error"}
         /\ pc[client] \in {"wait_reset", "wait_prefill", "wait_release", "wait_health"}
  <1>1. exec \in Kinds /\ client \in Slot
    BY JobTypes
  <1>2. pc[client] = WaitPoint(exec)
    BY <1>1 DEF ClientOwned, Pending
  <1>3. ASSUME NEW what \in {"ok", "error", "state_error"}, JobDone(what) PROVE result'[client] = what
    BY <1>1, <1>3, AnswerIs DEF JobDone
  <1>4. CASE ResetOk \/ ResetThrows \/ ResetRefused
    <2>1. pc[client] = "wait_reset"
      BY <1>2, <1>4 DEF ResetOk, ResetThrows, ResetRefused, WaitPoint
    <2>2. CASE ResetOk
      BY <1>3, <2>1, <2>2 DEF ResetOk
    <2>3. CASE ResetThrows
      BY <1>3, <2>1, <2>3 DEF ResetThrows
    <2>4. CASE ResetRefused
      BY <1>3, <2>1, <2>4 DEF ResetRefused, modelVars
    <2> QED BY <1>4, <2>2, <2>3, <2>4
  <1>5. CASE PrefillOk \/ PrefillThrows \/ PrefillRefused
    <2>1. pc[client] = "wait_prefill"
      BY <1>2, <1>5 DEF PrefillOk, PrefillThrows, PrefillRefused, WaitPoint
    <2>2. CASE PrefillOk
      <3>1. /\ result'[client] = "ok" /\ seq' = Append(seq, cur[client])
            /\ slot' = [slot EXCEPT ![client] = [active |-> TRUE, prompt |-> seq', rows |-> 0]]
        BY <1>3, <2>2 DEF PrefillOk
      <3>2. slot'[client] = [active |-> TRUE, prompt |-> Append(seq, cur[client]), rows |-> 0]
        BY <1>1, <3>1 DEF TypeOK
      <3> QED BY <2>1, <3>1, <3>2
    <2>3. CASE PrefillThrows
      <3>1. result'[client] = "error" /\ (UNCHANGED slot \/ slot' = [slot EXCEPT ![client] = Free])
        BY <1>3, <2>3 DEF PrefillThrows
      <3>2. slot'[client] = slot[client] \/ slot'[client] = Free
        BY <1>1, <3>1 DEF TypeOK
      <3> QED BY <2>1, <3>1, <3>2
    <2>4. CASE PrefillRefused
      BY <1>3, <2>1, <2>4 DEF PrefillRefused, modelVars
    <2> QED BY <1>5, <2>2, <2>3, <2>4
  <1>6. CASE ReleaseJob \/ ReleaseThrows
    <2>1. pc[client] = "wait_release"
      BY <1>2, <1>6 DEF ReleaseJob, ReleaseThrows, WaitPoint
    <2>2. CASE ReleaseJob
      <3>1. result'[client] = "ok" /\ UNCHANGED seq /\ slot' = [slot EXCEPT ![client] = Free]
        BY <1>3, <2>2 DEF ReleaseJob
      <3>2. slot'[client] = Free
        BY <1>1, <3>1 DEF TypeOK
      <3> QED BY <2>1, <3>1, <3>2
    <2>3. CASE ReleaseThrows
      BY <1>3, <2>1, <2>3 DEF ReleaseThrows
    <2> QED BY <1>6, <2>2, <2>3
  <1>7. CASE HealthRead
    <2>1. pc[client] = "wait_health"
      BY <1>2, <1>7 DEF HealthRead, WaitPoint
    <2> QED BY <1>3, <1>7, <2>1 DEF HealthRead, modelVars
  <1> QED BY <1>4, <1>5, <1>6, <1>7 DEF Jobs

(* Every step keeps what the model holds for each slot. *)
LEMMA SlotStep == IInv /\ [Next]_vars => SlotsHold'
  <1> SUFFICES ASSUME TypeOK, Owned, Locked, SlotsHold, Turns, [Next]_vars PROVE SlotsHold'
    BY DEF IInv
  <1>0. ClientOwned /\ TakenOwned /\ \A s \in Slot : SlotOf(s) /\ LockOf(s)
    BY DEF Owned, Locked, SlotsHold
  <1>1. ASSUME UNCHANGED <<threadVars, result, decoding, seq, slot, health>>, stop => stop'
        PROVE  SlotsHold'
    BY <1>0, <1>1, SlotFrame DEF SlotsHold, threadVars
  <1>2. ASSUME NEW r \in Request, Submit(r) PROVE SlotsHold'
    BY <1>1, <1>2 DEF Submit, postVars, modelVars
  <1>3. CASE Close \/ StopFlag \/ UNCHANGED vars
    BY <1>1, <1>3 DEF Close, StopFlag, vars, postVars, stopRest, modelVars
  <1>4. CASE StartJob \/ StartGather \/ TakeRows \/ Exit
    BY <1>1, <1>4 DEF StartJob, StartGather, TakeRows, Exit, execRest, modelVars, ghostVars
  <1>5. ASSUME NEW s \in Slot, Thread(s) \/ HostFails(s) PROVE SlotsHold'
    <2>1. OwnOnly(s)
      BY <1>5, ThreadShape
    <2>2. ASSUME NEW t \in Slot, t # s PROVE SlotOf(t)'
      BY <1>0, <2>1, <2>2, SlotFrame DEF OwnOnly
    <2> QED BY <1>0, <1>5, <2>2, ThreadSlot DEF SlotsHold
  <1>6. CASE StepOk \/ StepThrows \/ StepRefused
    <2>1. /\ UNCHANGED <<pc, cur, got, joined, decoding, stop, seq>>
          /\ health = "kFatal" => health' = "kFatal"
      BY <1>6, StepTypes DEF ExecOnly, threadVars
    <2>2. ASSUME NEW s \in Slot PROVE SlotOf(s)'
      <3>1. CASE s \notin Rows
        BY <1>0, <1>6, <2>1, <3>1, StepSlots, SlotFrame
      <3>2. CASE s \in Rows
        <4>1. pc[s] = "wait_step" /\ result[s] = "pending"
          BY <1>0, <3>2 DEF TakenOwned, Pending, Rows, WaitPoint
        <4>2. slot[s] = Prefilled(s) /\ joined[s]
          BY <1>0, <4>1, DecodingIsOwn
        <4>3. \/ result'[s] \in {"error", "state_error"}
              \/ result'[s] = "ok" /\ slot'[s] = [slot[s] EXCEPT !.rows = slot[s].rows + 1]
          BY <1>6, <3>2, StepSlots
        <4>4. [slot[s] EXCEPT !.rows = slot[s].rows + 1]
                = [active |-> TRUE, prompt |-> <<cur[s]>>, rows |-> got[s] + 1]
          <5>1. slot[s] \in SlotTypes
            BY DEF TypeOK, SlotTypes
          <5>2. slot[s].active = TRUE /\ slot[s].prompt = <<cur[s]>> /\ slot[s].rows = got[s] /\ got[s] \in Nat
            BY <4>2 DEF Prefilled, TypeOK
          <5>3. got[s] + 1 \in Nat
            BY <5>2
          <5>4. [slot[s] EXCEPT !.rows = got[s] + 1]
                  = [active |-> slot[s].active, prompt |-> slot[s].prompt, rows |-> got[s] + 1]
            BY <5>1, <5>3, RowFed
          <5> QED BY <5>2, <5>4
        <4>5. \/ result'[s] \in {"error", "state_error"}
              \/ /\ result'[s] = "ok"
                 /\ slot'[s] = [active |-> TRUE, prompt |-> <<cur'[s]>>, rows |-> got'[s] + 1]
          BY <2>1, <4>2, <4>3, <4>4
        <4> QED BY <2>1, <4>1, <4>2, <4>5 DEF SlotOf, ToPrefill, Settled, Without
      <3> QED BY <3>1, <3>2
    <2> QED BY <2>2 DEF SlotsHold
  <1>7. CASE Jobs
    <2>1. /\ UNCHANGED <<pc, cur, got, joined, decoding, stop>>
          /\ client \in Slot
          /\ health = "kFatal" => health' = "kFatal"
      BY <1>0, <1>7, JobTypes DEF ExecOnly, threadVars
    <2>2. \A s \in Slot : s # client => slot'[s] = slot[s] /\ result'[s] = result[s]
      BY <1>0, <1>7, JobTypes
    <2>3. seq' # seq => pc[client] \in {"wait_reset", "wait_prefill"}
      BY <1>0, <1>7, JobSlots
    <2>4. ASSUME NEW s \in Slot, s # client PROVE SlotOf(s)'
      <3>1. seq' = seq \/ pc[s] \notin Guarded
        <4>1. pc[client] \in Guarded => primary = client
          BY <1>0, <2>1 DEF LockOf
        <4>2. pc[s] \in Guarded => primary = s
          BY <1>0 DEF LockOf
        <4> QED BY <2>1, <2>3, <2>4, <4>1, <4>2 DEF Guarded
      <3> QED BY <1>0, <2>1, <2>2, <2>4, <3>1, SlotFrame
    <2>5. ASSUME NEW c \in Slot, c = client PROVE SlotOf(c)'
      <3>1. SlotOf(c) /\ LockOf(c) /\ result[c] = "pending"
        BY <1>0, <1>7, <2>5, JobTypes DEF ClientOwned, Pending
      <3>2. pc[c] \in {"wait_reset", "wait_prefill", "wait_release", "wait_health"}
        BY <1>0, <1>7, <2>5, JobSlots
      <3>3. result'[c] \in {"ok", "error", "state_error"}
        BY <1>0, <1>7, <2>5, JobSlots
      <3>4. CASE pc[c] = "wait_reset"
        <4>1. slot'[c] = slot[c] /\ (result'[c] = "ok" => seq' = <<>>)
          BY <1>0, <1>7, <2>5, <3>4, JobSlots
        <4> QED BY <2>1, <3>1, <3>3, <3>4, <4>1 DEF SlotOf, ToPrefill, Settled, Without, Clean, Prefilled
      <3>5. CASE pc[c] = "wait_prefill"
        <4>1. seq = <<>> /\ ~joined[c] /\ got[c] = 0 /\ Clean(c) /\ c \notin decoding
          BY <3>1, <3>5, WaitingIsClean
        <4>2. CASE result'[c] = "ok"
          <5>1. slot'[c] = [active |-> TRUE, prompt |-> Append(seq, cur[c]), rows |-> 0]
            BY <1>0, <1>7, <2>5, <3>5, <4>2, JobSlots
          <5>2. Append(seq, cur[c]) = <<cur[c]>>
            BY <4>1
          <5>3. slot'[c] = [active |-> TRUE, prompt |-> <<cur'[c]>>, rows |-> got'[c]]
            BY <2>1, <4>1, <5>1, <5>2
          <5> QED BY <2>1, <3>5, <4>1, <4>2, <5>3 DEF SlotOf, ToPrefill, Settled, Without, Prefilled
        <4>3. CASE result'[c] # "ok"
          <5>1. slot'[c] = slot[c] \/ slot'[c] = Free
            BY <1>0, <1>7, <2>5, <3>5, <4>3, JobSlots
          <5> QED BY <2>1, <3>3, <3>5, <4>1, <4>3, <5>1 DEF SlotOf, ToPrefill, Settled, Without, Clean
        <4> QED BY <4>2, <4>3
      <3>6. CASE pc[c] = "wait_release"
        <4>1. slot'[c] = Free \/ health' = "kFatal"
          BY <1>0, <1>7, <2>5, <3>6, JobSlots
        <4> QED BY <2>1, <3>1, <3>6, <4>1 DEF SlotOf, ToPrefill, Settled, Without, Clean
      <3>7. CASE pc[c] = "wait_health"
        <4>1. slot'[c] = slot[c]
          BY <1>0, <1>7, <2>5, <3>7, JobSlots
        <4> QED BY <2>1, <3>1, <3>7, <4>1 DEF SlotOf, ToPrefill, Settled, Without, Clean
      <3> QED BY <3>2, <3>4, <3>5, <3>6, <3>7
    <2> QED BY <2>1, <2>4, <2>5 DEF SlotsHold
  <1>8. CASE StopDrop
    <2>1. /\ UNCHANGED <<pc, cur, got, joined, decoding, stop, seq, slot, health>> /\ stop
      BY <1>8 DEF StopDrop, stopRest, threadVars, modelVars, Turns
    <2>2. ASSUME NEW s \in Slot PROVE SlotOf(s)'
      <3>1. result'[s] = result[s] \/ (result[s] = "pending" /\ result'[s] = "error")
        <4> DEFINE Dropped == {jobs[i].slot : i \in 1..Len(jobs)} \cup {steps[i] : i \in 1..Len(steps)}
        <4>1. result'[s] = IF s \in Dropped THEN "error" ELSE result[s]
          BY <1>8, AnswerIs DEF StopDrop
        <4>2. s \in Dropped => result[s] = "pending"
          BY DEF Owned, JobsOwned, StepsOwned, Pending
        <4> QED BY <4>1, <4>2
      <3>2. CASE result'[s] = result[s]
        BY <1>0, <2>1, <3>2, SlotFrame
      <3>3. CASE result[s] = "pending" /\ result'[s] = "error"
        BY <1>0, <2>1, <3>3 DEF SlotOf, ToPrefill, Settled, Without, Clean, Prefilled
      <3> QED BY <3>1, <3>2, <3>3
    <2> QED BY <2>2 DEF SlotsHold
  <1> QED
    BY StepCases, <1>2, <1>3, <1>4, <1>5, <1>6, <1>7, <1>8 DEF Loop, Jobs

-----------------------------------------------------------------------------
(* Nothing is queued, held or prefilled at the start. *)
LEMMA InitIInv == Init => IInv
  <1> SUFFICES ASSUME Init PROVE IInv
    OBVIOUS
  <1>1. TypeOK
    <2>1. Free \in [active : BOOLEAN, prompt : Seq(Request \cup {None}), rows : Nat]
      BY DEF Free
    <2>2. slot \in [Slot -> [active : BOOLEAN, prompt : Seq(Request \cup {None}), rows : Nat]]
      BY <2>1 DEF Init
    <2>3. jobs \in Seq([kind : Kinds, slot : Slot]) /\ steps \in Seq(Slot) /\ taken \in Seq(Slot)
      BY DEF Init
    <2>4. queue \in Seq(Request) /\ Len(queue) <= MaxQueue /\ seq \in Seq(Request \cup {None})
      BY NoneIsNone DEF Init
    <2>5. pc \in [Slot -> Points] /\ cur \in [Slot -> Request \cup {None}]
      BY DEF Init, Points
    <2>6. got \in [Slot -> Nat] /\ joined \in [Slot -> BOOLEAN]
          /\ result \in [Slot -> {"none", "pending", "ok", "error", "state_error"}]
      BY DEF Init
    <2> QED BY <2>2, <2>3, <2>4, <2>5, <2>6 DEF Init, TypeOK
  <1>2. Owned
    BY DEF Init, Owned, JobsOwned, StepsOwned, TakenOwned, ClientOwned, Kinds
  <1>3. Locked
    BY NoneIsNone DEF Init, Locked, LockOf, Guarded, Ending
  <1>4. SlotsHold
    BY DEF Init, SlotsHold, SlotOf, ToPrefill, Settled, Without, Clean
  <1>5. Turns
    BY DEF Init, Turns
  <1> QED BY <1>1, <1>2, <1>3, <1>4, <1>5 DEF IInv

(* In every reachable state the pieces of work are owned, the lock is held *)
(* where the code holds it, and each slot holds what its thread's place    *)
(* says (BatchPort, BatchExecutor).                                        *)
THEOREM InvHolds == Spec => []IInv
  <1>1. IInv /\ [Next]_vars => IInv'
    BY TypeStep, OwnedStep, LockedStep, SlotStep, TurnsStep DEF IInv
  <1> QED BY <1>1, InitIInv, PTL DEF Spec

(* Every variable keeps its type, and the queue its bound (RequestQueue).  *)
THEOREM TypeOKHolds == Spec => []TypeOK
  <1>1. IInv => TypeOK
    BY DEF IInv
  <1> QED BY <1>1, InvHolds, PTL

(* The slot of a request that decodes holds its own prompt and exactly the *)
(* rows it was answered (BatchPort::ReadyToDecode, batch_port.h:158).      *)
THEOREM SlotIsOwnHolds == Spec => []SlotIsOwn
  <1>1. IInv => SlotIsOwn
    BY DEF IInv, SlotsHold, SlotOf, Settled, Prefilled, SlotIsOwn
  <1> QED BY <1>1, InvHolds, PTL

(* However a request ended, its thread holds no lock, waits for no row and *)
(* has given its slot back (~BatchPort, batch_port.h:129).                 *)
THEOREM GivenBackHolds == Spec => []GivenBack
  <1>1. IInv => GivenBack
    <2> SUFFICES ASSUME IInv, NEW s \in Slot, pc[s] = "pop"
                 PROVE  primary # s /\ s \notin decoding /\ Clean(s)
      BY DEF GivenBack, Clean
    <2>1. SlotOf(s) /\ LockOf(s)
      BY DEF IInv, SlotsHold, Locked
    <2>2. primary # s
      BY <2>1 DEF LockOf, Guarded, Ending
    <2>3. s \notin decoding
      BY <2>1 DEF SlotOf
    <2>4. Clean(s)
      BY <2>1 DEF SlotOf, Without
    <2> QED BY <2>2, <2>3, <2>4
  <1> QED BY <1>1, InvHolds, PTL

(* The rows of every step the executor begins satisfy batch::CheckStep,    *)
(* whatever joined, left or failed while it gathered (batch_plan.h:124).   *)
THEOREM StepIsLegalHolds == Spec => []StepIsLegal
  <1>1. IInv => StepIsLegal
    <2> SUFFICES ASSUME IInv PROVE CheckStep
      BY DEF StepIsLegal
    <2>1. TakenOwned /\ TypeOK
      BY DEF IInv, Owned
    <2>2. ASSUME NEW s \in Rows PROVE slot[s].active
      <3>1. s \in Slot
        BY <2>1 DEF TypeOK, Rows
      <3>2. pc[s] = "wait_step" /\ result[s] = "pending"
        BY <2>1 DEF TakenOwned, Rows, Pending, WaitPoint
      <3>3. SlotOf(s)
        BY <3>1 DEF IInv, SlotsHold
      <3>4. slot[s] = Prefilled(s)
        BY <3>1, <3>2, <3>3, DecodingIsOwn
      <3> QED BY <3>4 DEF Prefilled
    <2> QED BY <2>1, <2>2 DEF CheckStep, TakenOwned
  <1> QED BY <1>1, InvHolds, PTL

(* While both wait, at most one step passes the head job and at most one   *)
(* job the waiting rows (job_turn_, batch_executor.h).                     *)
THEOREM AlternationHolds == Spec => []Alternation
  <1>1. IInv => Alternation
    BY DEF IInv, Turns, Alternation
  <1> QED BY <1>1, InvHolds, PTL
=============================================================================
