------------------------------ MODULE TpModel ------------------------------
(***************************************************************************)
(* The tensor-parallel facade and its rank workers:                        *)
(* src/src/model/tp_model.cpp, src/src/model/tp/tp_rank_worker.h, over the *)
(* communicator of src/src/model/tp/tp_comm_host_mailbox.cpp.              *)
(*                                                                         *)
(* The facade posts one closure per rank and waits for both.  A collective *)
(* closure runs Windows chunks; each is: the lockstep all-gather on the    *)
(* host, CheckHealthy, the all-reduces enqueued on the GPU, the stream     *)
(* synchronized.  CheckHealthy ends the closure, and a closure that fails  *)
(* poisons the group unless its error is the poison.                       *)
(*                                                                         *)
(* The all-gather and the all-reduce appear here only through their        *)
(* results (HostExchange and TpMailbox have their steps): a gather ends    *)
(* when every rank arrived, was aborted or timed out; a kernel ends when   *)
(* the peer's kernel pushed, an ABORT word is set or its clock ran out.    *)
(***************************************************************************)
EXTENDS Integers, FiniteSets

CONSTANTS
  Windows,      \* chunks of a collective command
  MaxCommands,  \* bound: collective commands between two recoveries
  MaxRecoveries \* bound: recoveries

ASSUME BoundsAssumption ==
  Windows \in Nat \ {0} /\ MaxCommands \in Nat /\ MaxRecoveries \in Nat

Rank == {0, 1}
Peer(r) == 1 - r

VARIABLES
  state,      \* state_: "kReady", "kNeedsRecovery" or "kFatal"
  facade,     \* the call the facade is in, "idle" between calls
  kind,       \* [rank]: the kind of the command last posted
  pc,         \* [rank]: where its closure is; "idle" is Idle()
  win,        \* [rank]: the chunk the closure is in
  err,        \* [rank]: err_: "none", "aborted" (TpAbortedError) or "error"
  thread,     \* [rank]: "awake", "checked" (in WaitPosted with mu_ held, about to block) or "asleep"
  notify,     \* the workers a Post has still to notify
  arrived,    \* [rank]: all-gathers the rank entered since the last reset
  exAborted,  \* the exchange's abort flag
  abortWord,  \* [rank]: the rank's ABORT word is set
  sticky,     \* [rank]: the rank's VRAM sticky word is set
  pushed,     \* [rank]: all-reduces whose chunk the rank pushed
  dev,        \* [rank]: "spin" while an all-reduce kernel waits, "late" past its clock, else "idle"
  partial,    \* ghost [rank]: an all-reduce of this command was not reduced
  result,     \* ghost: how the last collective call ended for the caller
  issued,     \* ghost: collective commands since the last reset
  epoch       \* ghost: recoveries so far

facadeVars == <<state, facade, result, issued, epoch>>
workerVars == <<kind, pc, win, err, thread, notify>>
commVars == <<arrived, exAborted, abortWord, sticky, pushed, dev, partial>>
vars == <<facadeVars, workerVars, commVars>>

(* The commands: what RunCollective, EncodeImages, RunAll and the steps of *)
(* Recover post.                                                           *)
Kinds == {"collective", "solo", "plain", "sync", "selftest"}
Points == {"idle", "arrive", "wait", "late", "health", "enqueue", "drain", "final", "work", "catch"}
\* where a closure is inside a HIP call or other unbounded work
HipPoints == {"enqueue", "work"}
Calls == {"idle", "collective", "solo", "plain", "reset", "rec_sync", "rec_test",
          "rec_reset", "closing", "draining", "freed", "exited"}

Init ==
  /\ state = "kReady" /\ facade = "idle" /\ result = "none" /\ issued = 0 /\ epoch = 0
  /\ kind = [r \in Rank |-> "plain"] /\ pc = [r \in Rank |-> "idle"]
  /\ win = [r \in Rank |-> 1] /\ err = [r \in Rank |-> "none"]
  /\ thread = [r \in Rank |-> "awake"] /\ notify = {}
  /\ arrived = [r \in Rank |-> 0] /\ exAborted = FALSE
  /\ abortWord = [r \in Rank |-> FALSE] /\ sticky = [r \in Rank |-> FALSE]
  /\ pushed = [r \in Rank |-> 0] /\ dev = [r \in Rank |-> "idle"]
  /\ partial = [r \in Rank |-> FALSE]

AnyAbort == exAborted \/ \E r \in Rank : abortWord[r]
AllIdle == \A r \in Rank : pc[r] = "idle"
Failed == \E r \in Rank : err[r] # "none"

-----------------------------------------------------------------------------
(* The rank's closure.                                                     *)

Go(r, to) == pc' = [pc EXCEPT ![r] = to] /\ UNCHANGED <<kind, win, err, thread, notify>>
Fail(r, e) ==
  /\ err' = [err EXCEPT ![r] = e]
  /\ pc' = [pc EXCEPT ![r] = "catch"]
  /\ UNCHANGED <<kind, win, thread, notify>>

(* HostAllGather, entered: a poisoned exchange throws before it counts.    *)
Arrive(r) ==
  /\ pc[r] = "arrive"
  /\ IF exAborted
       THEN Fail(r, "aborted") /\ UNCHANGED arrived
       ELSE Go(r, "wait") /\ arrived' = [arrived EXCEPT ![r] = @ + 1]
  /\ UNCHANGED <<facadeVars, exAborted, abortWord, sticky, pushed, dev, partial>>

(* The wait loop reads the abort flag, then the arrive words, so a gather  *)
(* can still succeed just after an abort.  The self-test enqueues at once. *)
Gathered(r) ==
  /\ pc[r] = "wait"
  /\ arrived[Peer(r)] >= arrived[r]
  /\ Go(r, IF kind[r] = "selftest" THEN "enqueue" ELSE "health")
  /\ UNCHANGED <<facadeVars, commVars>>

GatherAborted(r) ==
  /\ pc[r] = "wait"
  /\ exAborted
  /\ Fail(r, "aborted")
  /\ UNCHANGED <<facadeVars, commVars>>

(* 30 s without the peer: this scan was the last, whatever arrives now.    *)
GatherLate(r) ==
  /\ pc[r] = "wait"
  /\ arrived[Peer(r)] < arrived[r]
  /\ Go(r, "late")
  /\ UNCHANGED <<facadeVars, commVars>>

\* Mutant: the clock is read but nothing acts on it.
GatherTimeoutIgnored(r) ==
  /\ pc[r] = "late"
  /\ Go(r, "wait")
  /\ UNCHANGED <<facadeVars, commVars>>

(* TpTimeoutError, the exchange poisoned.                                  *)
GatherTimeout(r) ==
  /\ pc[r] = "late"
  /\ exAborted' = TRUE
  /\ Fail(r, "error")
  /\ UNCHANGED <<facadeVars, arrived, abortWord, sticky, pushed, dev, partial>>

(* CheckHealthy before a chunk's all-reduces are enqueued.                 *)
Health(r) ==
  /\ pc[r] = "health"
  /\ IF AnyAbort THEN Fail(r, "aborted") ELSE Go(r, "enqueue")
  /\ UNCHANGED <<facadeVars, commVars>>

(* AllReduceSumBf16 and the kernel's entry and push.                       *)
Enqueue(r) ==
  /\ pc[r] = "enqueue"
  /\ Go(r, "drain")
  /\ IF sticky[r]
       THEN partial' = [partial EXCEPT ![r] = TRUE] /\ UNCHANGED <<pushed, dev>>
       ELSE /\ pushed' = [pushed EXCEPT ![r] = @ + 1]
            /\ dev' = [dev EXCEPT ![r] = "spin"]
            /\ UNCHANGED partial
  /\ UNCHANGED <<facadeVars, arrived, exAborted, abortWord, sticky>>

(* The stream is synchronized: the next chunk, or the end of the body.     *)
Synced(r) ==
  /\ pc[r] = "drain"
  /\ dev[r] = "idle"
  /\ IF kind[r] = "collective" /\ win[r] < Windows
       THEN /\ win' = [win EXCEPT ![r] = @ + 1]
            /\ pc' = [pc EXCEPT ![r] = "arrive"]
            /\ UNCHANGED <<kind, err, thread, notify>>
       ELSE Go(r, IF kind[r] = "sync" THEN "idle" ELSE "final")
  /\ UNCHANGED <<facadeVars, commVars>>

(* The CheckHealthy that ends a collective command (and a self-test).      *)
Final(r) ==
  /\ pc[r] = "final"
  /\ IF AnyAbort THEN Fail(r, "aborted") ELSE Go(r, "idle")
  /\ UNCHANGED <<facadeVars, commVars>>

(* A plain closure's body.                                                 *)
Work(r) ==
  /\ pc[r] = "work"
  /\ Go(r, "idle")
  /\ UNCHANGED <<facadeVars, commVars>>

(* Anything the body calls may throw: a HIP error, a capacity check, a     *)
(* lockstep fingerprint that differs.  SyncStreams does not give up on a   *)
(* spinning kernel: its 30 s outlast the kernel's own clock.               *)
Throw(r) ==
  /\ pc[r] \in {"arrive", "health", "enqueue", "drain", "work"}
  /\ kind[r] = "sync" => dev[r] = "idle"
  /\ Fail(r, "error")
  /\ UNCHANGED <<facadeVars, commVars>>

Poison == exAborted' = TRUE

(* The closure's catch: HostMailboxComm::Abort unless the error is a       *)
(* TpAbortedError; a plain command poisons nobody.  Then done_ == posted_. *)
Catch(r) ==
  /\ pc[r] = "catch"
  /\ IF kind[r] = "collective" /\ err[r] # "aborted"
       THEN abortWord' = [abortWord EXCEPT ![r] = TRUE] /\ Poison
       ELSE UNCHANGED <<abortWord, exAborted>>
  /\ Go(r, "idle")
  /\ UNCHANGED <<facadeVars, arrived, sticky, pushed, dev, partial>>

-----------------------------------------------------------------------------
(* The all-reduce kernel of a rank's stream.                               *)

Reached(r) == pushed[Peer(r)] >= pushed[r]
AbortSeen == \E r \in Rank : abortWord[r]

ArDone(r) ==
  /\ dev[r] = "spin"
  /\ Reached(r)
  /\ dev' = [dev EXCEPT ![r] = "idle"]
  /\ UNCHANGED <<facadeVars, workerVars, arrived, exAborted, abortWord, sticky, pushed, partial>>

ArGivesUp(r, words) ==
  /\ abortWord' = words
  /\ sticky' = [sticky EXCEPT ![r] = TRUE]
  /\ partial' = [partial EXCEPT ![r] = TRUE]
  /\ dev' = [dev EXCEPT ![r] = "idle"]
  /\ UNCHANGED <<facadeVars, workerVars, arrived, exAborted, pushed>>

(* A poll loads the flag and the ABORT words, then reads the clock: the    *)
(* peer's flag or an abort may come in between.                            *)
Missed(r) == dev[r] = "spin" /\ ~Reached(r)
ArAborted(r) == Missed(r) /\ AbortSeen /\ ArGivesUp(r, abortWord)
ArLate(r) ==
  /\ Missed(r) /\ ~AbortSeen
  /\ dev' = [dev EXCEPT ![r] = "late"]
  /\ UNCHANGED <<facadeVars, workerVars, arrived, exAborted, abortWord, sticky, pushed, partial>>
ArTimeout(r) == dev[r] = "late" /\ ArGivesUp(r, [abortWord EXCEPT ![r] = TRUE])

-----------------------------------------------------------------------------
(* The facade: one thread, one call at a time.                             *)

Start == [collective |-> "arrive", selftest |-> "arrive", solo |-> "work",
          plain |-> "work", sync |-> "drain"]

(* RankWorker::WaitPosted: after its spin the rank takes mu_, finds nothing *)
(* posted and blocks on cv_, which gives mu_ back.                         *)
CheckPosted(r) ==
  /\ thread[r] = "awake" /\ pc[r] = "idle"
  /\ thread' = [thread EXCEPT ![r] = "checked"]
  /\ UNCHANGED <<facadeVars, kind, pc, win, err, notify, commVars>>

Block(r) ==
  /\ thread[r] = "checked"
  /\ thread' = [thread EXCEPT ![r] = "asleep"]
  /\ UNCHANGED <<facadeVars, kind, pc, win, err, notify, commVars>>

\* Mutant: Post stores posted_ without the mutex.
MuFreeAlways(slots) == TRUE
(* Post waits for mu_, which a rank holds from its check to its wait.      *)
MuFree(slots) == \A r \in slots : thread[r] # "checked"

(* Run: the command is posted to the slots' workers; the notifications     *)
(* follow, outside the mutex.                                              *)
Post(slots, k) ==
  /\ MuFree(slots)
  /\ notify' = slots
  /\ UNCHANGED thread
  /\ kind' = [r \in Rank |-> IF r \in slots THEN k ELSE kind[r]]
  /\ pc' = [r \in Rank |-> IF r \in slots THEN Start[k] ELSE pc[r]]
  /\ win' = [r \in Rank |-> IF r \in slots THEN 1 ELSE win[r]]
  /\ err' = [r \in Rank |-> IF r \in slots THEN "none" ELSE err[r]]

(* cv_.notify_one.                                                         *)
Notify(r) ==
  /\ r \in notify
  /\ notify' = notify \ {r}
  /\ thread' = [thread EXCEPT ![r] = IF @ = "asleep" THEN "awake" ELSE @]
  /\ UNCHANGED <<facadeVars, kind, pc, win, err, commVars>>

(* WaitAllIdle returned kDone.                                             *)
Waited == notify = {} /\ AllIdle

(* RunCollective, after RequireReady.                                      *)
RunCollective ==
  /\ facade = "idle" /\ state = "kReady"
  /\ issued < MaxCommands
  /\ facade' = "collective"
  /\ issued' = issued + 1
  /\ result' = "none"
  /\ partial' = [r \in Rank |-> FALSE]
  /\ Post(Rank, "collective")
  /\ UNCHANGED <<state, epoch, arrived, exAborted, abortWord, sticky, pushed, dev>>

(* EncodeImages: a solo command on rank 0, after RequireReady.             *)
EncodeImages ==
  /\ facade = "idle" /\ state = "kReady"
  /\ facade' = "solo"
  /\ Post({0}, "solo")
  /\ UNCHANGED <<state, result, issued, epoch, commVars>>

(* RunAll by BatchRelease, Vram and the counters: any state but kFatal.    *)
RunAll ==
  /\ facade = "idle" /\ state # "kFatal"
  /\ facade' = "plain"
  /\ Post(Rank, "plain")
  /\ UNCHANGED <<state, result, issued, epoch, commVars>>

(* Reset, and its recovery when an earlier command failed.                 *)
ResetReady ==
  /\ facade = "idle" /\ state = "kReady"
  /\ facade' = "reset"
  /\ Post(Rank, "plain")
  /\ UNCHANGED <<state, result, issued, epoch, commVars>>

RecoverStart ==
  /\ facade = "idle" /\ state = "kNeedsRecovery"
  /\ epoch < MaxRecoveries
  /\ epoch' = epoch + 1
  /\ facade' = "rec_sync"
  /\ Post(Rank, "sync")
  /\ UNCHANGED <<state, result, issued, commVars>>

(* The errors are taken, the call returns or throws, and the state says    *)
(* what the next call may do.                                              *)
Return(s) ==
  /\ facade' = "idle"
  /\ state' = s
  /\ err' = [r \in Rank |-> "none"]
  /\ UNCHANGED <<kind, pc, win, thread, notify, issued, epoch, commVars>>

\* Mutant: a failed command leaves the group ready.
ReturnCollectiveUnguarded ==
  /\ facade = "collective" /\ Waited
  /\ Return(state)
  /\ result' = IF Failed THEN "error" ELSE "ok"

\* Mutant: only a root cause is rethrown, aborts are taken for its echo.
ReturnCollectiveRootOnly ==
  /\ facade = "collective" /\ Waited
  /\ LET bad == \E r \in Rank : err[r] = "error" IN
       /\ Return(IF bad THEN "kNeedsRecovery" ELSE state)
       /\ result' = IF bad THEN "error" ELSE "ok"

(* RunGuarded, then RequireAllEqual: results that differ are an error too. *)
ReturnCollective ==
  /\ facade = "collective" /\ Waited
  /\ \E diverged \in BOOLEAN :
       LET bad == Failed \/ diverged IN
       /\ Return(IF bad THEN "kNeedsRecovery" ELSE state)
       /\ result' = IF bad THEN "error" ELSE "ok"

(* EncodeImages is guarded; so is reset_ranks outside a recovery.          *)
ReturnGuarded ==
  /\ facade \in {"solo", "reset"} /\ Waited
  /\ Return(IF Failed THEN "kNeedsRecovery" ELSE state)
  /\ UNCHANGED result

(* RunAll: the caller decides what a failure means; nobody changes state_. *)
ReturnPlain ==
  /\ facade = "plain" /\ Waited
  /\ Return(state)
  /\ UNCHANGED result

RecoverFailed ==
  /\ facade \in {"rec_sync", "rec_test", "rec_reset"} /\ Waited
  /\ Failed
  /\ Return("kFatal")
  /\ UNCHANGED result

(* ResetMailbox, Rebase, HostExchange::Reset and ResetCounters, each with  *)
(* both ranks idle; then the lockstep check and the self-test.             *)
RecoverGroup ==
  /\ facade = "rec_sync" /\ Waited
  /\ ~Failed
  /\ arrived' = [r \in Rank |-> 0]
  /\ pushed' = [r \in Rank |-> 0]
  /\ exAborted' = FALSE
  /\ abortWord' = [r \in Rank |-> FALSE]
  /\ sticky' = [r \in Rank |-> FALSE]
  /\ issued' = 0
  /\ result' = "none"
  /\ facade' = "rec_test"
  /\ Post(Rank, "selftest")
  /\ UNCHANGED <<state, epoch, dev, partial>>

RecoverReset ==
  /\ facade = "rec_test" /\ Waited
  /\ ~Failed
  /\ facade' = "rec_reset"
  /\ Post(Rank, "plain")
  /\ UNCHANGED <<state, result, issued, epoch, commVars>>

RecoverDone ==
  /\ facade = "rec_reset" /\ Waited
  /\ ~Failed
  /\ Return("kReady")
  /\ UNCHANGED result

(* AbortAllFromFacade.                                                     *)
AbortAll ==
  /\ abortWord' = [r \in Rank |-> TRUE]
  /\ exAborted' = TRUE

Waiting == {"collective", "solo", "plain", "reset", "rec_sync", "rec_test", "rec_reset"}

(* WaitAllIdle returned kStalled: no heartbeat moved for the stall limit,  *)
(* which outlasts every bounded wait, so every busy rank is in a HIP call  *)
(* (or never woke up).  The facade leaves while the ranks still run.       *)
Stall ==
  /\ facade \in Waiting
  /\ ~AllIdle /\ notify = {}
  /\ \A r \in Rank : pc[r] \in HipPoints \cup {"idle"} \/ thread[r] = "asleep"
  /\ state' = "kFatal"
  /\ AbortAll
  /\ facade' = "idle"
  /\ result' = IF facade = "collective" THEN "error" ELSE result
  /\ UNCHANGED <<issued, epoch, workerVars, arrived, sticky, pushed, dev, partial>>

-----------------------------------------------------------------------------
(* ~TpModel.                                                               *)
Destroy ==
  /\ facade = "idle"
  /\ facade' = "closing"
  /\ IF state # "kReady" THEN AbortAll ELSE UNCHANGED <<abortWord, exAborted>>
  /\ UNCHANGED <<state, result, issued, epoch, workerVars, arrived, sticky, pushed, dev, partial>>

\* Mutant: idle workers are taken for idle streams.
DestroyDrainSkipped ==
  /\ facade = "closing" /\ Waited
  /\ facade' = "freed"
  /\ UNCHANGED <<state, result, issued, epoch, workerVars, commVars>>

(* Every rank's streams are drained before any rank frees anything.        *)
DestroyDrain ==
  /\ facade = "closing" /\ Waited
  /\ facade' = "draining"
  /\ Post(Rank, "sync")
  /\ UNCHANGED <<state, result, issued, epoch, commVars>>

DestroyFree ==
  /\ facade = "draining" /\ Waited
  /\ facade' = "freed"
  /\ UNCHANGED <<state, result, issued, epoch, workerVars, commVars>>

(* A rank that never finishes: quick_exit(3), nothing is freed.            *)
QuickExit ==
  /\ facade = "closing"
  /\ \E r \in Rank : pc[r] \in HipPoints
  /\ facade' = "exited"
  /\ UNCHANGED <<state, result, issued, epoch, workerVars, commVars>>

Awake(r) == thread[r] = "awake"
RankStep(r) ==
  \/ Awake(r) /\ (\/ Arrive(r) \/ Gathered(r) \/ GatherAborted(r)
                  \/ GatherLate(r) \/ GatherTimeout(r) \/ Health(r) \/ Synced(r) \/ Final(r) \/ Catch(r))
  \/ CheckPosted(r) \/ Block(r)
HipStep(r) == Awake(r) /\ (Enqueue(r) \/ Work(r) \/ Throw(r))
DeviceStep(r) == ArDone(r) \/ ArAborted(r) \/ ArLate(r) \/ ArTimeout(r)
FacadeStep ==
  \/ \E r \in Rank : Notify(r)
  \/ ReturnCollective \/ ReturnGuarded \/ ReturnPlain
  \/ RecoverFailed \/ RecoverGroup \/ RecoverReset \/ RecoverDone
  \/ Stall \/ DestroyDrain \/ DestroyFree \/ QuickExit

Next ==
  \/ facade \notin {"freed", "exited"} /\ \E r \in Rank :
       RankStep(r) \/ HipStep(r) \/ DeviceStep(r)
  \/ RunCollective \/ EncodeImages \/ RunAll \/ ResetReady \/ RecoverStart \/ Destroy
  \/ FacadeStep

Spec == Init /\ [][Next]_vars

(* Rank threads, GPUs and the facade keep running and every wait has its   *)
(* clock, but nothing makes a HIP call return.                             *)
Fairness ==
  /\ \A r \in Rank : WF_vars(RankStep(r)) /\ WF_vars(DeviceStep(r))
  /\ WF_vars(FacadeStep)
FairSpec == Spec /\ Fairness

-----------------------------------------------------------------------------
TypeOK ==
  /\ state \in {"kReady", "kNeedsRecovery", "kFatal"}
  /\ facade \in Calls
  /\ kind \in [Rank -> Kinds] /\ pc \in [Rank -> Points]
  /\ win \in [Rank -> 1 .. Windows]
  /\ err \in [Rank -> {"none", "aborted", "error"}]
  /\ thread \in [Rank -> {"awake", "checked", "asleep"}] /\ notify \subseteq Rank
  /\ arrived \in [Rank -> Nat] /\ pushed \in [Rank -> Nat]
  /\ exAborted \in BOOLEAN
  /\ abortWord \in [Rank -> BOOLEAN] /\ sticky \in [Rank -> BOOLEAN]
  /\ dev \in [Rank -> {"idle", "spin", "late"}]
  /\ partial \in [Rank -> BOOLEAN]
  /\ result \in {"none", "ok", "error"}
  /\ issued \in Nat /\ epoch \in Nat

(* The next collective of a kReady group starts from a clean communicator, *)
(* whatever earlier commands, failures and recoveries did: both ranks at   *)
(* the same gather and the same all-reduce, no kernel in flight, nothing   *)
(* poisoned.  (The alternative is a lockstep check that compares different *)
(* calls, or a kernel that adds another call's data.)  And as long as the  *)
(* facade can post at all, every worker is Idle(), also after it walked    *)
(* away from a stalled command.                                            *)
ReadyIsClean ==
  facade = "idle" =>
    /\ state # "kFatal" => AllIdle
    /\ state = "kReady" =>
         /\ ~AnyAbort
         /\ arrived[0] = arrived[1] /\ pushed[0] = pushed[1]
         /\ \A r \in Rank : dev[r] = "idle" /\ ~sticky[r]

(* A collective call that returned normally reduced every all-reduce on    *)
(* both ranks.                                                             *)
SuccessIsWhole == result = "ok" => \A r \in Rank : ~partial[r]

(* The destructor frees device memory and the mailbox only with both       *)
(* workers idle and no kernel that could still write there.                *)
TeardownIsQuiet == facade = "freed" => AllIdle /\ \A r \in Rank : dev[r] = "idle"

(* No command is lost between the facade's Post and the rank's WaitPosted, *)
(* whether the rank spins, is about to block or sleeps: a worker that was  *)
(* posted to is awake, or will be notified while it can hear it.           *)
NoLostWakeUp ==
  \A r \in Rank : pc[r] # "idle" => Awake(r) \/ (thread[r] = "asleep" /\ r \in notify)

(* Every facade call returns or throws, even if a rank never comes back    *)
(* from a HIP call; so does the destructor.                                *)
EveryCallEnds ==
  /\ facade \in Waiting ~> facade = "idle"
  /\ facade \in {"closing", "draining"} ~> facade \in {"freed", "exited"}

(* docs/tp.md 2.4: "A rank's closure throws anything | that rank calls     *)
(* comm->Abort(...), so ... a peer blocked in HostAllGather wakes with     *)
(* TpAbortedError": once a rank's collective command has failed, a peer    *)
(* that waits in the all-gather finds the exchange poisoned.               *)
ThrowWakesPeer ==
  \A r \in Rank :
    pc[r] = "idle" /\ kind[r] = "collective" /\ err[r] # "none" /\ pc[Peer(r)] = "wait"
      => exAborted \/ arrived[r] >= arrived[Peer(r)]
-----------------------------------------------------------------------------
(* The inductive invariant behind ReadyIsClean, SuccessIsWhole,            *)
(* TeardownIsQuiet and NoLostWakeUp (TpModelProofs).                       *)

(* Where the closure of each kind can be, and which kind each call posted. *)
PointsOfKind ==
  \A r \in Rank :
    /\ kind[r] \in {"solo", "plain"} => pc[r] \in {"work", "catch", "idle"}
    /\ kind[r] = "sync" => pc[r] \in {"drain", "catch", "idle"}
    /\ kind[r] \in {"collective", "selftest"} => pc[r] # "work"
    /\ kind[r] = "selftest" => win[r] = 1
    /\ pc[r] = "catch" => err[r] # "none"
    /\ pc[r] \notin {"catch", "idle"} => err[r] = "none"

KindsOfCall ==
  /\ facade = "collective" => \A r \in Rank : kind[r] = "collective"
  /\ facade = "rec_test" => \A r \in Rank : kind[r] = "selftest"
  /\ facade \in {"rec_sync", "draining", "freed"} => \A r \in Rank : kind[r] = "sync"
  /\ facade \in {"plain", "reset", "rec_reset"} => \A r \in Rank : kind[r] = "plain"
  /\ facade = "solo" => kind[0] = "solo" /\ pc[1] = "idle"

(* Between two calls of a group that is not kFatal, and once the memory is *)
(* freed, no worker runs.                                                  *)
IdleWhenPosting ==
  /\ facade = "idle" /\ state # "kFatal" => AllIdle
  /\ facade = "freed" => AllIdle

(* A drained rank has no kernel; a kernel that gave up left an ABORT word. *)
SyncDrains == \A r \in Rank : kind[r] = "sync" /\ pc[r] # "drain" => dev[r] = "idle"
StickyAborts == \A r \in Rank : sticky[r] => AbortSeen

Clean ==
  /\ ~AnyAbort
  /\ arrived[0] = arrived[1] /\ pushed[0] = pushed[1]
  /\ \A r \in Rank : dev[r] = "idle" /\ ~sticky[r]

(* Calls that leave the communicator alone find it and leave it clean.     *)
CleanOutside ==
  /\ state = "kReady" /\ facade \in {"idle", "solo", "plain", "reset"} => Clean
  /\ facade = "rec_reset" => Clean

(* While a call uses the communicator: two ranks that have neither failed  *)
(* nor been poisoned are the same distance from where both started, and    *)
(* both can only have finished with nothing poisoned.                      *)
Entered(r) == IF pc[r] = "arrive" THEN win[r] - 1 ELSE win[r]
Reduced(r) == IF pc[r] \in {"arrive", "wait", "late", "health", "enqueue"} THEN win[r] - 1 ELSE win[r]
InGroupCall == facade \in {"collective", "rec_test"}
Passed(r) == pc[r] = "idle" /\ err[r] = "none"

GroupInStep ==
  InGroupCall =>
    /\ ~AnyAbort /\ ~Failed =>
         /\ arrived[0] + Entered(1) = arrived[1] + Entered(0)
         /\ pushed[0] + Reduced(1) = pushed[1] + Reduced(0)
    /\ (\A r \in Rank : Passed(r)) => ~AnyAbort
    /\ \A r \in Rank :
         /\ err[r] = "none" /\ pc[r] # "drain" => dev[r] = "idle"
         /\ err[r] = "none" /\ pc[r] \in {"final", "idle"} /\ kind[r] = "collective"
              => win[r] = Windows

(* A reduction that failed left its rank's sticky word; and once a call    *)
(* succeeded nothing that could fail it is left running.                   *)
PartialIsSticky ==
  facade = "collective" => \A r \in Rank : partial[r] => sticky[r]
SuccessStays ==
  result = "ok" =>
    \A r \in Rank : /\ ~partial[r] /\ dev[r] = "idle"
                    /\ pc[r] = "idle" \/ kind[r] \in {"solo", "plain", "sync"}

IInv ==
  /\ TypeOK /\ NoLostWakeUp /\ PointsOfKind /\ KindsOfCall /\ IdleWhenPosting
  /\ SyncDrains /\ StickyAborts /\ CleanOutside /\ GroupInStep
  /\ PartialIsSticky /\ SuccessStays
=============================================================================
