--------------------------- MODULE TpModelProofs ---------------------------
(***************************************************************************)
(* For every number of chunks, commands and recoveries: a kReady group is  *)
(* clean, a successful collective is whole, the teardown is quiet and no   *)
(* command is lost between Post and WaitPosted.  The proof is the          *)
(* invariance of TpModel!IInv: one lemma per conjunct, in it one step per  *)
(* action or per group of actions that touch the conjunct alike.           *)
(***************************************************************************)
EXTENDS TpModel, TLAPS

(* A worker that can take a step of its closure. *)
Running(r) == Awake(r) /\ facade \notin {"freed", "exited"}

(* The steps of the specification, by who takes them. *)
LEMMA StepCases ==
  ASSUME [Next]_vars
  PROVE  \/ \E r \in Rank : Running(r) /\
              (\/ Arrive(r) \/ Gathered(r) \/ GatherLate(r) \/ GatherAborted(r) \/ GatherTimeout(r)
               \/ Health(r) \/ Enqueue(r) \/ Synced(r) \/ Final(r)
               \/ Work(r) \/ Throw(r) \/ Catch(r))
         \/ \E r \in Rank : facade \notin {"freed", "exited"} /\
              (CheckPosted(r) \/ Block(r) \/ ArDone(r) \/ ArLate(r) \/ ArAborted(r) \/ ArTimeout(r))
         \/ \E r \in Rank : Notify(r)
         \/ ReturnCollective \/ ReturnGuarded \/ ReturnPlain
         \/ RecoverFailed \/ RecoverGroup \/ RecoverReset \/ RecoverDone \/ Stall
         \/ RunCollective \/ EncodeImages \/ RunAll \/ ResetReady \/ RecoverStart
         \/ Destroy \/ DestroyDrain \/ DestroyFree \/ QuickExit
         \/ UNCHANGED vars
  BY DEF Next, RankStep, HipStep, DeviceStep, FacadeStep, Running

(* Every variable keeps its type. *)
LEMMA TypeStep == IInv /\ [Next]_vars => TypeOK'
  <1> SUFFICES ASSUME TypeOK, [Next]_vars PROVE TypeOK'
    BY DEF IInv
  <1>1. ASSUME NEW r \in Rank, Running(r), Arrive(r) PROVE TypeOK'
    BY <1>1 DEF Arrive, Go, Fail, facadeVars, TypeOK, Points
  <1>2. ASSUME NEW r \in Rank, Running(r), Gathered(r) \/ GatherLate(r) PROVE TypeOK'
    BY <1>2 DEF Gathered, GatherLate, Go, facadeVars, commVars, TypeOK, Points
  <1>3. ASSUME NEW r \in Rank, Running(r), GatherAborted(r) PROVE TypeOK'
    BY <1>3 DEF GatherAborted, Fail, facadeVars, commVars, TypeOK, Points
  <1>4. ASSUME NEW r \in Rank, Running(r), GatherTimeout(r) PROVE TypeOK'
    BY <1>4 DEF GatherTimeout, Fail, facadeVars, TypeOK, Points
  <1>5. ASSUME NEW r \in Rank, Running(r), Health(r) PROVE TypeOK'
    BY <1>5 DEF Health, Go, Fail, facadeVars, commVars, TypeOK, Points
  <1>6. ASSUME NEW r \in Rank, Running(r), Enqueue(r) PROVE TypeOK'
    <2>1. CASE sticky[r]
      BY <1>6, <2>1, BoundsAssumption DEF Enqueue, Go, facadeVars, TypeOK,
         Points
    <2>2. CASE ~(sticky[r])
      BY <1>6, <2>2, BoundsAssumption DEF Enqueue, Go, facadeVars, TypeOK,
         Points
    <2> QED BY <2>1, <2>2
  <1>7. ASSUME NEW r \in Rank, Running(r), Synced(r) PROVE TypeOK'
    <2>1. CASE kind[r] = "collective" /\ win[r] < Windows
      BY <1>7, <2>1, BoundsAssumption DEF Synced, Go, facadeVars, commVars,
         TypeOK, Points
    <2>2. CASE ~(kind[r] = "collective" /\ win[r] < Windows)
      BY <1>7, <2>2, BoundsAssumption DEF Synced, Go, facadeVars, commVars,
         TypeOK, Points
    <2> QED BY <2>1, <2>2
  <1>8. ASSUME NEW r \in Rank, Running(r), Final(r) PROVE TypeOK'
    BY <1>8 DEF Final, Go, Fail, facadeVars, commVars, TypeOK, Points
  <1>9. ASSUME NEW r \in Rank, Running(r), Work(r) PROVE TypeOK'
    BY <1>9 DEF Work, Go, facadeVars, commVars, TypeOK, Points
  <1>10. ASSUME NEW r \in Rank, Running(r), Throw(r) PROVE TypeOK'
    BY <1>10 DEF Throw, Fail, facadeVars, commVars, TypeOK, Points
  <1>11. ASSUME NEW r \in Rank, Running(r), Catch(r) PROVE TypeOK'
    BY <1>11 DEF Catch, Go, Poison, facadeVars, TypeOK, Points
  <1>12. ASSUME NEW r \in Rank, facade \notin {"freed", "exited"},
               CheckPosted(r)
          PROVE  TypeOK'
    BY <1>12 DEF CheckPosted, facadeVars, commVars, TypeOK, Points
  <1>13. ASSUME NEW r \in Rank, facade \notin {"freed", "exited"},
               Block(r)
          PROVE  TypeOK'
    BY <1>13 DEF Block, facadeVars, commVars, TypeOK, Points
  <1>14. ASSUME NEW r \in Rank, facade \notin {"freed", "exited"},
               ArDone(r) \/ ArLate(r)
          PROVE  TypeOK'
    BY <1>14 DEF ArDone, ArLate, Missed, facadeVars, workerVars, TypeOK, Points
  <1>15. ASSUME NEW r \in Rank, facade \notin {"freed", "exited"},
               ArAborted(r)
          PROVE  TypeOK'
    BY <1>15 DEF ArAborted, Missed, ArGivesUp, facadeVars, workerVars, TypeOK, Points
  <1>16. ASSUME NEW r \in Rank, facade \notin {"freed", "exited"},
               ArTimeout(r)
          PROVE  TypeOK'
    BY <1>16 DEF ArTimeout, ArGivesUp, facadeVars, workerVars, TypeOK, Points
  <1>17. ASSUME NEW r \in Rank, Notify(r) PROVE TypeOK'
    BY <1>17 DEF Notify, facadeVars, commVars, TypeOK, Points
  <1>18. CASE ReturnCollective
    BY <1>18 DEF ReturnCollective, Return, Waited, commVars, TypeOK, Points,
       Calls, Kinds
  <1>19. CASE ReturnGuarded
    BY <1>19 DEF ReturnGuarded, Return, Waited, commVars, TypeOK, Points,
       Calls, Kinds
  <1>20. CASE ReturnPlain
    BY <1>20 DEF ReturnPlain, Return, Waited, commVars, TypeOK, Points, Calls,
       Kinds
  <1>21. CASE RecoverFailed
    BY <1>21 DEF RecoverFailed, Return, Waited, commVars, TypeOK, Points,
       Calls, Kinds
  <1>22. CASE RecoverGroup
    <2>1. /\ kind' \in [Rank -> Kinds] /\ pc' \in [Rank -> Points]
          /\ win' \in [Rank -> 1 .. Windows]
          /\ err' \in [Rank -> {"none", "aborted", "error"}]
          /\ thread' = thread /\ notify' \subseteq Rank
      BY <1>22, BoundsAssumption DEF RecoverGroup, Post, Start, Kinds, TypeOK,
         Points
    <2> QED BY <1>22, <2>1 DEF RecoverGroup, Calls, TypeOK, facadeVars,
      commVars
  <1>23. CASE RecoverReset
    BY <1>23, BoundsAssumption DEF RecoverReset, Post, Start, Waited,
       commVars, TypeOK, Points, Calls, Kinds
  <1>24. CASE RecoverDone
    BY <1>24 DEF RecoverDone, Return, Waited, commVars, TypeOK, Points, Calls,
       Kinds
  <1>25. CASE Stall
    BY <1>25 DEF Stall, AbortAll, workerVars, TypeOK, Points, Calls, Kinds
  <1>26. CASE RunCollective
    <2>1. /\ kind' \in [Rank -> Kinds] /\ pc' \in [Rank -> Points]
          /\ win' \in [Rank -> 1 .. Windows]
          /\ err' \in [Rank -> {"none", "aborted", "error"}]
          /\ thread' = thread /\ notify' \subseteq Rank
      BY <1>26, BoundsAssumption DEF RunCollective, Post, Start, Kinds,
         TypeOK, Points
    <2> QED BY <1>26, <2>1 DEF RunCollective, Calls, TypeOK, facadeVars,
      commVars
  <1>27. CASE EncodeImages
    <2>1. /\ kind' \in [Rank -> Kinds] /\ pc' \in [Rank -> Points]
          /\ win' \in [Rank -> 1 .. Windows]
          /\ err' \in [Rank -> {"none", "aborted", "error"}]
          /\ thread' = thread /\ notify' \subseteq Rank
      BY <1>27, BoundsAssumption DEF EncodeImages, Post, Start, Kinds, TypeOK,
         Points, Rank
    <2> QED BY <1>27, <2>1 DEF EncodeImages, Calls, TypeOK, facadeVars,
      commVars
  <1>28. CASE RunAll
    BY <1>28, BoundsAssumption DEF RunAll, Post, Start, commVars, TypeOK,
       Points, Calls, Kinds
  <1>29. CASE ResetReady
    BY <1>29, BoundsAssumption DEF ResetReady, Post, Start, commVars, TypeOK,
       Points, Calls, Kinds
  <1>30. CASE RecoverStart
    BY <1>30, BoundsAssumption DEF RecoverStart, Post, Start, commVars,
       TypeOK, Points, Calls, Kinds
  <1>31. CASE Destroy
    BY <1>31 DEF Destroy, AbortAll, workerVars, TypeOK, Points, Calls, Kinds
  <1>32. CASE DestroyDrain
    BY <1>32, BoundsAssumption DEF DestroyDrain, Post, Start, Waited,
       commVars, TypeOK, Points, Calls, Kinds
  <1>33. CASE DestroyFree
    BY <1>33 DEF DestroyFree, Waited, workerVars, commVars, TypeOK, Points,
       Calls, Kinds
  <1>34. CASE QuickExit
    BY <1>34 DEF QuickExit, workerVars, commVars, TypeOK, Points, Calls, Kinds
  <1>35. CASE UNCHANGED vars
    BY <1>35 DEF vars, facadeVars, workerVars, commVars, TypeOK, Points
  <1> QED
    BY StepCases, <1>1, <1>2, <1>3, <1>4, <1>5, <1>6, <1>7, <1>8, <1>9, <1>10,
       <1>11, <1>12, <1>13, <1>14, <1>15, <1>16, <1>17, <1>18, <1>19, <1>20,
       <1>21, <1>22, <1>23, <1>24, <1>25, <1>26, <1>27, <1>28, <1>29, <1>30,
       <1>31, <1>32, <1>33, <1>34, <1>35

(* A posted worker hears of it: Post finds mu_ free, so nobody is between *)
(* the check and the wait, and only awake workers take steps of a closure. *)
LEMMA WakeStep == IInv /\ [Next]_vars => NoLostWakeUp'
  <1> SUFFICES ASSUME TypeOK, NoLostWakeUp, IdleWhenPosting,
    [Next]_vars PROVE NoLostWakeUp'
    BY DEF IInv
  <1>1. ASSUME NEW r \in Rank, Running(r),
    GatherAborted(r) \/ GatherTimeout(r) \/ Throw(r)
          PROVE  NoLostWakeUp'
    BY <1>1 DEF GatherAborted, GatherTimeout, Throw, Fail, facadeVars,
       commVars, NoLostWakeUp, TypeOK, Awake, Running
  <1>2. ASSUME NEW r \in Rank, Running(r), Gathered(r) \/ GatherLate(r) \/ Work(r)
          PROVE  NoLostWakeUp'
    BY <1>2 DEF Gathered, GatherLate, Work, Go, facadeVars, commVars, NoLostWakeUp,
       TypeOK, Awake, Running
  <1>3. ASSUME NEW r \in Rank, Running(r), Arrive(r) \/ Health(r) \/ Final(r)
          PROVE  NoLostWakeUp'
    BY <1>3 DEF Arrive, Health, Final, Go, Fail, facadeVars, commVars,
       NoLostWakeUp, TypeOK, Awake, Running
  <1>4. ASSUME NEW r \in Rank, Running(r), Enqueue(r) PROVE NoLostWakeUp'
    BY <1>4 DEF Enqueue, Go, facadeVars, NoLostWakeUp, TypeOK, Awake, Running
  <1>5. ASSUME NEW r \in Rank, Running(r), Synced(r) PROVE NoLostWakeUp'
    BY <1>5 DEF Synced, Go, facadeVars, commVars, NoLostWakeUp, TypeOK, Awake,
       Running
  <1>6. ASSUME NEW r \in Rank, Running(r), Catch(r) PROVE NoLostWakeUp'
    BY <1>6 DEF Catch, Go, Poison, facadeVars, NoLostWakeUp, TypeOK, Awake,
       Running
  <1>7. ASSUME NEW r \in Rank, facade \notin {"freed", "exited"},
               ArDone(r) \/ ArLate(r) \/ ArAborted(r) \/ ArTimeout(r)
          PROVE  NoLostWakeUp'
    BY <1>7 DEF ArDone, ArLate, Missed, ArAborted, ArTimeout, ArGivesUp, facadeVars,
       workerVars, NoLostWakeUp, Awake
  <1>8. ASSUME NEW r \in Rank, facade \notin {"freed", "exited"},
               CheckPosted(r) \/ Block(r)
          PROVE  NoLostWakeUp'
    BY <1>8 DEF CheckPosted, Block, facadeVars, commVars, NoLostWakeUp,
       TypeOK, Awake
  <1>9. ASSUME NEW r \in Rank, Notify(r) PROVE NoLostWakeUp'
    BY <1>9 DEF Notify, facadeVars, commVars, NoLostWakeUp, TypeOK, Awake
  <1>10. CASE ReturnCollective \/ ReturnGuarded \/ ReturnPlain
    \/ RecoverFailed \/ RecoverDone \/ Stall \/ Destroy \/ DestroyFree
    \/ QuickExit
    BY <1>10 DEF ReturnCollective, ReturnGuarded, ReturnPlain, RecoverFailed,
       RecoverDone, Stall, Destroy, DestroyFree, QuickExit, Return, Waited,
       AbortAll, workerVars, commVars, NoLostWakeUp, Awake, AllIdle, Rank
  <1>11. CASE RecoverReset \/ EncodeImages \/ RunAll \/ ResetReady
    \/ RecoverStart \/ DestroyDrain
    BY <1>11 DEF RecoverReset, EncodeImages, RunAll, ResetReady, RecoverStart,
       DestroyDrain, Post, Start, Waited, commVars, NoLostWakeUp, TypeOK,
       Awake, IdleWhenPosting, AllIdle, MuFree, Rank
  <1>12. CASE RecoverGroup
    BY <1>12 DEF RecoverGroup, Post, Start, Waited, NoLostWakeUp, TypeOK,
       Awake, AllIdle, MuFree, Rank
  <1>13. CASE RunCollective
    BY <1>13 DEF RunCollective, Post, Start, NoLostWakeUp, TypeOK, Awake,
       IdleWhenPosting, AllIdle, MuFree, Rank
  <1>14. CASE UNCHANGED vars
    BY <1>14 DEF vars, facadeVars, workerVars, commVars, NoLostWakeUp, Awake
  <1> QED
    BY StepCases, <1>1, <1>2, <1>3, <1>4, <1>5, <1>6, <1>7, <1>8, <1>9, <1>10,
       <1>11, <1>12, <1>13, <1>14

(* A closure stays within the code of its kind. *)
LEMMA PointsStep == IInv /\ [Next]_vars => PointsOfKind'
  <1> SUFFICES ASSUME TypeOK, PointsOfKind, [Next]_vars PROVE PointsOfKind'
    BY DEF IInv
  <1>1. ASSUME NEW r \in Rank, Running(r),
    GatherAborted(r) \/ GatherTimeout(r) \/ Throw(r)
          PROVE  PointsOfKind'
    BY <1>1 DEF GatherAborted, GatherTimeout, Throw, Fail, facadeVars,
       commVars, PointsOfKind, TypeOK
  <1>2. ASSUME NEW r \in Rank, Running(r), Gathered(r) \/ GatherLate(r) \/ Work(r)
          PROVE  PointsOfKind'
    BY <1>2 DEF Gathered, GatherLate, Work, Go, facadeVars, commVars, PointsOfKind, TypeOK
  <1>3. ASSUME NEW r \in Rank, Running(r), Arrive(r) \/ Health(r) \/ Final(r)
          PROVE  PointsOfKind'
    BY <1>3 DEF Arrive, Health, Final, Go, Fail, facadeVars, commVars,
       PointsOfKind, TypeOK
  <1>4. ASSUME NEW r \in Rank, Running(r), Enqueue(r) PROVE PointsOfKind'
    BY <1>4 DEF Enqueue, Go, facadeVars, PointsOfKind, TypeOK
  <1>5. ASSUME NEW r \in Rank, Running(r), Synced(r) PROVE PointsOfKind'
    BY <1>5 DEF Synced, Go, facadeVars, commVars, PointsOfKind, TypeOK
  <1>6. ASSUME NEW r \in Rank, Running(r), Catch(r) PROVE PointsOfKind'
    BY <1>6 DEF Catch, Go, Poison, facadeVars, PointsOfKind, TypeOK
  <1>7. ASSUME NEW r \in Rank, facade \notin {"freed", "exited"},
               CheckPosted(r) \/ Block(r) \/ ArDone(r) \/ ArLate(r) \/ ArAborted(r)
                 \/ ArTimeout(r)
          PROVE  PointsOfKind'
    BY <1>7 DEF CheckPosted, Block, ArDone, ArLate, Missed, ArAborted, ArTimeout, ArGivesUp,
       facadeVars, workerVars, commVars, PointsOfKind
  <1>8. ASSUME NEW r \in Rank, Notify(r) PROVE PointsOfKind'
    BY <1>8 DEF Notify, facadeVars, commVars, PointsOfKind
  <1>9. CASE Stall \/ Destroy \/ DestroyFree \/ QuickExit
    BY <1>9 DEF Stall, Destroy, DestroyFree, QuickExit, AbortAll, Waited,
       workerVars, commVars, PointsOfKind, AllIdle, Rank
  <1>10. CASE ReturnCollective \/ ReturnGuarded \/ ReturnPlain
    \/ RecoverFailed \/ RecoverDone
    BY <1>10 DEF ReturnCollective, ReturnGuarded, ReturnPlain, RecoverFailed,
       RecoverDone, Return, Waited, commVars, PointsOfKind, TypeOK, AllIdle,
       Rank
  <1>11. CASE RecoverReset \/ EncodeImages \/ RunAll \/ ResetReady
    \/ RecoverStart \/ DestroyDrain
    BY <1>11 DEF RecoverReset, EncodeImages, RunAll, ResetReady, RecoverStart,
       DestroyDrain, Post, Start, Waited, commVars, PointsOfKind, TypeOK,
       AllIdle, Rank
  <1>12. CASE RecoverGroup
    BY <1>12 DEF RecoverGroup, Post, Start, Waited, PointsOfKind, TypeOK,
       AllIdle, Rank
  <1>13. CASE RunCollective
    BY <1>13 DEF RunCollective, Post, Start, PointsOfKind, TypeOK, Rank
  <1>14. CASE UNCHANGED vars
    BY <1>14 DEF vars, facadeVars, workerVars, commVars, PointsOfKind
  <1> QED
    BY StepCases, <1>1, <1>2, <1>3, <1>4, <1>5, <1>6, <1>7, <1>8, <1>9, <1>10,
       <1>11, <1>12, <1>13, <1>14

(* Both workers hold the command the facade waits for. *)
LEMMA KindsStep == IInv /\ [Next]_vars => KindsOfCall'
  <1> SUFFICES ASSUME TypeOK, KindsOfCall, IdleWhenPosting,
    [Next]_vars PROVE KindsOfCall'
    BY DEF IInv
  <1>1. ASSUME NEW r \in Rank, Running(r),
    GatherAborted(r) \/ GatherTimeout(r) \/ Throw(r)
          PROVE  KindsOfCall'
    BY <1>1 DEF GatherAborted, GatherTimeout, Throw, Fail, facadeVars,
       commVars, KindsOfCall, TypeOK, Rank
  <1>2. ASSUME NEW r \in Rank, Running(r), Gathered(r) \/ GatherLate(r) \/ Work(r)
          PROVE  KindsOfCall'
    BY <1>2 DEF Gathered, GatherLate, Work, Go, facadeVars, commVars, KindsOfCall, TypeOK,
       Rank
  <1>3. ASSUME NEW r \in Rank, Running(r), Arrive(r) \/ Health(r) \/ Final(r)
          PROVE  KindsOfCall'
    BY <1>3 DEF Arrive, Health, Final, Go, Fail, facadeVars, commVars,
       KindsOfCall, TypeOK, Rank
  <1>4. ASSUME NEW r \in Rank, Running(r), Enqueue(r) PROVE KindsOfCall'
    BY <1>4 DEF Enqueue, Go, facadeVars, KindsOfCall, TypeOK, Rank
  <1>5. ASSUME NEW r \in Rank, Running(r), Synced(r) PROVE KindsOfCall'
    BY <1>5 DEF Synced, Go, facadeVars, commVars, KindsOfCall, TypeOK, Rank
  <1>6. ASSUME NEW r \in Rank, Running(r), Catch(r) PROVE KindsOfCall'
    BY <1>6 DEF Catch, Go, Poison, facadeVars, KindsOfCall, TypeOK, Rank
  <1>7. ASSUME NEW r \in Rank, facade \notin {"freed", "exited"},
               CheckPosted(r) \/ Block(r) \/ ArDone(r) \/ ArLate(r) \/ ArAborted(r)
                 \/ ArTimeout(r)
          PROVE  KindsOfCall'
    BY <1>7 DEF CheckPosted, Block, ArDone, ArLate, Missed, ArAborted, ArTimeout, ArGivesUp,
       facadeVars, workerVars, commVars, KindsOfCall, Rank
  <1>8. ASSUME NEW r \in Rank, Notify(r) PROVE KindsOfCall'
    BY <1>8 DEF Notify, facadeVars, commVars, KindsOfCall, Rank
  <1>9. CASE ReturnCollective \/ ReturnGuarded \/ ReturnPlain
    \/ RecoverFailed \/ RecoverDone
    BY <1>9 DEF ReturnCollective, ReturnGuarded, ReturnPlain, RecoverFailed,
       RecoverDone, Return, Waited, commVars, KindsOfCall, TypeOK, Rank,
       AllIdle
  <1>10. CASE RecoverReset \/ EncodeImages \/ RunAll \/ ResetReady
    \/ RecoverStart \/ DestroyDrain
    BY <1>10 DEF RecoverReset, EncodeImages, RunAll, ResetReady, RecoverStart,
       DestroyDrain, Post, Start, Waited, commVars, KindsOfCall, TypeOK, Rank,
       AllIdle, IdleWhenPosting
  <1>11. CASE Stall \/ Destroy \/ DestroyFree \/ QuickExit
    BY <1>11 DEF Stall, Destroy, DestroyFree, QuickExit, AbortAll, Waited,
       workerVars, commVars, KindsOfCall, TypeOK, Rank, AllIdle
  <1>12. CASE RecoverGroup
    BY <1>12 DEF RecoverGroup, Post, Start, Waited, KindsOfCall, TypeOK, Rank,
       AllIdle
  <1>13. CASE RunCollective
    BY <1>13 DEF RunCollective, Post, Start, KindsOfCall, TypeOK, Rank
  <1>14. CASE UNCHANGED vars
    BY <1>14 DEF vars, facadeVars, workerVars, commVars, KindsOfCall, Rank
  <1> QED
    BY StepCases, <1>1, <1>2, <1>3, <1>4, <1>5, <1>6, <1>7, <1>8, <1>9, <1>10,
       <1>11, <1>12, <1>13, <1>14

(* Only a stalled call leaves while workers run, and it leaves kFatal. *)
LEMMA IdleStep == IInv /\ [Next]_vars => IdleWhenPosting'
  <1> SUFFICES ASSUME TypeOK, IdleWhenPosting,
    [Next]_vars PROVE IdleWhenPosting'
    BY DEF IInv
  <1>1. ASSUME NEW r \in Rank, Running(r),
    GatherAborted(r) \/ GatherTimeout(r) \/ Throw(r)
          PROVE  IdleWhenPosting'
    BY <1>1 DEF GatherAborted, GatherTimeout, Throw, Fail, facadeVars,
       commVars, IdleWhenPosting, TypeOK, AllIdle, Running
  <1>2. ASSUME NEW r \in Rank, Running(r), Gathered(r) \/ GatherLate(r) \/ Work(r)
          PROVE  IdleWhenPosting'
    BY <1>2 DEF Gathered, GatherLate, Work, Go, facadeVars, commVars, IdleWhenPosting,
       TypeOK, AllIdle, Running
  <1>3. ASSUME NEW r \in Rank, Running(r), Arrive(r) \/ Health(r) \/ Final(r)
          PROVE  IdleWhenPosting'
    BY <1>3 DEF Arrive, Health, Final, Go, Fail, facadeVars, commVars,
       IdleWhenPosting, TypeOK, AllIdle, Running
  <1>4. ASSUME NEW r \in Rank, Running(r), Enqueue(r) PROVE IdleWhenPosting'
    BY <1>4 DEF Enqueue, Go, facadeVars, IdleWhenPosting, TypeOK, AllIdle,
       Running
  <1>5. ASSUME NEW r \in Rank, Running(r), Synced(r) PROVE IdleWhenPosting'
    BY <1>5 DEF Synced, Go, facadeVars, commVars, IdleWhenPosting, TypeOK,
       AllIdle, Running
  <1>6. ASSUME NEW r \in Rank, Running(r), Catch(r) PROVE IdleWhenPosting'
    BY <1>6 DEF Catch, Go, Poison, facadeVars, IdleWhenPosting, TypeOK,
       AllIdle, Running
  <1>7. ASSUME NEW r \in Rank, facade \notin {"freed", "exited"},
               CheckPosted(r) \/ Block(r) \/ ArDone(r) \/ ArLate(r) \/ ArAborted(r)
                 \/ ArTimeout(r)
          PROVE  IdleWhenPosting'
    BY <1>7 DEF CheckPosted, Block, ArDone, ArLate, Missed, ArAborted, ArTimeout, ArGivesUp,
       facadeVars, workerVars, commVars, IdleWhenPosting, AllIdle
  <1>8. ASSUME NEW r \in Rank, Notify(r) PROVE IdleWhenPosting'
    BY <1>8 DEF Notify, facadeVars, commVars, IdleWhenPosting, AllIdle
  <1>9. CASE ReturnCollective \/ ReturnGuarded \/ ReturnPlain
    \/ RecoverFailed \/ RecoverDone
    BY <1>9 DEF ReturnCollective, ReturnGuarded, ReturnPlain, RecoverFailed,
       RecoverDone, Return, Waited, commVars, IdleWhenPosting, TypeOK, AllIdle
  <1>10. CASE RecoverReset \/ EncodeImages \/ RunAll \/ ResetReady
    \/ RecoverStart \/ DestroyDrain
    BY <1>10 DEF RecoverReset, EncodeImages, RunAll, ResetReady, RecoverStart,
       DestroyDrain, Post, Start, Waited, commVars, IdleWhenPosting, TypeOK,
       AllIdle
  <1>11. CASE Stall \/ Destroy \/ DestroyFree \/ QuickExit
    BY <1>11 DEF Stall, Destroy, DestroyFree, QuickExit, AbortAll, Waited,
       workerVars, commVars, IdleWhenPosting, TypeOK, AllIdle
  <1>12. CASE RecoverGroup
    BY <1>12 DEF RecoverGroup, Post, Start, Waited, IdleWhenPosting, TypeOK,
       AllIdle
  <1>13. CASE RunCollective
    BY <1>13 DEF RunCollective, Post, Start, IdleWhenPosting, TypeOK, AllIdle
  <1>14. CASE UNCHANGED vars
    BY <1>14 DEF vars, facadeVars, workerVars, commVars, IdleWhenPosting,
       AllIdle
  <1> QED
    BY StepCases, <1>1, <1>2, <1>3, <1>4, <1>5, <1>6, <1>7, <1>8, <1>9, <1>10,
       <1>11, <1>12, <1>13, <1>14

(* The streams of a drained rank are empty: nothing enqueues after it. *)
LEMMA DrainStep == IInv /\ [Next]_vars => SyncDrains'
  <1> SUFFICES ASSUME TypeOK, SyncDrains, PointsOfKind,
    [Next]_vars PROVE SyncDrains'
    BY DEF IInv
  <1>1. ASSUME NEW r \in Rank, Running(r),
    GatherAborted(r) \/ GatherTimeout(r) \/ Throw(r)
          PROVE  SyncDrains'
    BY <1>1 DEF GatherAborted, GatherTimeout, Throw, Fail, facadeVars,
       commVars, SyncDrains, TypeOK
  <1>2. ASSUME NEW r \in Rank, Running(r), Gathered(r) \/ GatherLate(r) \/ Work(r)
          PROVE  SyncDrains'
    BY <1>2 DEF Gathered, GatherLate, Work, Go, facadeVars, commVars, SyncDrains, TypeOK
  <1>3. ASSUME NEW r \in Rank, Running(r), Arrive(r) \/ Health(r) \/ Final(r)
          PROVE  SyncDrains'
    BY <1>3 DEF Arrive, Health, Final, Go, Fail, facadeVars, commVars,
       SyncDrains, TypeOK
  <1>4. ASSUME NEW r \in Rank, Running(r), Enqueue(r) PROVE SyncDrains'
    BY <1>4 DEF Enqueue, Go, facadeVars, SyncDrains, TypeOK, PointsOfKind
  <1>5. ASSUME NEW r \in Rank, Running(r), Synced(r) PROVE SyncDrains'
    BY <1>5 DEF Synced, Go, facadeVars, commVars, SyncDrains, TypeOK
  <1>6. ASSUME NEW r \in Rank, Running(r), Catch(r) PROVE SyncDrains'
    BY <1>6 DEF Catch, Go, Poison, facadeVars, SyncDrains, TypeOK
  <1>7. ASSUME NEW r \in Rank, facade \notin {"freed", "exited"},
               CheckPosted(r) \/ Block(r)
          PROVE  SyncDrains'
    BY <1>7 DEF CheckPosted, Block, facadeVars, commVars, SyncDrains
  <1>8. ASSUME NEW r \in Rank, facade \notin {"freed", "exited"},
               ArAborted(r) \/ ArTimeout(r)
          PROVE  SyncDrains'
    BY <1>8 DEF ArAborted, Missed, ArTimeout, ArGivesUp, facadeVars, workerVars,
       SyncDrains, TypeOK
  <1>9. ASSUME NEW r \in Rank, facade \notin {"freed", "exited"},
               ArDone(r) \/ ArLate(r)
          PROVE  SyncDrains'
    BY <1>9 DEF ArDone, ArLate, Missed, facadeVars, workerVars, SyncDrains, TypeOK
  <1>10. ASSUME NEW r \in Rank, Notify(r) PROVE SyncDrains'
    BY <1>10 DEF Notify, facadeVars, commVars, SyncDrains
  <1>11. CASE ReturnCollective \/ ReturnGuarded \/ ReturnPlain
    \/ RecoverFailed \/ RecoverDone \/ Stall \/ Destroy \/ DestroyFree
    \/ QuickExit
    BY <1>11 DEF ReturnCollective, ReturnGuarded, ReturnPlain, RecoverFailed,
       RecoverDone, Stall, Destroy, DestroyFree, QuickExit, Return, Waited,
       AbortAll, workerVars, commVars, SyncDrains
  <1>12. CASE RecoverReset \/ EncodeImages \/ RunAll \/ ResetReady
    \/ RecoverStart \/ DestroyDrain
    BY <1>12 DEF RecoverReset, EncodeImages, RunAll, ResetReady, RecoverStart,
       DestroyDrain, Post, Start, Waited, commVars, SyncDrains, TypeOK
  <1>13. CASE RecoverGroup
    BY <1>13 DEF RecoverGroup, Post, Start, Waited, SyncDrains, TypeOK
  <1>14. CASE RunCollective
    BY <1>14 DEF RunCollective, Post, Start, SyncDrains, TypeOK
  <1>15. CASE UNCHANGED vars
    BY <1>15 DEF vars, facadeVars, workerVars, commVars, SyncDrains
  <1> QED
    BY StepCases, <1>1, <1>2, <1>3, <1>4, <1>5, <1>6, <1>7, <1>8, <1>9, <1>10,
       <1>11, <1>12, <1>13, <1>14, <1>15

(* The kernel that gives up sets its sticky word beside an ABORT word, *)
(* and only the recovery clears them, all at once. *)
LEMMA StickyStep == IInv /\ [Next]_vars => StickyAborts'
  <1> SUFFICES ASSUME TypeOK, StickyAborts, [Next]_vars PROVE StickyAborts'
    BY DEF IInv
  <1>1. ASSUME NEW r \in Rank, Running(r),
    Arrive(r) \/ Gathered(r) \/ GatherLate(r) \/ GatherAborted(r) \/ GatherTimeout(r)
    \/ Health(r) \/ Enqueue(r) \/ Synced(r) \/ Final(r) \/ Work(r) \/ Throw(r)
          PROVE  StickyAborts'
    BY <1>1 DEF Arrive, Gathered, GatherLate, GatherAborted, GatherTimeout, Health,
       Enqueue, Synced, Final, Work, Throw, Go, Fail, facadeVars, commVars,
       StickyAborts, AbortSeen
  <1>2. ASSUME NEW r \in Rank, Running(r), Catch(r) PROVE StickyAborts'
    BY <1>2 DEF Catch, Go, Poison, facadeVars, StickyAborts, TypeOK, AbortSeen
  <1>3. ASSUME NEW r \in Rank, facade \notin {"freed", "exited"},
               CheckPosted(r) \/ Block(r) \/ ArDone(r) \/ ArLate(r)
          PROVE  StickyAborts'
    BY <1>3 DEF CheckPosted, Block, ArDone, ArLate, Missed, facadeVars, workerVars, commVars,
       StickyAborts, AbortSeen
  <1>4. ASSUME NEW r \in Rank, facade \notin {"freed", "exited"},
               ArAborted(r) \/ ArTimeout(r)
          PROVE  StickyAborts'
    BY <1>4 DEF ArAborted, Missed, ArTimeout, ArGivesUp, facadeVars, workerVars,
       StickyAborts, TypeOK, AbortSeen
  <1>5. ASSUME NEW r \in Rank, Notify(r) PROVE StickyAborts'
    BY <1>5 DEF Notify, facadeVars, commVars, StickyAborts, AbortSeen
  <1>6. CASE ReturnCollective \/ ReturnGuarded \/ ReturnPlain
    \/ RecoverFailed \/ RecoverReset \/ RecoverDone \/ RunCollective
    \/ EncodeImages \/ RunAll \/ ResetReady \/ RecoverStart \/ DestroyDrain
    \/ DestroyFree \/ QuickExit
    BY <1>6 DEF ReturnCollective, ReturnGuarded, ReturnPlain, RecoverFailed,
       RecoverReset, RecoverDone, RunCollective, EncodeImages, RunAll,
       ResetReady, RecoverStart, DestroyDrain, DestroyFree, QuickExit, Return,
       Waited, Post, Start, workerVars, commVars, StickyAborts, AbortSeen
  <1>7. CASE Stall \/ Destroy
    BY <1>7 DEF Stall, Destroy, AbortAll, workerVars, StickyAborts, TypeOK,
       AbortSeen
  <1>8. CASE RecoverGroup
    BY <1>8 DEF RecoverGroup, Post, Start, Waited, StickyAborts, TypeOK,
       AbortSeen
  <1>9. CASE UNCHANGED vars
    BY <1>9 DEF vars, facadeVars, workerVars, commVars, StickyAborts, AbortSeen
  <1> QED
    BY StepCases, <1>1, <1>2, <1>3, <1>4, <1>5, <1>6, <1>7, <1>8, <1>9

(* Calls that succeed end with a clean communicator, the others either *)
(* never touch it or leave a state no collective starts from. *)
LEMMA CleanStep == IInv /\ [Next]_vars => CleanOutside'
  <1> SUFFICES ASSUME TypeOK, CleanOutside, PointsOfKind, KindsOfCall,
    IdleWhenPosting, GroupInStep, StickyAborts, [Next]_vars PROVE CleanOutside'
    BY DEF IInv
  <1>1. ASSUME NEW r \in Rank, Running(r),
    Gathered(r) \/ GatherLate(r) \/ GatherAborted(r) \/ Health(r) \/ Synced(r) \/ Final(r)
    \/ Work(r) \/ Throw(r)
          PROVE  CleanOutside'
    BY <1>1 DEF Gathered, GatherLate, GatherAborted, Health, Synced, Final, Work, Throw,
       Go, Fail, facadeVars, commVars, CleanOutside, Clean, AnyAbort, Rank
  <1>2. ASSUME NEW r \in Rank, Running(r), GatherTimeout(r)
          PROVE  CleanOutside'
    BY <1>2 DEF GatherTimeout, Fail, facadeVars, CleanOutside, TypeOK, Clean,
       AnyAbort, Rank, PointsOfKind, KindsOfCall, IdleWhenPosting, AllIdle
  <1>3. ASSUME NEW r \in Rank, Running(r), Arrive(r) PROVE CleanOutside'
    BY <1>3 DEF Arrive, Go, Fail, facadeVars, CleanOutside, TypeOK, Clean,
       AnyAbort, Rank, PointsOfKind, KindsOfCall, IdleWhenPosting, AllIdle
  <1>4. ASSUME NEW r \in Rank, Running(r), Enqueue(r) PROVE CleanOutside'
    BY <1>4 DEF Enqueue, Go, facadeVars, CleanOutside, TypeOK, Clean,
       AnyAbort, Rank, PointsOfKind, KindsOfCall, IdleWhenPosting, AllIdle
  <1>5. ASSUME NEW r \in Rank, Running(r), Catch(r) PROVE CleanOutside'
    BY <1>5 DEF Catch, Go, Poison, facadeVars, CleanOutside, TypeOK, Clean,
       AnyAbort, Rank, PointsOfKind, KindsOfCall, IdleWhenPosting, AllIdle
  <1>6. ASSUME NEW r \in Rank, facade \notin {"freed", "exited"},
               CheckPosted(r) \/ Block(r)
          PROVE  CleanOutside'
    BY <1>6 DEF CheckPosted, Block, facadeVars, commVars, CleanOutside, Clean,
       AnyAbort, Rank
  <1>7. ASSUME NEW r \in Rank, facade \notin {"freed", "exited"},
               ArAborted(r) \/ ArTimeout(r)
          PROVE  CleanOutside'
    BY <1>7 DEF ArAborted, Missed, ArTimeout, ArGivesUp, facadeVars, workerVars,
       CleanOutside, TypeOK, Clean, AnyAbort, Rank
  <1>8. ASSUME NEW r \in Rank, facade \notin {"freed", "exited"},
               ArDone(r) \/ ArLate(r)
          PROVE  CleanOutside'
    BY <1>8 DEF ArDone, ArLate, Missed, facadeVars, workerVars, CleanOutside, TypeOK, Clean,
       AnyAbort, Rank
  <1>9. ASSUME NEW r \in Rank, Notify(r) PROVE CleanOutside'
    BY <1>9 DEF Notify, facadeVars, commVars, CleanOutside, Clean, AnyAbort,
       Rank
  <1>10. CASE ReturnCollective \/ ReturnGuarded \/ ReturnPlain
    \/ RecoverFailed \/ RecoverDone
    BY <1>10 DEF ReturnCollective, ReturnGuarded, ReturnPlain, RecoverFailed,
       RecoverDone, Return, Waited, commVars, CleanOutside, TypeOK, Clean,
       AnyAbort, Rank, PointsOfKind, KindsOfCall, AllIdle, Failed,
       StickyAborts, GroupInStep, Passed, InGroupCall, Entered, Reduced,
       AbortSeen
  <1>11. CASE RecoverReset \/ EncodeImages \/ RunAll \/ ResetReady
    \/ RecoverStart \/ DestroyDrain
    BY <1>11 DEF RecoverReset, EncodeImages, RunAll, ResetReady, RecoverStart,
       DestroyDrain, Post, Start, Waited, commVars, CleanOutside, TypeOK,
       Clean, AnyAbort, Rank, PointsOfKind, KindsOfCall, AllIdle, Failed,
       StickyAborts, GroupInStep, Passed, InGroupCall, Entered, Reduced,
       AbortSeen
  <1>12. CASE Stall \/ Destroy \/ DestroyFree \/ QuickExit
    BY <1>12 DEF Stall, Destroy, DestroyFree, QuickExit, AbortAll, Waited,
       workerVars, commVars, CleanOutside, TypeOK, Clean, AnyAbort, Rank,
       AllIdle
  <1>13. CASE RecoverGroup
    BY <1>13 DEF RecoverGroup, Post, Start, Waited, CleanOutside, TypeOK,
       Clean, AnyAbort, Rank, AllIdle, Failed
  <1>14. CASE RunCollective
    BY <1>14 DEF RunCollective, Post, Start, CleanOutside, TypeOK, Clean,
       AnyAbort, Rank
  <1>15. CASE UNCHANGED vars
    BY <1>15 DEF vars, facadeVars, workerVars, commVars, CleanOutside, Clean,
       AnyAbort, Rank
  <1> QED
    BY StepCases, <1>1, <1>2, <1>3, <1>4, <1>5, <1>6, <1>7, <1>8, <1>9, <1>10,
       <1>11, <1>12, <1>13, <1>14, <1>15

(* The two ranks advance in step, whatever the order of their steps, and *)
(* the later Final of two sees every abort of the call. *)
LEMMA GroupStep == IInv /\ [Next]_vars => GroupInStep'
  <1> SUFFICES ASSUME TypeOK, GroupInStep, CleanOutside, PointsOfKind,
    KindsOfCall, SyncDrains, IdleWhenPosting, StickyAborts,
    [Next]_vars PROVE GroupInStep'
    BY DEF IInv
  <1>1. ASSUME NEW r \in Rank, Running(r),
    GatherAborted(r) \/ GatherTimeout(r) \/ Throw(r)
          PROVE  GroupInStep'
    BY <1>1 DEF GatherAborted, GatherTimeout, Throw, Fail, facadeVars,
       commVars, GroupInStep, TypeOK, AnyAbort, Rank, Passed, InGroupCall,
       Entered, Reduced, Failed, PointsOfKind, KindsOfCall
  <1>2. ASSUME NEW r \in Rank, Running(r), Gathered(r) \/ GatherLate(r) \/ Work(r)
          PROVE  GroupInStep'
    BY <1>2 DEF Gathered, GatherLate, Work, Go, facadeVars, commVars, GroupInStep, TypeOK,
       AnyAbort, Rank, Passed, InGroupCall, Entered, Reduced, Failed,
       PointsOfKind, KindsOfCall
  <1>3. ASSUME NEW r \in Rank, Running(r), Arrive(r) \/ Health(r) \/ Final(r)
          PROVE  GroupInStep'
    BY <1>3 DEF Arrive, Health, Final, Go, Fail, facadeVars, commVars,
       GroupInStep, TypeOK, AnyAbort, Rank, Passed, InGroupCall, Entered,
       Reduced, Failed, PointsOfKind, KindsOfCall
  <1>4. ASSUME NEW r \in Rank, Running(r), Enqueue(r) PROVE GroupInStep'
    <2>1. CASE sticky[r]
      <3>1. /\ AnyAbort /\ Go(r, "drain")
            /\ UNCHANGED <<facadeVars, arrived, exAborted, abortWord, sticky,
              pushed, dev>>
        BY <1>4, <2>1 DEF Enqueue, StickyAborts, AbortSeen, AnyAbort
      <3> QED BY <1>4, <2>1, <3>1 DEF Enqueue, Go, facadeVars, GroupInStep,
        TypeOK, AnyAbort, Rank, Passed, InGroupCall, Failed, PointsOfKind
    <2>2. CASE ~sticky[r]
      BY <1>4, <2>2 DEF Enqueue, Go, facadeVars, GroupInStep, TypeOK,
         AnyAbort, Rank, Passed, InGroupCall, Entered, Reduced, Failed,
         PointsOfKind, KindsOfCall
    <2> QED BY <2>1, <2>2
  <1>5. ASSUME NEW r \in Rank, Running(r), Synced(r) PROVE GroupInStep'
    <2>1. CASE kind[r] = "collective" /\ win[r] < Windows
      BY <1>5, <2>1 DEF Synced, Go, facadeVars, commVars, GroupInStep, TypeOK,
         AnyAbort, Rank, Passed, InGroupCall, Entered, Reduced, Failed,
         PointsOfKind, KindsOfCall
    <2>2. CASE ~(kind[r] = "collective" /\ win[r] < Windows)
      <3>1. /\ pc[r] = "drain" /\ dev[r] = "idle"
            /\ UNCHANGED <<facadeVars, commVars>>
            /\ Go(r, IF kind[r] = "sync" THEN "idle" ELSE "final")
        BY <1>5, <2>2 DEF Synced
      <3>2. kind[r] = "collective" => win[r] = Windows
        BY <2>2, BoundsAssumption DEF TypeOK
      <3>3. InGroupCall => kind[r] # "sync"
        BY DEF KindsOfCall, InGroupCall
      <3> QED BY <3>1, <3>2, <3>3 DEF Go, facadeVars, commVars, GroupInStep,
        TypeOK, AnyAbort, Rank, Passed, InGroupCall, Failed, Entered, Reduced
    <2> QED BY <2>1, <2>2
  <1>6. ASSUME NEW r \in Rank, Running(r), Catch(r) PROVE GroupInStep'
    BY <1>6 DEF Catch, Go, Poison, facadeVars, GroupInStep, TypeOK, AnyAbort,
       Rank, Passed, InGroupCall, Entered, Reduced, Failed, PointsOfKind,
       KindsOfCall
  <1>7. ASSUME NEW r \in Rank, facade \notin {"freed", "exited"},
               CheckPosted(r) \/ Block(r)
          PROVE  GroupInStep'
    BY <1>7 DEF CheckPosted, Block, facadeVars, commVars, GroupInStep,
       AnyAbort, Rank, Passed, InGroupCall, Entered, Reduced, Failed
  <1>8. ASSUME NEW r \in Rank, facade \notin {"freed", "exited"},
               ArAborted(r) \/ ArTimeout(r)
          PROVE  GroupInStep'
    BY <1>8 DEF ArAborted, Missed, ArTimeout, ArGivesUp, facadeVars, workerVars,
       GroupInStep, TypeOK, AnyAbort, Rank, Passed, InGroupCall, Entered,
       Reduced, Failed
  <1>9. ASSUME NEW r \in Rank, facade \notin {"freed", "exited"},
               ArDone(r) \/ ArLate(r)
          PROVE  GroupInStep'
    BY <1>9 DEF ArDone, ArLate, Missed, facadeVars, workerVars, GroupInStep, TypeOK, AnyAbort,
       Rank, Passed, InGroupCall, Entered, Reduced, Failed
  <1>10. ASSUME NEW r \in Rank, Notify(r) PROVE GroupInStep'
    BY <1>10 DEF Notify, facadeVars, commVars, GroupInStep, AnyAbort, Rank,
       Passed, InGroupCall, Entered, Reduced, Failed
  <1>11. CASE ReturnCollective \/ ReturnGuarded \/ ReturnPlain
    \/ RecoverFailed \/ RecoverDone
    BY <1>11 DEF ReturnCollective, ReturnGuarded, ReturnPlain, RecoverFailed,
       RecoverDone, Return, Waited, commVars, GroupInStep, TypeOK, AnyAbort,
       Rank, Passed, InGroupCall, Entered, Reduced, Failed, AllIdle
  <1>12. CASE RecoverReset \/ EncodeImages \/ RunAll \/ ResetReady
    \/ RecoverStart \/ DestroyDrain
    BY <1>12 DEF RecoverReset, EncodeImages, RunAll, ResetReady, RecoverStart,
       DestroyDrain, Post, Start, Waited, commVars, GroupInStep, TypeOK,
       AnyAbort, Rank, Passed, InGroupCall, Entered, Reduced, Failed, AllIdle
  <1>13. CASE Stall \/ Destroy \/ DestroyFree \/ QuickExit
    BY <1>13 DEF Stall, Destroy, DestroyFree, QuickExit, AbortAll, Waited,
       workerVars, commVars, GroupInStep, TypeOK, AnyAbort, Rank, Passed,
       InGroupCall, Entered, Reduced, Failed, AllIdle
  <1>14. CASE RecoverGroup
    BY <1>14 DEF RecoverGroup, Post, Start, Waited, GroupInStep, TypeOK,
       AnyAbort, Rank, Passed, InGroupCall, Entered, Reduced, Failed,
       KindsOfCall, SyncDrains, AllIdle
  <1>15. CASE RunCollective
    BY <1>15 DEF RunCollective, Post, Start, GroupInStep, TypeOK, Clean,
       AnyAbort, Rank, Passed, InGroupCall, Entered, Reduced, Failed,
       CleanOutside
  <1>16. CASE UNCHANGED vars
    BY <1>16 DEF vars, facadeVars, workerVars, commVars, GroupInStep,
       AnyAbort, Rank, Passed, InGroupCall, Entered, Reduced, Failed
  <1> QED
    BY StepCases, <1>1, <1>2, <1>3, <1>4, <1>5, <1>6, <1>7, <1>8, <1>9, <1>10,
       <1>11, <1>12, <1>13, <1>14, <1>15, <1>16

(* Within a collective call the partial reduction leaves its sticky word. *)
LEMMA PartialStep == IInv /\ [Next]_vars => PartialIsSticky'
  <1> SUFFICES ASSUME TypeOK, PartialIsSticky,
    [Next]_vars PROVE PartialIsSticky'
    BY DEF IInv
  <1>1. ASSUME NEW r \in Rank, Running(r),
    Arrive(r) \/ Gathered(r) \/ GatherLate(r) \/ GatherAborted(r) \/ GatherTimeout(r)
    \/ Health(r) \/ Synced(r) \/ Final(r) \/ Work(r) \/ Throw(r) \/ Catch(r)
          PROVE  PartialIsSticky'
    BY <1>1 DEF Arrive, Gathered, GatherLate, GatherAborted, GatherTimeout, Health,
       Synced, Final, Work, Throw, Catch, Go, Fail, Poison, facadeVars,
       commVars, PartialIsSticky
  <1>2. ASSUME NEW r \in Rank, Running(r), Enqueue(r) PROVE PartialIsSticky'
    BY <1>2 DEF Enqueue, Go, facadeVars, PartialIsSticky, TypeOK
  <1>3. ASSUME NEW r \in Rank, facade \notin {"freed", "exited"},
               CheckPosted(r) \/ Block(r) \/ ArDone(r) \/ ArLate(r)
          PROVE  PartialIsSticky'
    BY <1>3 DEF CheckPosted, Block, ArDone, ArLate, Missed, facadeVars, workerVars, commVars,
       PartialIsSticky
  <1>4. ASSUME NEW r \in Rank, facade \notin {"freed", "exited"},
               ArAborted(r) \/ ArTimeout(r)
          PROVE  PartialIsSticky'
    BY <1>4 DEF ArAborted, Missed, ArTimeout, ArGivesUp, facadeVars, workerVars,
       PartialIsSticky, TypeOK
  <1>5. ASSUME NEW r \in Rank, Notify(r) PROVE PartialIsSticky'
    BY <1>5 DEF Notify, facadeVars, commVars, PartialIsSticky
  <1>6. CASE ReturnCollective \/ ReturnGuarded \/ ReturnPlain
    \/ RecoverFailed \/ RecoverDone
    BY <1>6 DEF ReturnCollective, ReturnGuarded, ReturnPlain, RecoverFailed,
       RecoverDone, Return, Waited, commVars, PartialIsSticky, TypeOK
  <1>7. CASE RecoverReset \/ EncodeImages \/ RunAll \/ ResetReady
    \/ RecoverStart \/ DestroyDrain
    BY <1>7 DEF RecoverReset, EncodeImages, RunAll, ResetReady, RecoverStart,
       DestroyDrain, Post, Start, Waited, commVars, PartialIsSticky, TypeOK
  <1>8. CASE Stall \/ Destroy \/ DestroyFree \/ QuickExit
    BY <1>8 DEF Stall, Destroy, DestroyFree, QuickExit, AbortAll, Waited,
       workerVars, commVars, PartialIsSticky, TypeOK
  <1>9. CASE RecoverGroup
    BY <1>9 DEF RecoverGroup, Post, Start, Waited, PartialIsSticky, TypeOK
  <1>10. CASE RunCollective
    BY <1>10 DEF RunCollective, Post, Start, PartialIsSticky, TypeOK
  <1>11. CASE UNCHANGED vars
    BY <1>11 DEF vars, facadeVars, workerVars, commVars, PartialIsSticky
  <1> QED
    BY StepCases, <1>1, <1>2, <1>3, <1>4, <1>5, <1>6, <1>7, <1>8, <1>9, <1>10,
       <1>11

(* A successful result stays whole until the next collective call. *)
LEMMA SuccessStep == IInv /\ [Next]_vars => SuccessStays'
  <1> SUFFICES ASSUME TypeOK, SuccessStays, PointsOfKind, KindsOfCall,
    PartialIsSticky, GroupInStep, StickyAborts, [Next]_vars PROVE SuccessStays'
    BY DEF IInv
  <1>1. ASSUME NEW r \in Rank, Running(r),
    GatherAborted(r) \/ GatherTimeout(r) \/ Throw(r)
          PROVE  SuccessStays'
    BY <1>1 DEF GatherAborted, GatherTimeout, Throw, Fail, facadeVars,
       commVars, SuccessStays, TypeOK, PointsOfKind
  <1>2. ASSUME NEW r \in Rank, Running(r), Gathered(r) \/ GatherLate(r) \/ Work(r)
          PROVE  SuccessStays'
    BY <1>2 DEF Gathered, GatherLate, Work, Go, facadeVars, commVars, SuccessStays,
       TypeOK, PointsOfKind
  <1>3. ASSUME NEW r \in Rank, Running(r), Arrive(r) \/ Health(r) \/ Final(r)
          PROVE  SuccessStays'
    BY <1>3 DEF Arrive, Health, Final, Go, Fail, facadeVars, commVars,
       SuccessStays, TypeOK, PointsOfKind
  <1>4. ASSUME NEW r \in Rank, Running(r), Enqueue(r) PROVE SuccessStays'
    BY <1>4 DEF Enqueue, Go, facadeVars, SuccessStays, TypeOK, PointsOfKind
  <1>5. ASSUME NEW r \in Rank, Running(r), Synced(r) PROVE SuccessStays'
    BY <1>5 DEF Synced, Go, facadeVars, commVars, SuccessStays, TypeOK,
       PointsOfKind
  <1>6. ASSUME NEW r \in Rank, Running(r), Catch(r) PROVE SuccessStays'
    BY <1>6 DEF Catch, Go, Poison, facadeVars, SuccessStays, TypeOK,
       PointsOfKind
  <1>7. ASSUME NEW r \in Rank, facade \notin {"freed", "exited"},
               CheckPosted(r) \/ Block(r)
          PROVE  SuccessStays'
    BY <1>7 DEF CheckPosted, Block, facadeVars, commVars, SuccessStays
  <1>8. ASSUME NEW r \in Rank, facade \notin {"freed", "exited"},
               ArAborted(r) \/ ArTimeout(r)
          PROVE  SuccessStays'
    BY <1>8 DEF ArAborted, Missed, ArTimeout, ArGivesUp, facadeVars, workerVars,
       SuccessStays, TypeOK
  <1>9. ASSUME NEW r \in Rank, facade \notin {"freed", "exited"},
               ArDone(r) \/ ArLate(r)
          PROVE  SuccessStays'
    BY <1>9 DEF ArDone, ArLate, Missed, facadeVars, workerVars, SuccessStays, TypeOK
  <1>10. ASSUME NEW r \in Rank, Notify(r) PROVE SuccessStays'
    BY <1>10 DEF Notify, facadeVars, commVars, SuccessStays
  <1>11. CASE ReturnGuarded \/ ReturnPlain \/ RecoverFailed \/ RecoverDone
    \/ Destroy \/ DestroyFree \/ QuickExit
    BY <1>11 DEF ReturnGuarded, ReturnPlain, RecoverFailed, RecoverDone,
       Destroy, DestroyFree, QuickExit, Return, Waited, AbortAll, workerVars,
       commVars, SuccessStays, Rank, AllIdle, Failed
  <1>12. CASE ReturnCollective
    BY <1>12 DEF ReturnCollective, Return, Waited, commVars, SuccessStays,
       TypeOK, Rank, KindsOfCall, AllIdle, PartialIsSticky, GroupInStep,
       StickyAborts, AbortSeen, AnyAbort, Failed, Passed, InGroupCall
  <1>13. CASE RecoverReset \/ EncodeImages \/ RunAll \/ ResetReady
    \/ RecoverStart \/ DestroyDrain
    BY <1>13 DEF RecoverReset, EncodeImages, RunAll, ResetReady, RecoverStart,
       DestroyDrain, Post, Start, Waited, commVars, SuccessStays, TypeOK,
       Rank, AllIdle, Failed
  <1>14. CASE Stall
    BY <1>14 DEF Stall, AbortAll, workerVars, SuccessStays, TypeOK, Rank,
       AllIdle
  <1>15. CASE RecoverGroup
    BY <1>15 DEF RecoverGroup, Post, Start, Waited, SuccessStays, TypeOK,
       Rank, AllIdle, Failed
  <1>16. CASE RunCollective
    BY <1>16 DEF RunCollective, Post, Start, SuccessStays, TypeOK, Rank
  <1>17. CASE UNCHANGED vars
    BY <1>17 DEF vars, facadeVars, workerVars, commVars, SuccessStays
  <1> QED
    BY StepCases, <1>1, <1>2, <1>3, <1>4, <1>5, <1>6, <1>7, <1>8, <1>9, <1>10,
       <1>11, <1>12, <1>13, <1>14, <1>15, <1>16, <1>17

-----------------------------------------------------------------------------
(* What the facade's constructor leaves satisfies the invariant.           *)
LEMMA InitIInv == Init => IInv
  <1> SUFFICES ASSUME Init PROVE IInv
    OBVIOUS
  <1>1. TypeOK
    <2>1. 1 \in 1 .. Windows
      BY BoundsAssumption
    <2> QED BY <2>1 DEF Init, TypeOK, Calls, Kinds, Points
  <1>2. NoLostWakeUp /\ PointsOfKind /\ KindsOfCall /\ IdleWhenPosting
    BY DEF Init, NoLostWakeUp, PointsOfKind, KindsOfCall, IdleWhenPosting, AllIdle
  <1>3. SyncDrains /\ StickyAborts /\ PartialIsSticky /\ SuccessStays
    BY DEF Init, SyncDrains, StickyAborts, PartialIsSticky, SuccessStays
  <1>4. CleanOutside /\ GroupInStep
    BY DEF Init, CleanOutside, Clean, AnyAbort, GroupInStep, InGroupCall, Rank
  <1> QED BY <1>1, <1>2, <1>3, <1>4 DEF IInv

(* Every reachable state of the facade and its workers satisfies IInv.     *)
THEOREM InvHolds == Spec => []IInv
  <1>1. IInv /\ [Next]_vars => IInv'
    BY TypeStep, WakeStep, PointsStep, KindsStep, IdleStep, DrainStep, StickyStep,
       CleanStep, GroupStep, PartialStep, SuccessStep DEF IInv
  <1> QED BY InitIInv, <1>1, PTL DEF Spec

(* Every variable keeps its type. *)
THEOREM TypeOKHolds == Spec => []TypeOK
  <1>1. IInv => TypeOK
    BY DEF IInv
  <1> QED BY InvHolds, <1>1, PTL

(* A command posted to a worker that spins, is about to block or sleeps is *)
(* seen by it (RankWorker::Post against WaitPosted).                       *)
THEOREM NoLostWakeUpHolds == Spec => []NoLostWakeUp
  <1>1. IInv => NoLostWakeUp
    BY DEF IInv
  <1> QED BY InvHolds, <1>1, PTL

(* The next collective of a kReady group starts from a clean communicator, *)
(* and the facade posts to idle workers only, whatever failed before.      *)
THEOREM ReadyIsCleanHolds == Spec => []ReadyIsClean
  <1>1. IInv => ReadyIsClean
    BY DEF IInv, ReadyIsClean, IdleWhenPosting, CleanOutside, Clean
  <1> QED BY InvHolds, <1>1, PTL

(* A collective call that returned normally left no partial reduction.     *)
THEOREM SuccessIsWholeHolds == Spec => []SuccessIsWhole
  <1>1. IInv => SuccessIsWhole
    BY DEF IInv, SuccessIsWhole, SuccessStays
  <1> QED BY InvHolds, <1>1, PTL

(* ~TpModel frees nothing while a worker or a kernel can still use it.     *)
THEOREM TeardownIsQuietHolds == Spec => []TeardownIsQuiet
  <1>1. IInv => TeardownIsQuiet
    BY DEF IInv, TeardownIsQuiet, IdleWhenPosting, AllIdle, KindsOfCall, SyncDrains
  <1> QED BY InvHolds, <1>1, PTL
=============================================================================
