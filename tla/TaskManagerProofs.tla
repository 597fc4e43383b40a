-------------------------- MODULE TaskManagerProofs --------------------------
(***************************************************************************)
(* Theorems about the task manager, for every set of tasks and chains,     *)
(* every length of the day and every number of uploads.  TypeInv, the      *)
(* inductive invariant under all of them, is TypeOK with the facts about   *)
(* the executor its steps rely on (ExecInv); each safety invariant of the  *)
(* runs is inductive relative to it.  The part about what an operator sees *)
(* (TaskHistory) comes next: ExecMoves and OtherMoves say what each step   *)
(* of a thread does to the slot, the rest is an argument about TaskSlot.   *)
(* The last parts say that Terminate and Stop get through and that an      *)
(* accepted upload is run: a rank each that every step of the executor     *)
(* lowers, but for the polling of a navigation, and no other thread raises.*)
(* Without scheduled tasks their exceptions go away, as the end shows.     *)
(***************************************************************************)
EXTENDS TaskHistory, SequenceTheorems, TLAPS

\* Where ExecuteAction is under way.
InAction == {"dispatch", "chainTop", "call", "delay", "delayWait", "delayEnd",
             "nav", "navWait", "navQuery", "navEnd"}

ExecInv ==
    /\ mainPc = "boot" => execPc = "unborn"
    /\ cv # "awake" => execPc \in {"wait", "actWait", "delayWait", "navWait"}
    /\ execPc \in {"actWait", "announce"} => actionIndex <= Len(taskCopy.actions)
    /\ execPc \in InAction => pending # <<>>

TypeInv == TypeOK /\ ExecInv

-----------------------------------------------------------------------------
\* A mark on the schedule table keeps the task a task.
LEMMA DayNat == ASSUME NEW t \in Nat PROVE Day(t) \in Nat
  BY ClockAssumption DEF Day

LEMMA MarkRunType ==
  ASSUME currentTask \in TaskRecords, now \in Nat, schedIndex \in Nat \ {0},
         MarkRun
  PROVE  currentTask' \in TaskRecords
  <1>1. Day(now) \in Nat
    BY DayNat
  <1>2. CASE schedIndex \notin DOMAIN currentTask.schedules
    BY <1>2 DEF MarkRun
  <1>3. CASE schedIndex \in DOMAIN currentTask.schedules
    <2> DEFINE old == currentTask.schedules
               new == [old EXCEPT ![schedIndex].lastRun = Day(now)]
    <2>1. old \in Seq(Schedules)
      BY DEF TaskRecords
    <2>2. old[schedIndex] \in Schedules
      BY <2>1, <1>3
    <2>3. [old[schedIndex] EXCEPT !.lastRun = Day(now)] \in Schedules
      BY <2>2, <1>1 DEF Schedules
    <2>4. new = [old EXCEPT ![schedIndex] =
                    [old[schedIndex] EXCEPT !.lastRun = Day(now)]]
      OBVIOUS
    <2>5. new \in Seq(Schedules)
      <3> HIDE DEF old
      <3>1. schedIndex \in 1..Len(old)
        BY <1>3, <2>1 DEF old
      <3> QED
        BY <2>1, <2>3, <2>4, <3>1, ExceptSeq
    <2>6. currentTask' = [currentTask EXCEPT !.schedules = new]
      BY <1>3 DEF MarkRun
    <2> QED
      BY <2>5, <2>6 DEF TaskRecords
  <1> QED
    BY <1>2, <1>3

\* What is left of an action is a list of actions, and so are the states of
\* the executor that Proceed leads to.
LEMMA ProceedType ==
  ASSUME NEW rest \in Seq(ActionTypes), actionIndex \in Nat \ {0}, Proceed(rest)
  PROVE  /\ pending' \in Seq(ActionTypes)
         /\ actionIndex' \in Nat \ {0}
         /\ execPc' \in {"actTop", "chainTop"}
         /\ execPc' = "chainTop" => pending' # <<>>
  BY DEF Proceed

LEMMA UpdateStatusType ==
  ASSUME NEW s \in States, status \in Statuses, UpdateStatus(s)
  PROVE  status' \in Statuses
  BY DEF UpdateStatus, Statuses

LEMMA SendGoalType ==
  ASSUME NEW who \in {"task", "operator"}, SendGoal(who)
  PROVE  goal' \in Goals
  BY DEF SendGoal, Goals, GoalStates

LEMMA CancelNavType ==
  ASSUME goal \in Goals, CancelNav
  PROVE  goal' \in Goals
  BY DEF CancelNav, Live, Goals, GoalStates

LEMMA TailType ==
  ASSUME pending \in Seq(ActionTypes), pending # <<>>
  PROVE  Head(pending) \in ActionTypes /\ Tail(pending) \in Seq(ActionTypes)
  OBVIOUS

-----------------------------------------------------------------------------
(* The type invariant, one step of the proof per action.                   *)

\* The task of an executor without one.
LEMMA NoTaskType == NoTask \in TaskRecords /\ <<>> \in Seq(ActionTypes)
  BY EmptySeq DEF NoTask, TaskRecords

LEMMA TypeInit == Init => TypeInv
  <1> SUFFICES ASSUME Init PROVE TypeInv
    OBVIOUS
  <1>1. NoTask \in TaskRecords
    BY NoTaskType
  <1>2. status \in Statuses /\ goal \in Goals
    BY DEF Init, Statuses, Goals, States, GoalStates
  <1>3. execPc \in ExecPcs /\ srvPc \in SrvPcs /\ mainPc \in MainPcs
    BY DEF Init, ExecPcs, SrvPcs, MainPcs
  <1>4. <<>> \in Seq(ActionTypes)
    BY NoTaskType
  <1>5. TypeOK
    <2>1. /\ currentTask \in TaskRecords /\ taskCopy \in TaskRecords
          /\ pending \in Seq(ActionTypes)
      BY <1>1, <1>4 DEF Init
    <2>2. /\ isRunning \in BOOLEAN /\ isPaused \in BOOLEAN
          /\ shouldCancel \in BOOLEAN /\ hasNewTask \in BOOLEAN
          /\ cv \in {"awake", "blocking", "asleep"}
      BY DEF Init
    <2>3. /\ actionIndex \in Nat \ {0} /\ schedIndex \in Nat \ {0}
          /\ now \in Nat /\ clock \in Nat
      BY DEF Init
    <2> QED
      BY <1>2, <1>3, <2>1, <2>2, <2>3 DEF TypeOK
  <1> QED
    BY <1>5 DEF Init, TypeInv, ExecInv, InAction

LEMMA ExecOuterType ==
  ASSUME TypeInv,
         Outer \/ WaitForTask \/ FallAsleep \/ DoTop \/ CopyTask \/ LoopCond
  PROVE  TypeInv'
  <1> USE DEF TypeInv, TypeOK, ExecInv, InAction, ExecPcs, flags, shared,
              running, sched, world, threads
  <1>1. CASE Outer
    <2>1. taskCopy' \in TaskRecords /\ pending' \in Seq(ActionTypes)
      BY <1>1, NoTaskType DEF Outer
    <2>2. execPc' \in {"wait", "done"}
      BY <1>1 DEF Outer
    <2> QED
      BY <1>1, <2>1, <2>2 DEF Outer
  <1>2. CASE WaitForTask
    BY <1>2 DEF WaitForTask
  <1>3. CASE FallAsleep
    BY <1>3 DEF FallAsleep
  <1>4. CASE DoTop
    BY <1>4, UpdateStatusType DEF DoTop, States
  <1>5. CASE CopyTask
    BY <1>5 DEF CopyTask
  <1>6. CASE LoopCond
    BY <1>6 DEF LoopCond
  <1> QED
    BY <1>1, <1>2, <1>3, <1>4, <1>5, <1>6

LEMMA ExecScheduledType ==
  ASSUME TypeInv,
         SchedTop \/ SchedFor \/ SchedRun \/ SchedNext \/ SchedNap
  PROVE  TypeInv'
  <1> USE DEF TypeInv, TypeOK, ExecInv, InAction, ExecPcs, flags, shared,
              running, sched, world, threads
  <1>1. CASE SchedTop
    BY <1>1 DEF SchedTop
  <1>2. CASE SchedFor
    <2>1. /\ UNCHANGED <<flags, status, cv, running, now, world, threads>>
          /\ \/ execPc' = "schedNap" /\ UNCHANGED <<currentTask, schedIndex>>
             \/ MarkRun /\ execPc' = "schedRun" /\ UNCHANGED schedIndex
             \/ /\ schedIndex' = schedIndex + 1
                /\ UNCHANGED <<currentTask, execPc>>
      BY <1>2 DEF SchedFor
    <2>2. currentTask' \in TaskRecords
      BY <2>1, MarkRunType
    <2> QED
      BY <1>2, <2>1, <2>2 DEF SchedFor
  <1>3. CASE SchedRun
    BY <1>3, UpdateStatusType DEF SchedRun, States
  <1>4. CASE SchedNext
    BY <1>4, UpdateStatusType DEF SchedNext, States
  <1>5. CASE SchedNap
    BY <1>5 DEF SchedNap
  <1> QED
    BY <1>1, <1>2, <1>3, <1>4, <1>5

LEMMA ExecActionsType ==
  ASSUME TypeInv,
         ActTop \/ ActWait \/ Announce \/ Dispatch \/ ChainTop \/ Fail
           \/ CallSucceeds \/ CallFails
  PROVE  TypeInv'
  <1> USE DEF TypeInv, TypeOK, ExecInv, InAction, ExecPcs, flags, shared,
              running, sched, world, threads
  <1>1. CASE ActTop
    BY <1>1, UpdateStatusType DEF ActTop, States
  <1>2. CASE ActWait
    BY <1>2, UpdateStatusType DEF ActWait, States
  <1>3. CASE Announce
    <2>1. taskCopy.actions \in Seq(ActionTypes)
      BY DEF TaskRecords
    <2>2. taskCopy.actions[actionIndex] \in ActionTypes
      BY <2>1, <1>3, ElementOfSeq DEF Announce
    <2>3. pending' \in Seq(ActionTypes) /\ pending' # <<>>
      BY <2>2, <1>3 DEF Announce
    <2>4. status' \in Statuses
      <3>1. Len(taskCopy.actions) \in Nat /\ actionIndex - 1 \in Nat
        BY <2>1, LenProperties
      <3>2. status' = [status EXCEPT !.index = actionIndex - 1,
                                     !.total = Len(taskCopy.actions)]
        BY <1>3 DEF Announce
      <3> QED
        BY <3>1, <3>2 DEF Statuses
    <2> QED
      BY <2>3, <2>4, <1>3 DEF Announce, StatusMutexFree
  <1>4. CASE Dispatch
    <2>1. execPc' \in {"delay", "nav", "fail", "call"}
      BY <1>4 DEF Dispatch
    <2>2. goal' = goal \/ SendGoal("task")
      BY <1>4 DEF Dispatch
    <2>3. goal' \in Goals
      BY <2>2, SendGoalType
    <2> QED
      BY <2>1, <2>3, <1>4 DEF Dispatch
  <1>5. CASE ChainTop
    BY <1>5 DEF ChainTop
  <1>6. CASE Fail
    BY <1>6, UpdateStatusType DEF Fail, States
  <1>7. CASE CallSucceeds
    <2>1. PICK rest \in Seq(ActionTypes) : Proceed(rest)
      BY <1>7, TailType, ChainsAssumption, ConcatProperties DEF CallSucceeds
    <2> QED
      BY <1>7, <2>1, ProceedType DEF CallSucceeds
  <1>8. CASE CallFails
    BY <1>8 DEF CallFails
  <1> QED
    BY <1>1, <1>2, <1>3, <1>4, <1>5, <1>6, <1>7, <1>8

LEMMA ExecWaitingType ==
  ASSUME TypeInv,
         Delay \/ DelayWait \/ DelayEnd \/ Nav \/ NavWait \/ NavTimeout
           \/ NavQueryFails \/ NavQuery \/ NavEnd
  PROVE  TypeInv'
  <1> USE DEF TypeInv, TypeOK, ExecInv, InAction, ExecPcs, flags, shared,
              running, sched, world, threads
  <1>1. CASE Delay
    BY <1>1 DEF Delay
  <1>2. CASE DelayWait
    BY <1>2 DEF DelayWait, WaitForResume
  <1>3. CASE DelayEnd
    BY <1>3, TailType, ProceedType DEF DelayEnd
  <1>4. CASE Nav
    BY <1>4 DEF Nav
  <1>5. CASE NavWait
    BY <1>5 DEF NavWait, WaitForResume
  <1>6. CASE NavTimeout
    BY <1>6, CancelNavType DEF NavTimeout
  <1>7. CASE NavQueryFails
    BY <1>7 DEF NavQueryFails
  <1>8. CASE NavQuery
    BY <1>8, TailType, ProceedType DEF NavQuery
  <1>9. CASE NavEnd
    BY <1>9, CancelNavType DEF NavEnd
  <1> QED
    BY <1>1, <1>2, <1>3, <1>4, <1>5, <1>6, <1>7, <1>8, <1>9

LEMMA SrvType ==
  ASSUME TypeInv, SrvRequest \/ SrvContinue
  PROVE  TypeInv'
  <1> USE DEF TypeInv, TypeOK, ExecInv, InAction, SrvPcs, flags, shared,
              running, sched, world, threads
  <1>1. CASE \E t \in Tasks : Upload(t)
    BY <1>1, TasksAssumption DEF Upload
  <1>2. CASE Terminate
    BY <1>2 DEF Terminate, TerminateFlags
  <1>3. CASE Pause \/ Resume
    BY <1>3 DEF Pause, Resume
  <1>4. CASE OperatorGoal
    BY <1>4, SendGoalType DEF OperatorGoal
  <1>5. CASE OperatorCancelNav \/ TerminateNav
    BY <1>5, CancelNavType DEF OperatorCancelNav, TerminateNav
  <1>6. CASE SrvLoop \/ SrvTimeout
    BY <1>6 DEF SrvLoop, SrvTimeout
  <1>7. CASE UploadNotify \/ TerminateNotify
    BY <1>7 DEF UploadNotify, TerminateNotify, NotifyAll
  <1> QED
    BY <1>1, <1>2, <1>3, <1>4, <1>5, <1>6, <1>7 DEF SrvRequest, SrvContinue

LEMMA MainType ==
  ASSUME TypeInv, MainContinue \/ StopClient
  PROVE  TypeInv'
  <1> USE DEF TypeInv, TypeOK, ExecInv, MainPcs, flags, shared, running, sched,
              world, threads
  <1>1. CASE StartTaskManager
    BY <1>1 DEF StartTaskManager, ExecPcs, InAction
  <1>2. CASE StopClient \/ StopRunning \/ StopJoin
    BY <1>2 DEF StopClient, StopRunning, StopJoin
  <1>3. CASE StopFlags
    BY <1>3 DEF StopFlags, TerminateFlags
  <1>4. CASE StopNotify
    BY <1>4 DEF StopNotify, NotifyAll
  <1>5. CASE StopNav
    BY <1>5, CancelNavType DEF StopNav
  <1> QED
    BY <1>1, <1>2, <1>3, <1>4, <1>5 DEF MainContinue

LEMMA WorldType ==
  ASSUME TypeInv, World
  PROVE  TypeInv'
  <1> USE DEF TypeInv, TypeOK, ExecInv, InAction, flags, shared, running, sched,
              world, threads
  <1>1. CASE Tick
    BY <1>1 DEF Tick
  <1>2. CASE GoalStep
    BY <1>2 DEF GoalStep, Goals, GoalStates
  <1>3. CASE SpuriousWakeup
    BY <1>3 DEF SpuriousWakeup
  <1> QED
    BY <1>1, <1>2, <1>3 DEF World

LEMMA TypeNext == TypeInv /\ [Next]_vars => TypeInv'
  <1> SUFFICES ASSUME TypeInv, [Next]_vars PROVE TypeInv'
    OBVIOUS
  <1>1. CASE ExecStep
    BY <1>1, ExecOuterType, ExecScheduledType, ExecActionsType,
       ExecWaitingType DEF ExecStep
  <1>2. CASE SrvRequest \/ SrvContinue
    BY <1>2, SrvType
  <1>3. CASE MainContinue \/ StopClient
    BY <1>3, MainType
  <1>4. CASE World
    BY <1>4, WorldType
  <1>5. CASE UNCHANGED vars
    BY <1>5 DEF vars, TypeInv, TypeOK, ExecInv, InAction, flags, shared,
                running, sched, world, threads
  <1> QED
    BY <1>1, <1>2, <1>3, <1>4, <1>5 DEF Next

\* Every variable of the task manager keeps its type, for any tasks, chains
\* and day length; the executor's locals are consistent where it uses them.
THEOREM TypeCorrect == Spec => []TypeOK
  <1>1. Spec => []TypeInv
    BY TypeInit, TypeNext, PTL DEF Spec
  <1> QED
    BY <1>1, PTL DEF TypeInv

-----------------------------------------------------------------------------
(* Who can go on.  What it takes for a thread to have a step, in terms of  *)
(* its program counter and what the step reads.                            *)

\* now_tm is never ahead of the clock, so the comparison with a schedule has
\* an instant to read.
ClockInv == now <= clock

LEMMA ClockInvNext == TypeInv /\ ClockInv /\ [Next]_vars => ClockInv'
  <1> SUFFICES ASSUME TypeInv, ClockInv, [Next]_vars PROVE ClockInv'
    OBVIOUS
  <1> USE DEF TypeInv, TypeOK, ClockInv, sched, world
  <1>1. CASE ExecStep
    BY <1>1
    DEF ExecStep, Outer, WaitForTask, FallAsleep, DoTop, CopyTask, LoopCond,
        SchedTop, SchedFor, SchedRun, SchedNext, SchedNap, ActTop, ActWait,
        Announce, Dispatch, ChainTop, Fail, CallSucceeds, CallFails, Delay,
        DelayWait, DelayEnd, WaitForResume, Nav, NavWait, NavTimeout,
        NavQueryFails, NavQuery, NavEnd
  <1>2. CASE SrvRequest \/ SrvContinue
    BY <1>2
    DEF SrvRequest, SrvContinue, Upload, Terminate, Pause, Resume, OperatorGoal,
        OperatorCancelNav, SrvLoop, SrvTimeout, UploadNotify, TerminateNotify,
        TerminateNav
  <1>3. CASE MainContinue \/ StopClient
    BY <1>3
    DEF MainContinue, StopClient, StartTaskManager, StopRunning, StopFlags,
        StopNotify, StopNav, StopJoin
  <1>4. CASE World
    BY <1>4 DEF World, Tick, GoalStep, SpuriousWakeup
  <1>5. CASE UNCHANGED vars
    BY <1>5 DEF vars
  <1> QED
    BY <1>1, <1>2, <1>3, <1>4, <1>5 DEF Next

LEMMA ClockInvariance == Spec => [](TypeInv /\ ClockInv)
  <1>1. Init => TypeInv /\ ClockInv
    BY TypeInit DEF Init, ClockInv
  <1> QED
    BY <1>1, TypeNext, ClockInvNext, PTL DEF Spec

ExecGuard ==
    /\ execPc \in ExecPcs \ {"unborn", "done"}
    /\ cv # "asleep" /\ StatusMutexFree
    /\ execPc = "schedFor" => InstantsRead # {}
    /\ execPc = "announce" => actionIndex \in DOMAIN taskCopy.actions
    /\ execPc \in InAction => pending # <<>>

SrvGuard == srvPc \in SrvPcs \ {"relock", "exited"}

MainGuard == \/ mainPc \in MainPcs \ {"run", "stopped", "join"}
             \/ mainPc = "join" /\ execPc = "done"

\* A thread whose guard holds has a step to take: this is all the proofs assume
\* of ENABLED.  It is true of every state, reachable or not, as each action
\* whose guard it is gives every primed variable its value; only the prover
\* does not know what ENABLED means.
GuardsEnable ==
    TypeOK =>
        /\ ExecGuard => ExecCanStep
        /\ SrvGuard => SrvCanStep
        /\ MainGuard => MainCanStep
        /\ execPc = "navQuery" => NavCanLeave

LEMMA GuardsHold ==
  ASSUME TypeInv, ClockInv
  PROVE  /\ execPc \notin {"unborn", "done"} /\ cv # "asleep" /\ StatusMutexFree
              => ExecGuard
         /\ srvPc \notin {"relock", "exited"} => SrvGuard
         /\ mainPc \notin {"run", "stopped"} /\ (mainPc = "join" => execPc = "done")
              => MainGuard
  <1> USE DEF TypeInv, TypeOK, ExecInv, ClockInv
  <1>1. InstantsRead # {}
    BY DEF InstantsRead
  <1>2. execPc = "announce" => actionIndex \in DOMAIN taskCopy.actions
    <2>1. taskCopy.actions \in Seq(ActionTypes)
      BY DEF TaskRecords
    <2> QED
      BY <2>1
  <1> QED
    BY <1>1, <1>2 DEF ExecGuard, SrvGuard, MainGuard

\* No thread of the task manager is stuck but where it waits for another: see
\* NoThreadStuck.
THEOREM ThreadsGoOn == Spec /\ []GuardsEnable => []NoThreadStuck
  <1>1. TypeInv /\ ClockInv /\ GuardsEnable => NoThreadStuck
    BY GuardsHold DEF TypeInv, GuardsEnable, NoThreadStuck
  <1> QED
    BY <1>1, ClockInvariance, PTL

-----------------------------------------------------------------------------
(* An accepted upload is never slept on.  The heart of the argument: the   *)
(* executor enters the wait awake (ExecInv), finds its predicate false and *)
(* queues itself under task_mutex_, and ReceiveTask needs that mutex.      *)

LEMMA NoLostUploadExec ==
  ASSUME TypeInv, NoLostUpload, ExecStep
  PROVE  NoLostUpload'
  <1> USE DEF NoLostUpload, ExecInv, flags, shared, running, sched, world,
              threads
  <1>1. ExecInv
    BY DEF TypeInv
  <1>2. CASE Outer
    BY <1>1, <1>2 DEF Outer
  <1>3. CASE WaitForTask
    BY <1>3 DEF WaitForTask
  <1>4. CASE FallAsleep
    BY <1>4 DEF FallAsleep
  <1>5. CASE execPc # "wait" /\ execPc' # "wait"
    BY <1>5
  <1>6. Outer \/ WaitForTask \/ FallAsleep
          \/ (execPc # "wait" /\ execPc' # "wait")
    <2>1. CASE DoTop \/ CopyTask \/ LoopCond \/ SchedTop
      BY <2>1 DEF DoTop, CopyTask, LoopCond, SchedTop
    <2>2. CASE SchedFor \/ SchedRun \/ SchedNext \/ SchedNap
      BY <2>2 DEF SchedFor, SchedRun, SchedNext, SchedNap
    <2>3. CASE ActTop \/ ActWait \/ Announce \/ ChainTop \/ Fail
      BY <2>3 DEF ActTop, ActWait, Announce, ChainTop, Fail
    <2>4. CASE Dispatch
      BY <2>4 DEF Dispatch
    <2>5. CASE CallSucceeds \/ CallFails \/ DelayEnd \/ NavQuery
      BY <2>5 DEF CallSucceeds, CallFails, DelayEnd, NavQuery, Proceed
    <2>6. CASE Delay \/ DelayWait \/ Nav \/ NavWait
      BY <2>6 DEF Delay, DelayWait, Nav, NavWait, WaitForResume
    <2>7. CASE NavTimeout \/ NavQueryFails \/ NavEnd
      BY <2>7 DEF NavTimeout, NavQueryFails, NavEnd
    <2> QED
      BY <2>1, <2>2, <2>3, <2>4, <2>5, <2>6, <2>7 DEF ExecStep
  <1> QED
    BY <1>2, <1>3, <1>4, <1>5, <1>6

LEMMA NoLostUploadOthers ==
  ASSUME TypeInv, NoLostUpload,
         SrvRequest \/ SrvContinue \/ MainContinue \/ StopClient \/ World
  PROVE  NoLostUpload'
  <1> USE DEF NoLostUpload, flags, shared, running, sched, world, threads
  <1>1. CASE \E t \in Tasks : Upload(t)
    BY <1>1 DEF Upload, TaskMutexHeld
  <1>2. CASE UploadNotify \/ TerminateNotify
    BY <1>2 DEF UploadNotify, TerminateNotify, NotifyAll
  <1>3. CASE Terminate \/ Pause \/ Resume \/ OperatorGoal \/ OperatorCancelNav
    BY <1>3 DEF Terminate, Pause, Resume, OperatorGoal, OperatorCancelNav
  <1>4. CASE SrvLoop \/ SrvTimeout \/ TerminateNav
    BY <1>4 DEF SrvLoop, SrvTimeout, TerminateNav
  <1>5. CASE StartTaskManager
    BY <1>5 DEF StartTaskManager
  <1>6. CASE StopClient \/ StopRunning \/ StopFlags \/ StopNav \/ StopJoin
    BY <1>6 DEF StopClient, StopRunning, StopFlags, StopNav, StopJoin
  <1>7. CASE StopNotify
    BY <1>7 DEF StopNotify, NotifyAll
  <1>8. CASE World
    BY <1>8 DEF World, Tick, GoalStep, SpuriousWakeup
  <1> QED
    BY <1>1, <1>2, <1>3, <1>4, <1>5, <1>6, <1>7, <1>8
    DEF SrvRequest, SrvContinue, MainContinue

LEMMA NoLostUploadNext ==
  TypeInv /\ NoLostUpload /\ [Next]_vars => NoLostUpload'
  <1> SUFFICES ASSUME TypeInv, NoLostUpload, [Next]_vars PROVE NoLostUpload'
    OBVIOUS
  <1>1. CASE ExecStep
    BY <1>1, NoLostUploadExec
  <1>2. CASE SrvRequest \/ SrvContinue \/ MainContinue \/ StopClient \/ World
    BY <1>2, NoLostUploadOthers
  <1>3. CASE UNCHANGED vars
    BY <1>3 DEF vars, NoLostUpload, flags, threads
  <1> QED
    BY <1>1, <1>2, <1>3 DEF Next

\* The executor sleeps on an accepted upload only while the notification that
\* wakes it is on its way, for any tasks and any requests.
THEOREM UploadNeverLost == Spec => []NoLostUpload
  <1>1. Init => NoLostUpload
    BY DEF Init, NoLostUpload
  <1>2. Spec => []TypeInv
    BY TypeInit, TypeNext, PTL DEF Spec
  <1> QED
    BY <1>1, <1>2, NoLostUploadNext, PTL DEF Spec

-----------------------------------------------------------------------------
(* Terminate stops the navigation.                                         *)

\* A goal a task sent that is neither over nor cancelled.
Driving == goal.owner = "task" /\ Live(goal) /\ ~goal.cancel

LEMMA CancelNavEnds == ASSUME goal \in Goals, CancelNav PROVE ~Driving'
  <1>1. goal' = [goal EXCEPT !.cancel = goal.cancel \/ Live(goal)]
    BY DEF CancelNav
  <1>2. goal'.st = goal.st /\ goal'.cancel = (goal.cancel \/ Live(goal))
    BY <1>1 DEF Goals
  <1> QED
    BY <1>2 DEF Driving, Live

LEMMA DrivingExec ==
  ASSUME TypeInv, TerminateStopsNavigation, ExecStep
  PROVE  TerminateStopsNavigation'
  <1>1. goal \in Goals
    BY DEF TypeInv, TypeOK
  <1>2. UNCHANGED <<shouldCancel, threads>>
    <2>1. CASE Outer \/ WaitForTask \/ FallAsleep \/ DoTop \/ CopyTask \/ LoopCond
      BY <2>1 DEF Outer, WaitForTask, FallAsleep, DoTop, CopyTask, LoopCond, flags
    <2>2. CASE SchedTop \/ SchedFor \/ SchedRun \/ SchedNext \/ SchedNap
      BY <2>2 DEF SchedTop, SchedFor, SchedRun, SchedNext, SchedNap, flags
    <2>3. CASE ActTop \/ ActWait \/ Announce \/ Dispatch \/ ChainTop \/ Fail
      BY <2>3 DEF ActTop, ActWait, Announce, Dispatch, ChainTop, Fail, flags
    <2>4. CASE CallSucceeds \/ CallFails \/ Delay \/ DelayWait \/ DelayEnd
      BY <2>4 DEF CallSucceeds, CallFails, Delay, DelayWait, WaitForResume,
                  DelayEnd, flags
    <2>5. CASE Nav \/ NavWait \/ NavTimeout \/ NavQueryFails \/ NavQuery \/ NavEnd
      BY <2>5 DEF Nav, NavWait, WaitForResume, NavTimeout, NavQueryFails,
                  NavQuery, NavEnd, flags
    <2> QED
      BY <2>1, <2>2, <2>3, <2>4, <2>5 DEF ExecStep
  <1> SUFFICES ASSUME shouldCancel, Driving', ~CancelToCome
               PROVE  execPc' \in {"nav", "navWait", "navEnd"}
    BY <1>2 DEF TerminateStopsNavigation, Driving, CancelToCome, Live, threads
  <1>3. CASE goal' = goal
    <2>1. execPc \in {"nav", "navWait", "navEnd"}
      BY <1>3 DEF TerminateStopsNavigation, Driving, Live
    <2>2. CASE Nav
      BY <2>2 DEF Nav, Cancelled
    <2>3. CASE NavWait
      BY <2>3 DEF NavWait, WaitForResume, Cancelled
    <2>4. CASE NavEnd
      BY <2>4, <1>1, CancelNavEnds DEF NavEnd
    <2>5. CASE FallAsleep
      BY <2>1, <2>5 DEF FallAsleep
    <2>6. Nav \/ NavWait \/ NavEnd \/ FallAsleep
      BY <2>1 DEF ExecStep, Outer, WaitForTask, DoTop, CopyTask, LoopCond,
         SchedTop, SchedFor, SchedRun, SchedNext, SchedNap, ActTop, ActWait,
         Announce, Dispatch, ChainTop, Fail, CallSucceeds, CallFails, Delay,
         DelayWait, WaitForResume, DelayEnd, NavTimeout, NavQueryFails, NavQuery
    <2> QED
      BY <2>2, <2>3, <2>4, <2>5, <2>6
  <1>4. CASE goal' # goal
    <2>1. CASE Dispatch
      BY <1>4, <2>1 DEF Dispatch
    <2>2. CASE NavTimeout \/ NavEnd
      BY <1>1, <1>4, <2>2, CancelNavEnds DEF NavTimeout, NavEnd
    <2>3. Dispatch \/ NavTimeout \/ NavEnd
      <3>1. CASE Outer \/ WaitForTask \/ FallAsleep \/ DoTop \/ CopyTask
                   \/ LoopCond
        BY <3>1, <1>4 DEF Outer, WaitForTask, FallAsleep, DoTop, CopyTask,
                          LoopCond, world
      <3>2. CASE SchedTop \/ SchedFor \/ SchedRun \/ SchedNext \/ SchedNap
        BY <3>2, <1>4 DEF SchedTop, SchedFor, SchedRun, SchedNext, SchedNap,
                          world
      <3>3. CASE ActTop \/ ActWait \/ Announce \/ ChainTop \/ Fail
        BY <3>3, <1>4 DEF ActTop, ActWait, Announce, ChainTop, Fail, world
      <3>4. CASE CallSucceeds \/ CallFails \/ Delay \/ DelayWait \/ DelayEnd
        BY <3>4, <1>4 DEF CallSucceeds, CallFails, Delay, DelayWait,
                          WaitForResume, DelayEnd, world
      <3>5. CASE Nav \/ NavWait \/ NavQueryFails \/ NavQuery
        BY <3>5, <1>4 DEF Nav, NavWait, WaitForResume, NavQueryFails, NavQuery,
                          world
      <3> QED
        BY <3>1, <3>2, <3>3, <3>4, <3>5 DEF ExecStep
    <2> QED
      BY <2>1, <2>2, <2>3
  <1> QED
    BY <1>3, <1>4

LEMMA DrivingOthers ==
  ASSUME TypeInv, TerminateStopsNavigation,
         SrvRequest \/ SrvContinue \/ MainContinue \/ StopClient \/ World
  PROVE  TerminateStopsNavigation'
  <1> USE DEF TerminateStopsNavigation, CancelToCome, Live, flags, shared,
              running, sched, world, threads
  <1>1. goal \in Goals
    BY DEF TypeInv, TypeOK
  <1>2. CASE \E t \in Tasks : Upload(t)
    BY <1>2 DEF Upload
  <1>3. CASE Terminate
    BY <1>3 DEF Terminate
  <1>4. CASE TerminateNav \/ OperatorCancelNav \/ StopNav
    BY <1>1, <1>4, CancelNavEnds
       DEF TerminateNav, OperatorCancelNav, StopNav, Driving
  <1>5. CASE UploadNotify \/ TerminateNotify
    BY <1>5 DEF UploadNotify, TerminateNotify
  <1>6. CASE SrvLoop \/ SrvTimeout \/ Pause \/ Resume
    BY <1>6 DEF SrvLoop, SrvTimeout, Pause, Resume
  <1>7. CASE OperatorGoal
    BY <1>7 DEF OperatorGoal, SendGoal
  <1>8. CASE StartTaskManager
    <2>1. execPc \notin {"nav", "navWait", "navEnd"}
      BY <1>8 DEF StartTaskManager, TypeInv, ExecInv
    <2> QED
      BY <1>8, <2>1 DEF StartTaskManager
  <1>9. CASE StopClient \/ StopRunning \/ StopJoin
    BY <1>9 DEF StopClient, StopRunning, StopJoin
  <1>10. CASE StopFlags \/ StopNotify
    BY <1>10 DEF StopFlags, StopNotify
  <1>11. CASE Tick \/ SpuriousWakeup
    BY <1>11 DEF Tick, SpuriousWakeup
  <1>12. CASE GoalStep
    <2>1. PICK st : goal' = [goal EXCEPT !.st = st]
      BY <1>12 DEF GoalStep
    <2>2. goal'.owner = goal.owner /\ goal'.cancel = goal.cancel
      BY <1>1, <2>1 DEF Goals
    <2> QED
      BY <1>12, <2>2 DEF GoalStep
  <1> QED
    BY <1>2, <1>3, <1>4, <1>5, <1>6, <1>7, <1>8, <1>9, <1>10, <1>11, <1>12
    DEF SrvRequest, SrvContinue, MainContinue, World

LEMMA DrivingNext ==
  TypeInv /\ TerminateStopsNavigation /\ [Next]_vars
    => TerminateStopsNavigation'
  <1> SUFFICES ASSUME TypeInv, TerminateStopsNavigation, [Next]_vars
               PROVE  TerminateStopsNavigation'
    OBVIOUS
  <1>1. CASE ExecStep
    BY <1>1, DrivingExec
  <1>2. CASE SrvRequest \/ SrvContinue \/ MainContinue \/ StopClient \/ World
    BY <1>2, DrivingOthers
  <1>3. CASE UNCHANGED vars
    BY <1>3 DEF vars, TerminateStopsNavigation, CancelToCome, Live, flags, world,
                threads
  <1> QED
    BY <1>1, <1>2, <1>3 DEF Next

\* Once TerminateTask or Stop is through, no goal of a task drives the robot
\* on, except one the executor is itself about to cancel.
THEOREM TerminateStopsDriving == Spec => []TerminateStopsNavigation
  <1>1. Init => TerminateStopsNavigation
    BY DEF Init, TerminateStopsNavigation
  <1>2. Spec => []TypeInv
    BY TypeInit, TypeNext, PTL DEF Spec
  <1> QED
    BY <1>1, <1>2, DrivingNext, PTL DEF Spec

-----------------------------------------------------------------------------
(* The published progress is that of the task that runs.                   *)

LEMMA ReportExec ==
  ASSUME TypeInv, ReportMatchesExecution, ExecStep
  PROVE  ReportMatchesExecution'
  <1>1. TypeOK
    BY DEF TypeInv
  <1>2. status \in Statuses /\ actionIndex \in Nat
    BY <1>1 DEF TypeOK
  <1>3. ASSUME NEW s \in States, UpdateStatus(s)
        PROVE  status'.index = status.index /\ status'.total = status.total
    BY <1>2, <1>3 DEF UpdateStatus, Statuses
  <1> USE DEF ReportMatchesExecution, flags, shared, running, sched, world,
              threads
  <1>4. CASE Outer \/ WaitForTask \/ FallAsleep \/ CopyTask \/ LoopCond
    BY <1>4 DEF Outer, WaitForTask, FallAsleep, CopyTask, LoopCond
  <1>5. CASE DoTop \/ SchedTop \/ SchedFor \/ SchedRun \/ SchedNext \/ SchedNap
    BY <1>5 DEF DoTop, SchedTop, SchedFor, SchedRun, SchedNext, SchedNap
  <1>6. CASE ActTop \/ ActWait \/ Fail
    BY <1>6 DEF ActTop, ActWait, Fail
  <1>7. CASE Announce
    <2>1. /\ status'.index = actionIndex - 1
          /\ status'.total = Len(taskCopy.actions)
      BY <1>2, <1>7 DEF Announce, Statuses
    <2>2. UNCHANGED <<actionIndex, taskCopy>>
      BY <1>7 DEF Announce
    <2> QED
      BY <1>2, <2>1, <2>2
  <1>8. CASE Dispatch \/ ChainTop \/ CallFails
    BY <1>8 DEF Dispatch, ChainTop, CallFails
  <1>9. CASE CallSucceeds \/ DelayEnd \/ NavQuery
    BY <1>9 DEF CallSucceeds, DelayEnd, NavQuery, Proceed
  <1>10. CASE Delay \/ DelayWait \/ Nav \/ NavWait
    BY <1>10 DEF Delay, DelayWait, Nav, NavWait, WaitForResume
  <1>11. CASE NavTimeout \/ NavQueryFails \/ NavEnd
    BY <1>11 DEF NavTimeout, NavQueryFails, NavEnd
  <1> QED
    BY <1>4, <1>5, <1>6, <1>7, <1>8, <1>9, <1>10, <1>11 DEF ExecStep

LEMMA ReportOthers ==
  ASSUME TypeInv, ReportMatchesExecution,
         SrvRequest \/ SrvContinue \/ MainContinue \/ StopClient \/ World
  PROVE  ReportMatchesExecution'
  <1> USE DEF ReportMatchesExecution, shared, running
  <1>1. CASE StartTaskManager
    BY <1>1 DEF StartTaskManager
  <1>2. CASE ~StartTaskManager
    <2>1. UNCHANGED <<status, execPc, running>>
      <3>1. CASE SrvRequest
        BY <3>1 DEF SrvRequest, Upload, Terminate, Pause, Resume, OperatorGoal,
                    OperatorCancelNav
      <3>2. CASE SrvContinue
        BY <3>2 DEF SrvContinue, SrvLoop, SrvTimeout, UploadNotify,
                    TerminateNotify, TerminateNav
      <3>3. CASE MainContinue \/ StopClient
        BY <1>2, <3>3 DEF MainContinue, StopRunning, StopFlags, StopNotify,
                          StopNav, StopJoin, StopClient
      <3>4. CASE World
        BY <3>4 DEF World, Tick, GoalStep, SpuriousWakeup
      <3> QED
        BY <3>1, <3>2, <3>3, <3>4
    <2> QED
      BY <2>1
  <1> QED
    BY <1>1, <1>2

\* The index and the total the status shows are those of the running task,
\* for any tasks, uploads and pauses.
THEOREM ReportIsOfTheRun == Spec => []ReportMatchesExecution
  <1>1. Init => ReportMatchesExecution
    BY DEF Init, ReportMatchesExecution
  <1>2. TypeInv /\ ReportMatchesExecution /\ [Next]_vars
          => ReportMatchesExecution'
    <2> SUFFICES ASSUME TypeInv, ReportMatchesExecution, [Next]_vars
                 PROVE  ReportMatchesExecution'
      OBVIOUS
    <2>1. CASE UNCHANGED vars
      BY <2>1 DEF vars, ReportMatchesExecution, shared, running
    <2> QED
      BY <2>1, ReportExec, ReportOthers DEF Next
  <1>3. Spec => []TypeInv
    BY TypeInit, TypeNext, PTL DEF Spec
  <1> QED
    BY <1>1, <1>2, <1>3, PTL DEF Spec

-----------------------------------------------------------------------------
(* Only a task with loop fires a schedule twice a day.                     *)

\* While a task without loop looks at its schedules, a mark in current_task_
\* is one its copy was made with.
MarksCopied ==
    execPc \in {"schedTop", "schedFor", "schedNap"} /\ ~taskCopy.loop =>
        \A i \in DOMAIN currentTask.schedules :
            \/ currentTask.schedules[i].lastRun = 0
            \/ /\ i \in DOMAIN taskCopy.schedules
               /\ taskCopy.schedules[i].lastRun
                    = currentTask.schedules[i].lastRun

LEMMA DayPositive == ASSUME NEW t \in Nat PROVE Day(t) > 0
  BY ClockAssumption DEF Day

LEMMA MarksExec ==
  ASSUME TypeInv, MarksCopied, ExecStep
  PROVE  MarksCopied'
  <1> USE DEF MarksCopied, shared, running
  <1>1. CASE CopyTask
    BY <1>1 DEF CopyTask
  <1>2. CASE SchedTop \/ SchedNap
    BY <1>2 DEF SchedTop, SchedNap
  <1>3. CASE SchedFor
    BY <1>3 DEF SchedFor
  <1>4. CASE SchedNext
    BY <1>4 DEF SchedNext
  <1>5. CASE execPc' \notin {"schedTop", "schedFor", "schedNap"}
    BY <1>5
  <1>6. CASE execPc \notin {"schedTop", "schedFor", "schedNap", "schedNext", "copy"}
    <2>1. CASE Outer \/ WaitForTask \/ FallAsleep \/ DoTop \/ LoopCond
      BY <1>6, <2>1 DEF Outer, WaitForTask, FallAsleep, DoTop, LoopCond
    <2>2. CASE SchedRun \/ ActTop \/ ActWait \/ Announce
      BY <1>6, <2>2 DEF SchedRun, ActTop, ActWait, Announce
    <2>3. CASE Dispatch
      BY <1>6, <2>3 DEF Dispatch
    <2>4. CASE ChainTop \/ Fail \/ CallSucceeds \/ CallFails \/ DelayEnd
      BY <1>6, <2>4 DEF ChainTop, Fail, CallSucceeds, CallFails, DelayEnd, Proceed
    <2>5. CASE Delay \/ DelayWait \/ Nav \/ NavWait
      BY <1>6, <2>5 DEF Delay, DelayWait, Nav, NavWait, WaitForResume
    <2>6. CASE NavTimeout \/ NavQueryFails \/ NavQuery \/ NavEnd
      BY <1>6, <2>6 DEF NavTimeout, NavQueryFails, NavQuery, NavEnd, Proceed
    <2>7. ~(CopyTask \/ SchedTop \/ SchedFor \/ SchedNext \/ SchedNap)
      BY <1>6 DEF CopyTask, SchedTop, SchedFor, SchedNext, SchedNap
    <2> QED
      BY <2>1, <2>2, <2>3, <2>4, <2>5, <2>6, <2>7 DEF ExecStep
  <1>7. CASE execPc \in {"schedTop", "schedFor", "schedNap", "schedNext", "copy"}
    <2>1. cv = "awake"
      BY <1>7 DEF TypeInv, TypeOK, ExecInv
    <2>2. CopyTask \/ SchedTop \/ SchedNap \/ SchedFor \/ SchedNext
      BY <1>7, <2>1 DEF ExecStep, Outer, WaitForTask, FallAsleep, DoTop,
         LoopCond, SchedRun, ActTop, ActWait, Announce, Dispatch, ChainTop,
         Fail, CallSucceeds, CallFails, Delay, DelayWait, WaitForResume,
         DelayEnd, Nav, NavWait, NavTimeout, NavQueryFails, NavQuery, NavEnd
    <2> QED
      BY <1>1, <1>2, <1>3, <1>4, <2>2
  <1> QED
    BY <1>6, <1>7

\* Another thread touches the tables only by an upload, which has no marks.
LEMMA MarksOthers ==
  ASSUME TypeInv, MarksCopied,
         SrvRequest \/ SrvContinue \/ MainContinue \/ StopClient \/ World
  PROVE  MarksCopied'
  <1> USE DEF MarksCopied, shared, running
  <1>1. CASE \E t \in Tasks : Upload(t)
    <2>1. PICK t \in Tasks : Upload(t)
      BY <1>1
    <2>2. \A i \in DOMAIN t.schedules : t.schedules[i].lastRun = 0
      BY TasksAssumption
    <2> QED
      BY <2>1, <2>2 DEF Upload
  <1>2. CASE StartTaskManager
    BY <1>2 DEF StartTaskManager
  <1>3. CASE ~StartTaskManager /\ ~\E t \in Tasks : Upload(t)
    <2>1. UNCHANGED <<currentTask, taskCopy, execPc>>
      <3>1. CASE SrvRequest
        BY <1>3, <3>1 DEF SrvRequest, Terminate, Pause, Resume, OperatorGoal,
                          OperatorCancelNav
      <3>2. CASE SrvContinue
        BY <3>2 DEF SrvContinue, SrvLoop, SrvTimeout, UploadNotify,
                    TerminateNotify, TerminateNav
      <3>3. CASE MainContinue \/ StopClient
        BY <1>3, <3>3 DEF MainContinue, StopRunning, StopFlags, StopNotify,
                          StopNav, StopJoin, StopClient
      <3>4. CASE World
        BY <3>4 DEF World, Tick, GoalStep, SpuriousWakeup
      <3> QED
        BY <3>1, <3>2, <3>3, <3>4
    <2> QED
      BY <2>1
  <1> QED
    BY <1>1, <1>2, <1>3

LEMMA MarksNext == TypeInv /\ MarksCopied /\ [Next]_vars => MarksCopied'
  <1> SUFFICES ASSUME TypeInv, MarksCopied, [Next]_vars PROVE MarksCopied'
    OBVIOUS
  <1>1. CASE UNCHANGED vars
    BY <1>1 DEF vars, MarksCopied, shared, running
  <1> QED
    BY <1>1, MarksExec, MarksOthers DEF Next

\* The step that fires a schedule has found it due.
LEMMA FireIsDue ==
  ASSUME TypeInv, Next, FireStep
  PROVE  /\ schedIndex \in DOMAIN taskCopy.schedules
         /\ taskCopy.schedules[schedIndex].lastRun # Day(now)
  <1>1. cv = "awake" /\ execPc = "schedFor" /\ execPc' = "schedRun"
    BY DEF FireStep, TypeInv, TypeOK, ExecInv
  <1>2. CASE ExecStep
    <2>1. SchedFor
      BY <1>1, <1>2 DEF ExecStep, Outer, WaitForTask, FallAsleep, DoTop,
         CopyTask, LoopCond, SchedTop, SchedNext, SchedNap, SchedRun, ActTop,
         ActWait, Announce, Dispatch, ChainTop, Fail, CallSucceeds, CallFails,
         Delay, DelayWait, WaitForResume, DelayEnd, Nav, NavWait, NavTimeout,
         NavQueryFails, NavQuery, NavEnd
    <2>2. taskCopy.schedules \in Seq(Schedules) /\ schedIndex \in Nat \ {0}
      BY DEF TypeInv, TypeOK, TaskRecords
    <2>3. /\ ~(schedIndex > Len(taskCopy.schedules))
          /\ \E t \in InstantsRead : Due(taskCopy.schedules[schedIndex], t)
      BY <1>1, <2>1 DEF SchedFor
    <2> QED
      BY <2>2, <2>3 DEF Due
  <1>3. CASE SrvRequest \/ SrvContinue \/ StopClient \/ World
    BY <1>1, <1>3 DEF SrvRequest, SrvContinue, World, Upload, Terminate, Pause,
       Resume, OperatorGoal, OperatorCancelNav, SrvLoop, SrvTimeout,
       UploadNotify, TerminateNotify, TerminateNav, StopClient, Tick, GoalStep,
       SpuriousWakeup
  <1>4. CASE MainContinue
    BY <1>1, <1>4 DEF MainContinue, StartTaskManager, StopRunning, StopFlags,
       StopNotify, StopNav, StopJoin
  <1> QED
    BY <1>2, <1>3, <1>4 DEF Next

\* Without loop, a schedule whose mark of today is in the table is not fired
\* again, for any tasks, uploads and instants read.
THEOREM OnlyLoopsRepeat == Spec => OnlyLoopsFireAgain
  <1>1. Init => MarksCopied
    BY DEF Init, MarksCopied
  <1>2. TypeInv /\ MarksCopied /\ [Next]_vars
          => [FireStep /\ ~taskCopy.loop => Unmarked]_vars
    <2> SUFFICES ASSUME TypeInv, MarksCopied, Next, FireStep, ~taskCopy.loop,
                        schedIndex \in DOMAIN currentTask.schedules
                 PROVE  currentTask.schedules[schedIndex].lastRun # Day(now)
      BY DEF Unmarked
    <2>1. taskCopy.schedules[schedIndex].lastRun # Day(now)
      BY FireIsDue
    <2>2. Day(now) # 0
      BY DayPositive, DayNat DEF TypeInv, TypeOK
    <2> QED
      BY <2>1, <2>2 DEF MarksCopied, FireStep
  <1>3. Spec => []TypeInv
    BY TypeInit, TypeNext, PTL DEF Spec
  <1> QED
    BY <1>1, <1>2, <1>3, MarksNext, PTL DEF Spec, OnlyLoopsFireAgain

-----------------------------------------------------------------------------
(* What an operator sees.                                                  *)

slotVars == <<curId, hasNewTask, loops, SlotState, copyId, runs>>

\* The loop flag of current_task_ is that of the upload in it.
LoopInv == currentTask.loop \in BOOLEAN /\ (currentTask.loop <=> curId \in loops)

One(b) == IF b THEN 1 ELSE 0

\* The inductive invariant of TaskSlot: an upload without loop that is chosen
\* once more, or fresh, has been started less often.
SlotInv ==
    /\ curId \in 0..MaxUploads
    /\ loops \subseteq 1..curId
    /\ runs \in [1..MaxUploads -> 0..RunsCap]
    /\ hasNewTask \in BOOLEAN
    /\ hasNewTask \/ SlotState # "idle" => curId > 0
    /\ \A n \in 1..MaxUploads : n > curId => runs[n] = 0
    /\ \A n \in (1..MaxUploads) \ loops :
          runs[n] + One(hasNewTask /\ n = curId)
                  + One(SlotState = "chosen" /\ n = curId) <= 2

-----------------------------------------------------------------------------
(* What the threads do to the slot.                                        *)

Kept   == hasNewTask' = hasNewTask /\ SlotState' = SlotState /\ execPc # "copy"
Chosen == /\ execPc = "wait" /\ execPc' = "doTop"
          /\ hasNewTask /\ hasNewTask' = FALSE
Copied == /\ execPc = "copy" /\ SlotState' = "busy"
          /\ execPc' # "copy" /\ hasNewTask' = hasNewTask
Looped == /\ execPc = "loopCond" /\ execPc' = "doTop"
          /\ currentTask.loop /\ hasNewTask' = hasNewTask
Left   == /\ SlotState \in {"chosen", "busy"} /\ SlotState' = "idle"
          /\ execPc # "copy" /\ hasNewTask' = hasNewTask

LEMMA ExecMoves ==
  ASSUME TypeInv, ExecStep
  PROVE  /\ srvPc' = srvPc /\ currentTask'.loop = currentTask.loop
         /\ shouldCancel' = shouldCancel
         /\ Kept \/ Chosen \/ Copied \/ Looped \/ Left
         /\ execPc' = "announce" => ~shouldCancel
  <1> USE DEF Kept, Chosen, Copied, Looped, Left, SlotState, flags, shared,
              running, sched, world, threads
  <1>1. CASE Outer \/ WaitForTask \/ FallAsleep \/ DoTop \/ CopyTask \/ LoopCond
    BY <1>1 DEF Outer, WaitForTask, FallAsleep, DoTop, CopyTask, LoopCond,
        UpdateStatus, TypeInv, TypeOK, ExecInv
  <1>2. CASE SchedFor
    <2>1. currentTask'.loop = currentTask.loop
      BY <1>2 DEF SchedFor, MarkRun, TypeInv, TypeOK, TaskRecords
    <2> QED
      BY <1>2, <2>1 DEF SchedFor
  <1>3. CASE SchedTop \/ SchedRun \/ SchedNext \/ SchedNap
    BY <1>3 DEF SchedTop, SchedRun, SchedNext, SchedNap, UpdateStatus
  <1>4. CASE ActTop \/ ActWait \/ Announce \/ Dispatch \/ ChainTop \/ Fail
    <2>1. CASE ActTop
      BY <2>1 DEF ActTop, UpdateStatus
    <2>2. CASE ActWait
      BY <2>2 DEF ActWait, Cancelled, UpdateStatus
    <2>3. CASE Announce \/ ChainTop \/ Fail
      BY <2>3 DEF Announce, ChainTop, Fail, UpdateStatus
    <2>4. CASE Dispatch
      <3>1. execPc' \in {"delay", "nav", "fail", "call"}
        BY <2>4, Zenon DEF Dispatch
      <3> QED
        BY <2>4, <3>1 DEF Dispatch
    <2> QED
      BY <1>4, <2>1, <2>2, <2>3, <2>4
  <1>5. CASE CallSucceeds \/ CallFails \/ Delay \/ DelayWait \/ DelayEnd
    BY <1>5 DEF CallSucceeds, CallFails, Delay, DelayWait, DelayEnd, Proceed,
        WaitForResume
  <1>6. CASE Nav \/ NavWait \/ NavTimeout \/ NavQueryFails \/ NavQuery \/ NavEnd
    <2>1. CASE Nav
      <3>1. execPc' \in {"navEnd", "navWait", "navQuery"}
        BY <2>1, Zenon DEF Nav
      <3> QED
        BY <2>1, <3>1 DEF Nav
    <2>2. CASE NavQuery
      <3>1. execPc' \in {"actTop", "chainTop", "fail", "nav"}
        BY <2>2 DEF NavQuery, Proceed
      <3> QED
        BY <2>2, <3>1 DEF NavQuery
    <2>3. CASE NavWait \/ NavTimeout \/ NavQueryFails \/ NavEnd
      BY <2>3 DEF NavWait, NavTimeout, NavQueryFails, NavEnd, WaitForResume
    <2> QED
      BY <1>6, <2>1, <2>2, <2>3
  <1> QED
    BY <1>1, <1>2, <1>3, <1>4, <1>5, <1>6 DEF ExecStep

\* The other threads only fill the slot.
LEMMA OtherMoves ==
  ASSUME TypeInv, SrvRequest \/ SrvContinue \/ MainContinue \/ StopClient \/ World
  PROVE  /\ execPc' = execPc \/ (execPc = "unborn" /\ execPc' = "outer")
         /\ taskCopy' = taskCopy
         /\ \/ srvPc = "recv" /\ srvPc' = "upNotify" /\ hasNewTask' = TRUE
               /\ currentTask' \in Tasks
            \/ /\ ~UploadStep
               /\ hasNewTask' = hasNewTask /\ currentTask' = currentTask
  <1> USE DEF flags, shared, running, sched, world, threads, UploadStep
  <1>1. CASE SrvRequest
    <2>1. ASSUME NEW t \in Tasks, Upload(t)
          PROVE  /\ execPc' = execPc /\ taskCopy' = taskCopy
                 /\ srvPc = "recv" /\ srvPc' = "upNotify" /\ hasNewTask' = TRUE
                 /\ currentTask' \in Tasks
      BY <2>1 DEF Upload
    <2>2. CASE Terminate \/ Pause \/ Resume \/ OperatorGoal \/ OperatorCancelNav
      BY <2>2 DEF Terminate, Pause, Resume, OperatorGoal, OperatorCancelNav,
          TerminateFlags
    <2> QED
      BY <1>1, <2>1, <2>2 DEF SrvRequest
  <1>2. CASE SrvContinue
    BY <1>2 DEF SrvContinue, SrvLoop, SrvTimeout, UploadNotify, TerminateNotify,
        TerminateNav
  <1>3. CASE MainContinue \/ StopClient
    BY <1>3 DEF MainContinue, StartTaskManager, StopRunning, StopFlags,
        StopNotify, StopNav, StopJoin, StopClient, TerminateFlags, TypeInv, ExecInv
  <1>4. CASE World
    BY <1>4 DEF World, Tick, GoalStep, SpuriousWakeup
  <1> QED
    BY <1>1, <1>2, <1>3, <1>4

-----------------------------------------------------------------------------
(* The refinement.                                                         *)

LEMMA ExecMaps ==
  ASSUME TypeInv, LoopInv, SlotInv, ExecStep, Record
  PROVE  Slot!Next \/ UNCHANGED slotVars
  <1>1. /\ ~UploadStep /\ curId' = curId /\ loops' = loops
    BY ExecMoves DEF UploadStep, Record
  <1>2. CASE Kept
    <2>1. ~CopyStep
      BY <1>2 DEF Kept, CopyStep
    <2> QED
      BY <1>1, <1>2, <2>1 DEF Kept, Record, slotVars
  <1>3. CASE Chosen
    <2>1. SlotState = "idle" /\ SlotState' = "chosen" /\ ~CopyStep
      BY <1>3 DEF Chosen, SlotState, CopyStep
    <2> QED
      BY <1>1, <1>3, <2>1 DEF Chosen, Record, Slot!Next, Slot!Choose
  <1>4. CASE Copied
    <2>1. SlotState = "chosen" /\ SlotState' = "busy" /\ CopyStep
      BY <1>4 DEF Copied, SlotState, CopyStep
    <2> QED
      BY <1>1, <1>4, <2>1 DEF Copied, Record, Slot!Next, Slot!Start
  <1>5. CASE Looped
    <2>1. SlotState = "busy" /\ SlotState' = "chosen" /\ ~CopyStep
      BY <1>5 DEF Looped, SlotState, CopyStep
    <2> QED
      BY <1>1, <1>5, <2>1 DEF Looped, LoopInv, Record, Slot!Next, Slot!Again
  <1>6. CASE Left
    <2>1. ~CopyStep
      BY <1>6 DEF Left, CopyStep
    <2> QED
      BY <1>1, <1>6, <2>1 DEF Left, Record, Slot!Next, Slot!Finish
  <1> QED
    BY ExecMoves, <1>2, <1>3, <1>4, <1>5, <1>6

LEMMA OtherMaps ==
  ASSUME TypeInv, SlotInv, Record,
         SrvRequest \/ SrvContinue \/ MainContinue \/ StopClient \/ World
  PROVE  Slot!Next \/ UNCHANGED slotVars
  <1>1. SlotState' = SlotState /\ ~CopyStep
    BY OtherMoves DEF SlotState, CopyStep
  <1>2. CASE UploadStep
    BY <1>1, <1>2, OtherMoves DEF Record, Slot!Next, Slot!Upload
  <1>3. CASE ~UploadStep
    BY <1>1, <1>3, OtherMoves DEF Record, slotVars, UploadStep
  <1> QED
    BY <1>2, <1>3

LEMMA StepMaps ==
  ASSUME TypeInv, LoopInv, SlotInv, [HistoryNext]_hvars
  PROVE  [Slot!Next]_slotVars
  <1>1. CASE HistoryNext
    BY <1>1, ExecMaps, OtherMaps DEF HistoryNext, Next
  <1>2. CASE UNCHANGED hvars
    BY <1>2 DEF hvars, vars, history, slotVars, SlotState, flags
  <1> QED
    BY <1>1, <1>2

-----------------------------------------------------------------------------
(* The invariants.                                                         *)

LEMMA SlotInit == Init /\ HistoryInit => SlotInv /\ LoopInv
  <1> SUFFICES ASSUME Init, HistoryInit PROVE SlotInv /\ LoopInv
    OBVIOUS
  <1>1. LoopInv
    BY DEF Init, HistoryInit, LoopInv, NoTask
  <1>2. SlotState = "idle"
    BY DEF Init, SlotState
  <1>3. /\ curId = 0 /\ loops = {} /\ hasNewTask = FALSE
        /\ runs = [n \in 1..MaxUploads |-> 0]
    BY DEF Init, HistoryInit
  <1>4. \A n \in 1..MaxUploads : runs[n] = 0
    BY <1>3
  <1>5. runs \in [1..MaxUploads -> 0..RunsCap]
    BY <1>3 DEF RunsCap
  <1>6. SlotInv
    <2>1. ASSUME NEW n \in (1..MaxUploads) \ loops
          PROVE  runs[n] + One(hasNewTask /\ n = curId)
                         + One(SlotState = "chosen" /\ n = curId) <= 2
      BY <1>2, <1>3, <1>4 DEF One
    <2>2. curId \in 0..MaxUploads /\ loops \subseteq 1..curId
      BY <1>3, MaxUploadsAssumption
    <2>3. hasNewTask \in BOOLEAN
      BY <1>3, Zenon
    <2>4. \A n \in 1..MaxUploads : n > curId => runs[n] = 0
      BY <1>4
    <2> QED
      BY <1>2, <1>3, <1>5, <2>1, <2>2, <2>3, <2>4 DEF SlotInv
  <1> QED
    BY <1>1, <1>6

\* An argument about TaskSlot alone.
LEMMA SlotNext ==
  ASSUME SlotInv, [Slot!Next]_slotVars
  PROVE  SlotInv'
  <1> USE MaxUploadsAssumption DEF SlotInv, One, RunsCap
  <1>1. CASE Slot!Upload
    BY <1>1 DEF Slot!Upload
  <1>2. CASE Slot!Choose
    <2>1. /\ hasNewTask /\ SlotState = "idle" /\ ~hasNewTask' /\ SlotState' = "chosen"
          /\ UNCHANGED <<curId, loops, runs>>
      BY <1>2 DEF Slot!Choose
    <2>2. ASSUME NEW n \in (1..MaxUploads) \ loops
          PROVE  runs[n] + One(hasNewTask' /\ n = curId)
                         + One(SlotState' = "chosen" /\ n = curId) <= 2
      <3>1. CASE n = curId
        BY <2>1, <3>1
      <3>2. CASE n # curId
        BY <2>1, <3>2
      <3> QED
        BY <3>1, <3>2
    <2> QED
      BY <1>2, <2>1, <2>2 DEF Slot!Choose
  <1>3. CASE Slot!Start
    BY <1>3 DEF Slot!Start
  <1>4. CASE Slot!Again
    BY <1>4 DEF Slot!Again
  <1>5. CASE Slot!Finish
    BY <1>5 DEF Slot!Finish
  <1>6. CASE UNCHANGED slotVars
    BY <1>6 DEF slotVars
  <1> QED
    BY <1>1, <1>2, <1>3, <1>4, <1>5, <1>6 DEF Slot!Next

LEMMA LoopNext ==
  ASSUME TypeInv, SlotInv, LoopInv, [HistoryNext]_hvars
  PROVE  LoopInv'
  <1>1. CASE HistoryNext /\ UploadStep
    <2>1. currentTask' \in Tasks /\ curId' = curId + 1
      BY <1>1, ExecMoves, OtherMoves DEF HistoryNext, Next, Record, UploadStep
    <2>2. currentTask'.loop \in BOOLEAN
      BY <2>1, TasksAssumption DEF TaskRecords
    <2>3. curId + 1 \notin loops
      BY MaxUploadsAssumption DEF SlotInv
    <2> QED
      BY <1>1, <2>1, <2>2, <2>3 DEF LoopInv, HistoryNext, Record
  <1>2. CASE HistoryNext /\ ~UploadStep
    <2>1. currentTask'.loop = currentTask.loop
      BY <1>2, ExecMoves, OtherMoves DEF HistoryNext, Next, UploadStep
    <2> QED
      BY <1>2, <2>1 DEF LoopInv, HistoryNext, Record
  <1>3. CASE UNCHANGED hvars
    BY <1>3 DEF hvars, vars, history, shared, LoopInv
  <1> QED
    BY <1>1, <1>2, <1>3

LEMMA HistoryTypes == HistorySpec => []TypeInv
  <1>1. Init /\ HistoryInit => TypeInv
    BY TypeInit
  <1>2. TypeInv /\ [HistoryNext]_hvars => TypeInv'
    BY TypeNext DEF HistoryNext, hvars
  <1> QED
    BY <1>1, <1>2, PTL DEF HistorySpec

LEMMA HistoryInvariance == HistorySpec => [](TypeInv /\ SlotInv /\ LoopInv)
  <1>1. TypeInv /\ SlotInv /\ LoopInv /\ [HistoryNext]_hvars
          => SlotInv' /\ LoopInv'
    BY StepMaps, SlotNext, LoopNext
  <1> QED
    BY <1>1, SlotInit, HistoryTypes, PTL DEF HistorySpec

\* The executor and the uploads implement a slot for one task: see
\* ImplementsSlot.
THEOREM ManagerIsSlot == HistorySpec => ImplementsSlot
  <1>1. Init /\ HistoryInit => Slot!Init
    BY DEF Init, HistoryInit, Slot!Init, SlotState
  <1>2. TypeInv /\ SlotInv /\ LoopInv /\ [HistoryNext]_hvars
          => [Slot!Next]_slotVars
    BY StepMaps
  <1> QED
    BY <1>1, <1>2, HistoryInvariance, PTL
    DEF HistorySpec, ImplementsSlot, Slot!Spec, slotVars

\* An upload without loop is run twice at most: see RunsAtMostTwice.
THEOREM TwoRunsAtMost == HistorySpec => []RunsAtMostTwice
  <1>1. SlotInv => RunsAtMostTwice
    BY MaxUploadsAssumption DEF SlotInv, RunsAtMostTwice, One, RunsCap
  <1> QED
    BY <1>1, HistoryInvariance, PTL

\* A terminated run begins one more action at most: see
\* OneActionAfterTerminate.
THEOREM TerminationHolds == HistorySpec => []OneActionAfterTerminate
  <1>1. Init /\ HistoryInit => OneActionAfterTerminate
    BY DEF Init, OneActionAfterTerminate
  <1>2. TypeInv /\ OneActionAfterTerminate /\ [HistoryNext]_hvars
          => OneActionAfterTerminate'
    <2> SUFFICES ASSUME TypeInv, OneActionAfterTerminate, [HistoryNext]_hvars,
                        shouldCancel', execPc' = "announce"
                 PROVE  passed'
      BY DEF OneActionAfterTerminate
    <2>1. CASE HistoryNext /\ ExecStep
      BY <2>1, ExecMoves
    <2>2. CASE HistoryNext /\ ~ExecStep
      <3>1. execPc = "announce"
        BY <2>2, OtherMoves DEF HistoryNext, Next
      <3> QED
        BY <2>2, <3>1 DEF OneActionAfterTerminate, HistoryNext, Record, AnnounceStep
    <2>3. CASE UNCHANGED hvars
      BY <2>3 DEF hvars, vars, history, flags, OneActionAfterTerminate
    <2> QED
      BY <2>1, <2>2, <2>3
  <1> QED
    BY <1>1, <1>2, HistoryTypes, PTL DEF HistorySpec

-----------------------------------------------------------------------------
(* A terminated executor comes to rest.                                    *)

\* The lists of schedules an operator uploads are short: what follows counts
\* down the rest of a list, which induction over Nat would do for any list.
MostSchedules == 4

FewSchedules == \A t \in Tasks : Len(t.schedules) <= MostSchedules

\* Only PauseTask sets is_paused_, and it never returns: an executor that
\* waits for a resume waits on a server thread that waits for ever.
WaitInv ==
    /\ execPc = "unborn" => mainPc = "boot"
    /\ isPaused => srvPc = "relock"
    /\ cv # "awake" => execPc = "wait" \/ srvPc = "relock"

ShortInv ==
    /\ Len(currentTask.schedules) <= MostSchedules
    /\ Len(taskCopy.schedules) <= MostSchedules

\* What the steps of the other threads leave of the executor.
LEMMA OthersLeave ==
  ASSUME TypeInv, SrvRequest \/ SrvContinue \/ MainContinue \/ StopClient \/ World
  PROVE  /\ UNCHANGED <<running, sched, status>>
         /\ execPc' = execPc \/ (mainPc = "boot" /\ execPc' = "outer")
         /\ mainPc = "boot" => mainPc' = "boot" \/ execPc' = "outer"
         /\ cv' \in {cv, "awake"}
         /\ srvPc = "relock" => srvPc' = "relock"
         /\ isPaused' => isPaused \/ srvPc' = "relock"
         /\ hasNewTask' = hasNewTask \/ shouldCancel' = FALSE
         /\ currentTask' = currentTask \/ currentTask' \in Tasks
  <1> USE DEF flags, shared, running, sched, world, threads
  <1>1. CASE \E t \in Tasks : Upload(t)
    BY <1>1 DEF Upload
  <1>2. CASE Terminate \/ Pause \/ Resume \/ OperatorGoal \/ OperatorCancelNav
    BY <1>2 DEF Terminate, Pause, Resume, OperatorGoal, OperatorCancelNav,
       TerminateFlags
  <1>3. CASE SrvContinue
    BY <1>3 DEF SrvContinue, SrvLoop, SrvTimeout, UploadNotify, TerminateNotify,
       TerminateNav, NotifyAll
  <1>4. CASE MainContinue \/ StopClient
    BY <1>4 DEF MainContinue, StartTaskManager, StopRunning, StopFlags,
       StopNotify, StopNav, StopJoin, StopClient, TerminateFlags, NotifyAll
  <1>5. CASE World
    BY <1>5 DEF World, Tick, GoalStep, SpuriousWakeup
  <1> QED
    BY <1>1, <1>2, <1>3, <1>4, <1>5 DEF SrvRequest

\* What is left of the list of schedules; schedNext and what leads there are
\* reached with at least one left, but nothing below needs to know.
LeftOf(l, i) == IF i > l THEN 0 ELSE l + 1 - i
SchedLeft == LeftOf(Len(taskCopy.schedules), schedIndex)
AtLeast1(n) == IF n = 0 THEN 1 ELSE n

TopRank == 4 * MostSchedules + 6

\* How far a cancelled executor is from "outer".
ExecRank ==
    CASE execPc = "outer" -> 1
      [] execPc \in {"doTop", "loopCond", "schedTop", "schedNap", "actWait",
                     "fail", "failCancelled"} -> 2
      [] execPc \in {"chainTop", "navEnd", "delayEnd"} -> 3
      [] execPc = "schedFor" -> 4 * SchedLeft + 3
      [] execPc = "schedNext" -> 4 * AtLeast1(SchedLeft)
      [] execPc = "actTop" -> 4 * AtLeast1(SchedLeft) + 1
      [] execPc = "schedRun" -> 4 * AtLeast1(SchedLeft) + 2
      [] execPc \in {"call", "delay", "delayWait", "nav", "navWait"}
            -> TopRank - 2
      [] execPc \in {"dispatch", "navQuery"} -> TopRank - 1
      [] OTHER -> TopRank

\* The executor is under way.
OnItsWay == execPc \notin {"unborn", "wait", "done"}

ExecStops == execPc' = "done" \/ (execPc' = "wait" /\ cv' = "awake")
ExecNears == execPc' \notin {"unborn", "wait", "done"} /\ ExecRank' < ExecRank

LEMMA FewerLeft ==
  ASSUME NEW l \in Nat, NEW i \in Nat \ {0}
  PROVE  /\ ~(i > l) => LeftOf(l, i + 1) < LeftOf(l, i)
         /\ LeftOf(l, i + 1) < AtLeast1(LeftOf(l, i))
         /\ i > l <=> LeftOf(l, i) = 0
         /\ LeftOf(l, i) \in 0..l
  BY DEF LeftOf, AtLeast1

LEMMA CopyLength ==
  ASSUME TypeInv
  PROVE  Len(taskCopy.schedules) \in Nat
  BY LenProperties DEF TypeInv, TypeOK, TaskRecords

LEMMA LeftType ==
  ASSUME TypeInv, ShortInv
  PROVE  SchedLeft \in 0..4
  <1>1. schedIndex \in Nat \ {0}
    BY DEF TypeInv, TypeOK
  <1>2. SchedLeft \in 0..Len(taskCopy.schedules)
    BY <1>1, CopyLength, FewerLeft DEF SchedLeft
  <1> QED
    BY <1>2, CopyLength DEF ShortInv, MostSchedules

LEMMA LeftTypeNext ==
  ASSUME TypeInv', ShortInv'
  PROVE  SchedLeft' \in 0..4
  <1>1. schedIndex' \in Nat \ {0} /\ Len(taskCopy'.schedules) \in Nat
    BY LenProperties DEF TypeInv, TypeOK, TaskRecords
  <1>2. SchedLeft' \in 0..Len(taskCopy'.schedules)
    BY <1>1, FewerLeft DEF SchedLeft
  <1> QED
    BY <1>1, <1>2 DEF ShortInv, MostSchedules

LEMMA ExecRankType ==
  ASSUME TypeInv, ShortInv
  PROVE  ExecRank \in 1..TopRank
  BY LeftType DEF ExecRank, AtLeast1, TopRank, MostSchedules

\* Every step of a cancelled executor brings it nearer.
LEMMA ExecFalls ==
  ASSUME TypeInv, WaitInv, ShortInv, TypeInv', ShortInv', OnItsWay,
         shouldCancel, srvPc # "relock", ExecStep
  PROVE  /\ hasNewTask' = hasNewTask /\ shouldCancel' /\ srvPc' = srvPc
         /\ ExecStops \/ ExecNears
  <1> USE DEF flags, shared, running, sched, world, threads, OnItsWay,
              ExecStops, ExecNears, Cancelled, UpdateStatus
  <1>a. cv = "awake"
    BY DEF WaitInv
  <1>b. SchedLeft \in 0..4 /\ SchedLeft' \in 0..4
    BY LeftType, LeftTypeNext
  <1>c. AtLeast1(SchedLeft) \in 1..4 /\ AtLeast1(SchedLeft') \in 1..4
    BY <1>b DEF AtLeast1
  <1>d. TopRank = 22
    BY DEF TopRank, MostSchedules
  <1>e. /\ execPc = "outer" => ExecRank = 1
        /\ execPc \in {"doTop", "loopCond", "schedTop", "schedNap", "actWait",
                        "fail", "failCancelled"} => ExecRank = 2
        /\ execPc \in {"chainTop", "navEnd", "delayEnd"} => ExecRank = 3
        /\ execPc \in {"call", "delay", "delayWait", "nav", "navWait"}
              => ExecRank = 20
        /\ execPc \in {"dispatch", "navQuery"} => ExecRank = 21
        /\ execPc \in {"announce", "copy"} => ExecRank = 22
        /\ execPc = "schedNext" => ExecRank = 4 * AtLeast1(SchedLeft)
        /\ execPc = "actTop" => ExecRank = 4 * AtLeast1(SchedLeft) + 1
    BY <1>d DEF ExecRank
  <1>f. /\ execPc' = "outer" => ExecRank' = 1
        /\ execPc' \in {"doTop", "loopCond", "schedTop", "schedNap", "actWait",
                        "fail", "failCancelled"} => ExecRank' = 2
        /\ execPc' \in {"chainTop", "navEnd", "delayEnd"} => ExecRank' = 3
        /\ execPc' \in {"call", "delay", "delayWait", "nav", "navWait"}
              => ExecRank' = 20
        /\ execPc' \in {"dispatch", "navQuery"} => ExecRank' = 21
        /\ execPc' \in {"announce", "copy"} => ExecRank' = 22
        /\ execPc' = "schedNext" => ExecRank' = 4 * AtLeast1(SchedLeft')
        /\ execPc' = "actTop" => ExecRank' = 4 * AtLeast1(SchedLeft') + 1
    BY <1>d DEF ExecRank
  <1>g. schedIndex \in Nat \ {0}
    BY DEF TypeInv, TypeOK
  <1> USE <1>a, <1>b, <1>c, <1>d, <1>e, <1>f
  <1>1. CASE Outer \/ WaitForTask \/ FallAsleep \/ DoTop \/ LoopCond
    <2>1. CASE Outer \/ WaitForTask \/ FallAsleep
      BY <2>1 DEF Outer, WaitForTask, FallAsleep
    <2>2. CASE DoTop
      BY <2>2 DEF DoTop
    <2>3. CASE LoopCond
      BY <2>3 DEF LoopCond
    <2> QED
      BY <1>1, <2>1, <2>2, <2>3
  <1>2. CASE CopyTask
    <2>1. ExecRank = 22 /\ execPc' \in {"actTop", "schedTop"}
      BY <1>2 DEF CopyTask, ExecRank
    <2>2. ExecRank' < 22
      BY <2>1, <1>b, <1>c DEF ExecRank
    <2> QED
      BY <1>2, <2>1, <2>2 DEF CopyTask
  <1>3. CASE SchedTop \/ SchedNap
    <2>1. CASE SchedTop
      BY <2>1 DEF SchedTop
    <2>2. CASE SchedNap
      BY <2>2 DEF SchedNap
    <2> QED
      BY <1>3, <2>1, <2>2
  <1>4. CASE SchedFor
    <2>1. taskCopy' = taskCopy
      BY <1>4 DEF SchedFor
    <2>2. CASE schedIndex > Len(taskCopy.schedules)
      <3>1. SchedLeft = 0
        BY <2>2, <1>g, CopyLength, FewerLeft DEF SchedLeft
      <3> QED
        BY <1>4, <2>2, <3>1 DEF SchedFor, ExecRank
    <2>3. CASE ~(schedIndex > Len(taskCopy.schedules)) /\ execPc' = "schedRun"
      <3>1. schedIndex' = schedIndex
        BY <1>4, <2>3 DEF SchedFor
      <3>2. SchedLeft' = SchedLeft /\ SchedLeft # 0
        BY <2>1, <2>3, <3>1, <1>g, CopyLength, FewerLeft DEF SchedLeft
      <3> QED
        BY <1>4, <1>b, <2>1, <2>3, <3>2 DEF SchedFor, ExecRank, AtLeast1
    <2>4. CASE ~(schedIndex > Len(taskCopy.schedules)) /\ execPc' # "schedRun"
      <3>1. schedIndex' = schedIndex + 1 /\ execPc' = execPc
        BY <1>4, <2>4 DEF SchedFor
      <3>2. SchedLeft' < SchedLeft
        BY <2>1, <2>4, <3>1, <1>g, CopyLength, FewerLeft DEF SchedLeft
      <3> QED
        BY <1>4, <1>b, <2>4, <3>1, <3>2 DEF SchedFor, ExecRank
    <2> QED
      BY <2>2, <2>3, <2>4
  <1>5. CASE SchedRun
    <2>1. SchedLeft' = SchedLeft /\ execPc' = "actTop"
      BY <1>5 DEF SchedRun, SchedLeft
    <2> QED
      BY <1>5, <1>c, <2>1 DEF SchedRun, ExecRank
  <1>6. CASE SchedNext
    <2>1. CASE taskCopy.loop
      <3>1. schedIndex' = schedIndex + 1 /\ execPc' = "schedFor" /\ taskCopy' = taskCopy
        BY <1>6, <2>1 DEF SchedNext
      <3>2. SchedLeft' < AtLeast1(SchedLeft)
        BY <3>1, <1>g, CopyLength, FewerLeft DEF SchedLeft
      <3> QED
        BY <1>6, <1>b, <1>c, <3>1, <3>2 DEF SchedNext, ExecRank
    <2>2. CASE ~taskCopy.loop
      BY <1>6, <1>c, <2>2 DEF SchedNext, ExecRank
    <2> QED
      BY <2>1, <2>2
  <1>7. CASE ActTop
    <2>1. SchedLeft' = SchedLeft /\ execPc' \in {"loopCond", "schedNext", "outer"}
      BY <1>7 DEF ActTop, SchedLeft
    <2> QED
      BY <1>7, <1>c, <2>1 DEF ActTop, ExecRank
  <1>8. CASE ActWait \/ Fail \/ ChainTop
    <2>1. CASE ActWait
      BY <2>1 DEF ActWait
    <2>2. CASE Fail
      BY <2>2 DEF Fail
    <2>3. CASE ChainTop
      BY <2>3 DEF ChainTop
    <2> QED
      BY <1>8, <2>1, <2>2, <2>3
  <1>9. CASE Announce
    BY <1>9 DEF Announce
  <1>10. CASE Dispatch
    <2>1. execPc' \in {"delay", "nav", "fail", "call"}
      BY <1>10, Zenon DEF Dispatch
    <2> QED
      BY <1>10, <2>1 DEF Dispatch
  <1>11. CASE CallSucceeds \/ CallFails \/ NavQuery
    <2>1. ExecRank \in {20, 21} /\ (NavQuery => ExecRank = 21)
      BY <1>11 DEF CallSucceeds, CallFails, NavQuery
    <2>2. execPc' \in {"actTop", "chainTop", "fail"}
            \/ (NavQuery /\ execPc' = "nav")
      BY <1>11 DEF CallSucceeds, CallFails, NavQuery, Proceed
    <2>3. ExecRank' < ExecRank
      BY <2>1, <2>2, <1>c DEF ExecRank
    <2> QED
      BY <1>11, <2>2, <2>3 DEF CallSucceeds, CallFails, NavQuery
  <1>12. CASE Delay \/ DelayWait \/ DelayEnd
    <2>1. CASE Delay
      BY <2>1 DEF Delay
    <2>2. CASE DelayWait
      BY <2>2 DEF DelayWait, WaitForResume
    <2>3. CASE DelayEnd
      BY <2>3 DEF DelayEnd
    <2> QED
      BY <1>12, <2>1, <2>2, <2>3
  <1>13. CASE Nav
    <2>1. execPc' = "navEnd"
      BY <1>13 DEF Nav
    <2> QED
      BY <1>13, <2>1 DEF Nav
  <1>14. CASE NavWait \/ NavTimeout \/ NavQueryFails \/ NavEnd
    <2>1. CASE NavWait
      BY <2>1 DEF NavWait, WaitForResume
    <2>2. CASE NavTimeout
      BY <2>2 DEF NavTimeout
    <2>3. CASE NavQueryFails
      BY <2>3 DEF NavQueryFails
    <2>4. CASE NavEnd
      BY <2>4 DEF NavEnd
    <2> QED
      BY <1>14, <2>1, <2>2, <2>3, <2>4
  <1> QED
    BY <1>1, <1>2, <1>3, <1>4, <1>5, <1>6, <1>7, <1>8, <1>9, <1>10, <1>11,
       <1>12, <1>13, <1>14 DEF ExecStep

LEMMA MarkRunLength ==
  ASSUME currentTask \in TaskRecords, schedIndex \in Nat \ {0}, MarkRun
  PROVE  Len(currentTask'.schedules) = Len(currentTask.schedules)
  <1>1. CASE schedIndex \notin DOMAIN currentTask.schedules
    BY <1>1 DEF MarkRun
  <1>2. CASE schedIndex \in DOMAIN currentTask.schedules
    <2> DEFINE old == currentTask.schedules
               new == [old EXCEPT ![schedIndex].lastRun = Day(now)]
    <2>1. old \in Seq(Schedules)
      BY DEF TaskRecords
    <2>2. currentTask'.schedules = new
      BY <1>2 DEF MarkRun, TaskRecords
    <2> HIDE DEF old
    <2>3. DOMAIN new = 1..Len(old)
      BY <2>1
    <2>4. Len(new) = Len(old)
      BY <2>1, <2>3, LenProperties
    <2> QED
      BY <2>2, <2>4 DEF old
  <1> QED
    BY <1>1, <1>2

\* What the steps of the executor leave of the rest.
LEMMA ExecLeaves ==
  ASSUME TypeInv, ExecStep
  PROVE  /\ UNCHANGED <<isRunning, isPaused, shouldCancel, threads>>
         /\ execPc # "unborn" /\ execPc' # "unborn"
         /\ cv' # "awake" => /\ execPc' = execPc
                             /\ execPc = "wait" \/ isPaused \/ cv # "awake"
         /\ Len(currentTask'.schedules) = Len(currentTask.schedules)
         /\ taskCopy' \in {taskCopy, NoTask, currentTask}
  <1>a. cv # "awake" => execPc \in {"wait", "actWait", "delayWait", "navWait"}
    BY DEF TypeInv, ExecInv
  <1> USE <1>a DEF flags, shared, running, sched, world, threads
  <1>1. CASE Outer \/ DoTop \/ CopyTask \/ LoopCond
    BY <1>1 DEF Outer, DoTop, CopyTask, LoopCond
  <1>2. CASE WaitForTask \/ FallAsleep
    BY <1>2 DEF WaitForTask, FallAsleep
  <1>3. CASE SchedTop \/ SchedRun \/ SchedNext \/ SchedNap
    BY <1>3 DEF SchedTop, SchedRun, SchedNext, SchedNap
  <1>4. CASE SchedFor
    <2>1. Len(currentTask'.schedules) = Len(currentTask.schedules)
      BY <1>4, MarkRunLength DEF SchedFor, TypeInv, TypeOK
    <2> QED
      BY <1>4, <2>1 DEF SchedFor
  <1>5. CASE ActTop \/ ChainTop \/ Fail
    BY <1>5 DEF ActTop, ChainTop, Fail
  <1>6. CASE Announce \/ CallFails
    BY <1>6 DEF Announce, CallFails
  <1>7. CASE Dispatch
    <2>1. execPc' \in {"delay", "nav", "fail", "call"}
      BY <1>7, Zenon DEF Dispatch
    <2> QED
      BY <1>7, <2>1 DEF Dispatch
  <1>8. CASE ActWait
    BY <1>8 DEF ActWait
  <1>9. CASE DelayWait \/ NavWait
    BY <1>9 DEF DelayWait, NavWait, WaitForResume
  <1>10. CASE CallSucceeds \/ DelayEnd
    BY <1>10 DEF CallSucceeds, DelayEnd, Proceed
  <1>11. CASE NavQuery
    <2>1. execPc' \in {"actTop", "chainTop", "fail", "nav"}
      BY <1>11 DEF NavQuery, Proceed
    <2> QED
      BY <1>11, <2>1 DEF NavQuery
  <1>12. CASE Nav
    <2>1. execPc' \in {"navEnd", "navWait", "navQuery"}
      BY <1>12, Zenon DEF Nav
    <2> QED
      BY <1>12, <2>1 DEF Nav
  <1>13. CASE Delay \/ NavTimeout \/ NavQueryFails \/ NavEnd
    BY <1>13 DEF Delay, NavTimeout, NavQueryFails, NavEnd
  <1> QED
    BY <1>1, <1>2, <1>3, <1>4, <1>5, <1>6, <1>7, <1>8, <1>9, <1>10, <1>11,
       <1>12, <1>13 DEF ExecStep

LEMMA WaitInvNext == TypeInv /\ WaitInv /\ [Next]_vars => WaitInv'
  <1> SUFFICES ASSUME TypeInv, WaitInv, [Next]_vars PROVE WaitInv'
    OBVIOUS
  <1>1. CASE ExecStep
    BY <1>1, ExecLeaves DEF WaitInv, threads
  <1>2. CASE SrvRequest \/ SrvContinue \/ MainContinue \/ StopClient \/ World
    BY <1>2, OthersLeave DEF WaitInv, TypeInv, ExecInv
  <1>3. CASE UNCHANGED vars
    BY <1>3 DEF WaitInv, vars, flags, threads
  <1> QED
    BY <1>1, <1>2, <1>3 DEF Next

LEMMA ShortInvNext ==
  FewSchedules /\ TypeInv /\ ShortInv /\ [Next]_vars => ShortInv'
  <1> SUFFICES ASSUME FewSchedules, TypeInv, ShortInv, [Next]_vars
               PROVE  ShortInv'
    OBVIOUS
  <1>1. Len(NoTask.schedules) <= MostSchedules
    BY DEF NoTask, MostSchedules
  <1>2. CASE ExecStep
    BY <1>1, <1>2, ExecLeaves DEF ShortInv
  <1>3. CASE SrvRequest \/ SrvContinue \/ MainContinue \/ StopClient \/ World
    BY <1>3, OthersLeave DEF ShortInv, FewSchedules, running
  <1>4. CASE UNCHANGED vars
    BY <1>4 DEF ShortInv, vars, shared, running
  <1> QED
    BY <1>2, <1>3, <1>4 DEF Next

\* The invariant of what follows.
RestInv == TypeInv /\ NoLostUpload /\ WaitInv /\ ShortInv

LEMMA RestInvariance == ASSUME FewSchedules PROVE Spec => []RestInv
  <1>1. Init => WaitInv /\ ShortInv
    BY DEF Init, WaitInv, ShortInv, NoTask, MostSchedules
  <1>2. Init => NoLostUpload
    BY DEF Init, NoLostUpload
  <1>3. WaitInv /\ ShortInv /\ TypeInv /\ [Next]_vars => WaitInv' /\ ShortInv'
    BY WaitInvNext, ShortInvNext
  <1> QED
    BY <1>1, <1>2, <1>3, TypeInit, TypeNext, NoLostUploadNext, PTL
    DEF Spec, RestInv

Terminated == shouldCancel /\ srvPc # "relock"
Rested == ~shouldCancel \/ Idle \/ srvPc = "relock"

\* A terminated run, with and without an upload behind it, so many steps from
\* its end.
RunAt(b, n) == Terminated /\ hasNewTask = b /\ OnItsWay /\ ExecRank = n
RunBelow(b, n) == Terminated /\ hasNewTask = b /\ OnItsWay /\ ExecRank < n

\* The executor waits and has an upload to take.
Full == Terminated /\ execPc = "wait" /\ hasNewTask = TRUE
FullIf(b) == b = TRUE /\ Full

RunFalls(b, n) == [](RunAt(b, n) => <>(RunBelow(b, n) \/ FullIf(b) \/ Rested))

LEMMA RunSteps ==
  ASSUME FewSchedules, NEW b \in BOOLEAN, NEW n \in 1..22
  PROVE  FairSpec /\ []NoThreadStuck => RunFalls(b, n)
  <1> DEFINE Less == RunBelow(b, n) \/ FullIf(b) \/ Rested
  <1>1. RestInv /\ RestInv' /\ RunAt(b, n) /\ ExecStep => Less'
    <2> SUFFICES ASSUME RestInv, RestInv', RunAt(b, n), ExecStep, ~Rested'
                 PROVE  RunBelow(b, n)' \/ FullIf(b)'
      OBVIOUS
    <2>1. /\ hasNewTask' = hasNewTask /\ shouldCancel' /\ srvPc' = srvPc
          /\ ExecStops \/ ExecNears
      BY ExecFalls DEF RestInv, RunAt, Terminated
    <2>2. CASE ExecNears
      BY <2>1, <2>2 DEF ExecNears, OnItsWay, RunAt, RunBelow, Terminated
    <2>3. CASE ExecStops
      BY <2>1, <2>3 DEF ExecStops, RunAt, Rested, Idle, FullIf, Full, Terminated
    <2> QED
      BY <2>1, <2>2, <2>3
  <1>2. RestInv /\ RestInv' /\ RunAt(b, n) /\ [Next]_vars => RunAt(b, n)' \/ Less'
    <2> SUFFICES ASSUME RestInv, RunAt(b, n), [Next]_vars, ~ExecStep, ~Rested'
                 PROVE  RunAt(b, n)'
      BY <1>1
    <2>1. CASE SrvRequest \/ SrvContinue \/ MainContinue \/ StopClient \/ World
      <3>1. execPc' = execPc /\ UNCHANGED <<running, sched>>
        BY <2>1, OthersLeave DEF RestInv, TypeInv, ExecInv, RunAt, OnItsWay
      <3>2. hasNewTask' = hasNewTask /\ Terminated'
        BY <2>1, OthersLeave DEF RestInv, Rested, Terminated
      <3>3. ExecRank' = ExecRank
        BY <3>1 DEF ExecRank, SchedLeft, running, sched
      <3> QED
        BY <3>1, <3>2, <3>3 DEF RunAt, OnItsWay
    <2>2. CASE UNCHANGED vars
      <3>1. ExecRank' = ExecRank
        BY <2>2 DEF ExecRank, SchedLeft, vars, running, sched
      <3> QED
        BY <2>2, <3>1 DEF RunAt, OnItsWay, Terminated, vars, flags, threads
    <2> QED
      BY <2>1, <2>2 DEF Next
  <1>3. RestInv /\ RunAt(b, n) => (NoThreadStuck => ExecCanStep)
    BY DEF RestInv, WaitInv, RunAt, OnItsWay, Terminated, NoThreadStuck,
       StatusMutexFree
  <1>4. RestInv /\ RestInv' /\ RunAt(b, n) /\ <<ExecStep>>_vars => Less'
    BY <1>1
  <1> HIDE DEF Less
  <1>5. Spec => []RestInv
    BY RestInvariance
  <1>6. Less => RunBelow(b, n) \/ FullIf(b) \/ Rested
    BY DEF Less
  <1> QED
    BY <1>2, <1>3, <1>4, <1>5, <1>6, PTL DEF FairSpec, Spec, ExecCanStep, RunFalls

RunComesOut(b) == [](RunBelow(b, 23) => <>(FullIf(b) \/ Rested))

\* A terminated run ends, in the wait if an upload is behind it.
LEMMA RunEnds ==
  ASSUME FewSchedules, NEW b \in BOOLEAN
  PROVE  FairSpec /\ []NoThreadStuck => RunComesOut(b)
  <1>1a. FairSpec /\ []NoThreadStuck
          => /\ RunFalls(b, 1) /\ RunFalls(b, 2) /\ RunFalls(b, 3)
             /\ RunFalls(b, 4) /\ RunFalls(b, 5) /\ RunFalls(b, 6)
    BY RunSteps
  <1>1b. FairSpec /\ []NoThreadStuck
          => /\ RunFalls(b, 7) /\ RunFalls(b, 8) /\ RunFalls(b, 9)
             /\ RunFalls(b, 10) /\ RunFalls(b, 11) /\ RunFalls(b, 12)
    BY RunSteps
  <1>1c. FairSpec /\ []NoThreadStuck
          => /\ RunFalls(b, 13) /\ RunFalls(b, 14) /\ RunFalls(b, 15)
             /\ RunFalls(b, 16) /\ RunFalls(b, 17) /\ RunFalls(b, 18)
    BY RunSteps
  <1>1d. FairSpec /\ []NoThreadStuck
          => /\ RunFalls(b, 19) /\ RunFalls(b, 20) /\ RunFalls(b, 21)
             /\ RunFalls(b, 22)
    BY RunSteps
  <1>2. RestInv
          => /\ ~RunBelow(b, 1)
             /\ RunBelow(b, 2) => RunAt(b, 1) \/ RunBelow(b, 1)
             /\ RunBelow(b, 3) => RunAt(b, 2) \/ RunBelow(b, 2)
             /\ RunBelow(b, 4) => RunAt(b, 3) \/ RunBelow(b, 3)
             /\ RunBelow(b, 5) => RunAt(b, 4) \/ RunBelow(b, 4)
             /\ RunBelow(b, 6) => RunAt(b, 5) \/ RunBelow(b, 5)
             /\ RunBelow(b, 7) => RunAt(b, 6) \/ RunBelow(b, 6)
             /\ RunBelow(b, 8) => RunAt(b, 7) \/ RunBelow(b, 7)
             /\ RunBelow(b, 9) => RunAt(b, 8) \/ RunBelow(b, 8)
             /\ RunBelow(b, 10) => RunAt(b, 9) \/ RunBelow(b, 9)
             /\ RunBelow(b, 11) => RunAt(b, 10) \/ RunBelow(b, 10)
             /\ RunBelow(b, 12) => RunAt(b, 11) \/ RunBelow(b, 11)
             /\ RunBelow(b, 13) => RunAt(b, 12) \/ RunBelow(b, 12)
             /\ RunBelow(b, 14) => RunAt(b, 13) \/ RunBelow(b, 13)
             /\ RunBelow(b, 15) => RunAt(b, 14) \/ RunBelow(b, 14)
             /\ RunBelow(b, 16) => RunAt(b, 15) \/ RunBelow(b, 15)
             /\ RunBelow(b, 17) => RunAt(b, 16) \/ RunBelow(b, 16)
             /\ RunBelow(b, 18) => RunAt(b, 17) \/ RunBelow(b, 17)
             /\ RunBelow(b, 19) => RunAt(b, 18) \/ RunBelow(b, 18)
             /\ RunBelow(b, 20) => RunAt(b, 19) \/ RunBelow(b, 19)
             /\ RunBelow(b, 21) => RunAt(b, 20) \/ RunBelow(b, 20)
             /\ RunBelow(b, 22) => RunAt(b, 21) \/ RunBelow(b, 21)
             /\ RunBelow(b, 23) => RunAt(b, 22) \/ RunBelow(b, 22)
    BY ExecRankType DEF RestInv, RunAt, RunBelow, TopRank, MostSchedules
  <1>4. Spec => []RestInv
    BY RestInvariance
  <1> QED
    BY <1>1a, <1>1b, <1>1c, <1>1d, <1>2, <1>4, PTL
    DEF FairSpec, RunFalls, RunComesOut

\* The notification of the upload is on its way: see NoLostUpload.
FullAsleep == Full /\ cv = "asleep"
FullAwake == Full /\ cv = "awake"

LEMMA FullSteps ==
  ASSUME FewSchedules
  PROVE  FairSpec /\ []NoThreadStuck
           => /\ [](FullAsleep => <>(FullAwake \/ Rested))
              /\ [](FullAwake => <>(RunBelow(FALSE, 23) \/ Rested))
  <1>1. RestInv /\ Full /\ ExecStep
          => FullAwake /\ (RunBelow(FALSE, 23) \/ Rested)'
    <2> SUFFICES ASSUME RestInv, Full, ExecStep
                 PROVE  FullAwake /\ (RunBelow(FALSE, 23) \/ Rested)'
      OBVIOUS
    <2>1. WaitForTask /\ cv = "awake"
      <3>1. cv # "blocking"
        BY DEF RestInv, NoLostUpload, Full
      <3> QED
        BY <3>1 DEF Full, ExecStep, Outer, WaitForTask, FallAsleep, DoTop,
           CopyTask, LoopCond, SchedTop, SchedFor, SchedRun, SchedNext,
           SchedNap, ActTop, ActWait, Announce, Dispatch, ChainTop, Fail,
           CallSucceeds, CallFails, Delay, DelayWait, WaitForResume, DelayEnd,
           Nav, NavWait, NavTimeout, NavQueryFails, NavQuery, NavEnd
    <2>2. CASE isRunning
      <3>1. execPc' = "doTop" /\ hasNewTask' = FALSE /\ Terminated'
        BY <2>1, <2>2 DEF WaitForTask, Full, Terminated, threads
      <3>2. ExecRank' = 2
        BY <3>1 DEF ExecRank
      <3> QED
        BY <2>1, <3>1, <3>2 DEF FullAwake, RunBelow, OnItsWay
    <2>3. CASE ~isRunning
      BY <2>1, <2>3 DEF WaitForTask, Full, FullAwake, Rested, Idle
    <2> QED
      BY <2>2, <2>3
  <1>2. ASSUME RestInv, Full, [Next]_vars, ~ExecStep
        PROVE  (Full' /\ (FullAwake => FullAwake') /\ (FullAwake' \/ cv' = cv)) \/ Rested'
    <2>1. CASE SrvRequest \/ SrvContinue \/ MainContinue \/ StopClient \/ World
      BY <1>2, <2>1, OthersLeave DEF RestInv, TypeInv, ExecInv, Full, FullAwake,
         Rested, Terminated
    <2>2. CASE UNCHANGED vars
      BY <1>2, <2>2 DEF Full, FullAwake, Terminated, vars, flags, threads
    <2> QED
      BY <1>2, <2>1, <2>2 DEF Next
  <1>3. RestInv /\ FullAsleep /\ [Next]_vars
          => (FullAsleep \/ FullAwake \/ Rested)'
    BY <1>1, <1>2 DEF FullAsleep, FullAwake
  <1>4. RestInv /\ FullAsleep /\ <<SrvContinue>>_vars => (FullAwake \/ Rested)'
    <2> SUFFICES ASSUME RestInv, FullAsleep, SrvContinue PROVE FullAwake'
      OBVIOUS
    <2>1. UploadNotify
      BY DEF RestInv, NoLostUpload, FullAsleep, Full, SrvContinue, SrvLoop,
         SrvTimeout, TerminateNotify, TerminateNav
    <2> QED
      BY <2>1 DEF UploadNotify, NotifyAll, FullAsleep, FullAwake, Full, Terminated,
         flags, threads
  <1>5. RestInv /\ FullAsleep => (NoThreadStuck => SrvCanStep)
    BY DEF RestInv, NoLostUpload, FullAsleep, Full, NoThreadStuck
  <1>6. RestInv /\ FullAwake /\ [Next]_vars
          => (FullAwake \/ RunBelow(FALSE, 23) \/ Rested)'
    BY <1>1, <1>2 DEF FullAwake
  <1>7. RestInv /\ FullAwake /\ <<ExecStep>>_vars => (RunBelow(FALSE, 23) \/ Rested)'
    BY <1>1 DEF FullAwake
  <1>8. RestInv /\ FullAwake => (NoThreadStuck => ExecCanStep)
    BY DEF FullAwake, Full, Terminated, NoThreadStuck, StatusMutexFree
  <1>9. Spec => []RestInv
    BY RestInvariance
  <1> QED
    BY <1>3, <1>4, <1>5, <1>6, <1>7, <1>8, <1>9, PTL
    DEF FairSpec, Spec, SrvCanStep, ExecCanStep

\* Terminated before Start has started the executor.
Newborn == Terminated /\ execPc = "unborn"

LEMMA NewbornSteps ==
  ASSUME FewSchedules
  PROVE  FairSpec /\ []NoThreadStuck
           => [](Newborn => <>(RunBelow(TRUE, 23) \/ RunBelow(FALSE, 23) \/ Rested))
  <1> DEFINE Born == RunBelow(TRUE, 23) \/ RunBelow(FALSE, 23) \/ Rested
  <1>1. ASSUME RestInv, Newborn, [Next]_vars
        PROVE  (execPc' = execPc /\ Newborn') \/ Born'
    <2> SUFFICES ASSUME ~Rested'
                 PROVE  \/ execPc' = execPc /\ Newborn'
                        \/ RunBelow(TRUE, 23)' \/ RunBelow(FALSE, 23)'
      OBVIOUS
    <2>1. ~ExecStep
      BY <1>1, ExecLeaves DEF RestInv, Newborn
    <2>2. CASE SrvRequest \/ SrvContinue \/ MainContinue \/ StopClient \/ World
      <3>1. execPc' = execPc \/ execPc' = "outer"
        BY <1>1, <2>2, OthersLeave DEF RestInv
      <3>2. hasNewTask' = hasNewTask /\ Terminated'
        BY <1>1, <2>2, OthersLeave DEF RestInv, Rested, Terminated
      <3>3. hasNewTask' \in BOOLEAN
        BY <1>1, <3>2 DEF RestInv, TypeInv, TypeOK
      <3>4. execPc' = "outer" => ExecRank' = 1
        BY DEF ExecRank
      <3> QED
        BY <1>1, <3>1, <3>2, <3>3, <3>4 DEF Newborn, RunBelow, OnItsWay
    <2>3. CASE UNCHANGED vars
      BY <1>1, <2>3 DEF Newborn, Terminated, vars, flags, threads
    <2> QED
      BY <1>1, <2>1, <2>2, <2>3 DEF Next
  <1>2. RestInv /\ Newborn /\ [Next]_vars => Newborn' \/ Born'
    BY <1>1
  <1>3. RestInv /\ Newborn /\ <<MainContinue>>_vars => Born'
    <2> SUFFICES ASSUME RestInv, Newborn, MainContinue PROVE Born'
      OBVIOUS
    <2>1. execPc' = "outer"
      BY DEF RestInv, WaitInv, Newborn, MainContinue, StartTaskManager,
         StopRunning, StopFlags, StopNotify, StopNav, StopJoin
    <2> QED
      BY <1>1, <2>1 DEF Newborn, Next
  <1>4. RestInv /\ Newborn => (NoThreadStuck => MainCanStep)
    BY DEF RestInv, WaitInv, Newborn, NoThreadStuck
  <1> HIDE DEF Born
  <1>5. Born => RunBelow(TRUE, 23) \/ RunBelow(FALSE, 23) \/ Rested
    BY DEF Born
  <1>6. Spec => []RestInv
    BY RestInvariance
  <1> QED
    BY <1>2, <1>3, <1>4, <1>5, <1>6, PTL DEF FairSpec, Spec, MainCanStep

\* A terminated executor comes to rest (TerminateTakesEffect), for any chains,
\* any uploads of tasks with few schedules and any requests.
THEOREM TerminationWorks ==
  ASSUME FewSchedules
  PROVE  FairSpec /\ []GuardsEnable => TerminateTakesEffect
  <1>1. FairSpec /\ []NoThreadStuck => RunComesOut(TRUE) /\ RunComesOut(FALSE)
    BY RunEnds
  <1>2. RestInv /\ shouldCancel
          => \/ Rested \/ Newborn \/ FullAsleep \/ FullAwake
             \/ RunBelow(TRUE, 23) \/ RunBelow(FALSE, 23)
    <2> SUFFICES ASSUME RestInv, shouldCancel, ~Rested, ~Newborn
                 PROVE  \/ FullAsleep \/ FullAwake
                        \/ RunBelow(TRUE, 23) \/ RunBelow(FALSE, 23)
      OBVIOUS
    <2>1. /\ hasNewTask \in BOOLEAN /\ ExecRank < 23
          /\ cv \in {"awake", "blocking", "asleep"}
      BY ExecRankType DEF RestInv, TypeInv, TypeOK, TopRank, MostSchedules
    <2>2. CASE execPc = "wait"
      BY <2>1, <2>2 DEF RestInv, NoLostUpload, Rested, Idle, Terminated, Full,
         FullAsleep, FullAwake
    <2>3. CASE execPc # "wait"
      BY <2>1, <2>3 DEF Rested, Idle, Newborn, Terminated, RunBelow, OnItsWay
    <2> QED
      BY <2>2, <2>3
  <1>3. ~FullIf(FALSE) /\ (RestInv /\ FullIf(TRUE) => FullAsleep \/ FullAwake)
    BY DEF FullIf, RestInv, TypeInv, TypeOK, NoLostUpload, Full, FullAsleep,
       FullAwake
  <1>4. Rested => ~shouldCancel \/ Idle \/ srvPc = "relock"
    BY DEF Rested
  <1>5. Spec => []RestInv
    BY RestInvariance
  <1> QED
    BY <1>1, <1>2, <1>3, <1>4, <1>5, FullSteps, NewbornSteps, ThreadsGoOn, PTL
    DEF FairSpec, RunComesOut, TerminateTakesEffect

-----------------------------------------------------------------------------
(* Stop joins the executor.  The server thread may still answer one request *)
(* when Stop has been called, and an upload among them takes the            *)
(* termination back: the executor then runs on until it looks at            *)
(* is_running_, which the chain of a map switch does not.                   *)

MostInChain == 4

\* Chains that end: no action of one loads another.
ShortChains ==
    \A c \in Chains :
        /\ Len(c) <= MostInChain
        /\ \A i \in 1..Len(c) : c[i] # "SwitchMapChain"

\* What is left of an action is the action itself, or of one chain.
ChainInv ==
    /\ Len(pending) <= MostInChain
    /\ \A i \in 1..Len(pending) : pending[i] = "SwitchMapChain" => Len(pending) = 1

JoinInv == isRunning => mainPc \in {"run", "tmStop"}

Work == IF pending = <<"SwitchMapChain">> THEN MostInChain + 1 ELSE Len(pending)

LEMMA WorkType ==
  ASSUME TypeInv, ChainInv
  PROVE  Work \in 0..5 /\ (execPc \in InAction => Work # 0)
  <1>1. Len(pending) \in Nat /\ (pending # <<>> => Len(pending) # 0)
    BY LenProperties, EmptySeq DEF TypeInv, TypeOK
  <1>2. Work \in 0..5 /\ (Len(pending) # 0 => Work # 0)
    <2>1. CASE pending = <<"SwitchMapChain">>
      BY <2>1 DEF Work, MostInChain
    <2>2. CASE pending # <<"SwitchMapChain">>
      <3>1. Work = Len(pending)
        BY <2>2 DEF Work
      <3>2. Len(pending) <= 4
        BY DEF ChainInv, MostInChain
      <3> QED
        BY <1>1, <3>1, <3>2
    <2> QED
      BY <2>1, <2>2
  <1> QED
    BY <1>1, <1>2 DEF TypeInv, ExecInv

LEMMA ProceedWork ==
  ASSUME TypeInv, ChainInv, ShortChains, pending # <<>>,
         \/ Proceed(Tail(pending))
         \/ /\ Head(pending) = "SwitchMapChain"
            /\ \E chain \in Chains : Proceed(chain \o Tail(pending))
  PROVE  /\ ChainInv'
         /\ execPc' = "actTop" \/ (execPc' = "chainTop" /\ Work' < Work)
  <1>1. pending \in Seq(ActionTypes) /\ Len(pending) \in Nat /\ Len(pending) >= 1
    BY LenProperties, EmptySeq DEF TypeInv, TypeOK
  <1>2. Tail(pending) \in Seq(ActionTypes) /\ Len(Tail(pending)) = Len(pending) - 1
    BY <1>1
  <1>3. \A i \in 1..Len(Tail(pending)) : Tail(pending)[i] = pending[i + 1]
    BY <1>1
  <1>4. CASE Proceed(Tail(pending))
    <2>1. pending' = Tail(pending)
      BY <1>4 DEF Proceed
    <2>2. ASSUME NEW i \in 1..Len(Tail(pending)), Tail(pending)[i] = "SwitchMapChain"
          PROVE  FALSE
      BY <1>1, <1>2, <1>3, <2>2 DEF ChainInv
    <2>3. ChainInv'
      BY <1>1, <1>2, <2>1, <2>2 DEF ChainInv, MostInChain
    <2>4. CASE Tail(pending) = <<>>
      BY <1>4, <2>3, <2>4 DEF Proceed
    <2>5. CASE Tail(pending) # <<>>
      <3>1. Len(pending) # 1 /\ Len(pending') # 0
        BY <1>1, <1>2, <2>1, <2>5, EmptySeq
      <3>2. pending # <<"SwitchMapChain">>
        BY <3>1
      <3>3. pending' # <<"SwitchMapChain">>
        <4> DEFINE t == Tail(pending)
        <4>1. ASSUME t = <<"SwitchMapChain">> PROVE FALSE
          <5>1. ~(\E i \in 1..Len(t) : t[i] = "SwitchMapChain")
            BY <2>2
          <5> HIDE DEF t
          <5> QED
            BY <4>1, <5>1
        <4> QED
          BY <2>1, <4>1
      <3>4. Work = Len(pending) /\ Work' = Len(pending) - 1
        BY <1>2, <2>1, <3>2, <3>3 DEF Work
      <3> QED
        BY <1>1, <1>4, <2>3, <2>5, <3>4 DEF Proceed
    <2> QED
      BY <2>4, <2>5
  <1>5. ASSUME Head(pending) = "SwitchMapChain", NEW chain \in Chains,
               Proceed(chain \o Tail(pending))
        PROVE  /\ ChainInv'
               /\ execPc' = "actTop" \/ (execPc' = "chainTop" /\ Work' < Work)
    <2>1. pending[1] = "SwitchMapChain"
      BY <1>1, <1>5
    <2>2. Len(pending) = 1
      BY <1>1, <2>1 DEF ChainInv
    <2>3. pending = <<"SwitchMapChain">>
      BY <1>1, <2>1, <2>2
    <2>4. Tail(pending) = <<>>
      BY <2>3
    <2>5. chain \in Seq(ActionTypes) /\ Len(chain) \in Nat
      BY ChainsAssumption, LenProperties
    <2>6. chain \o Tail(pending) = chain
      BY <2>4, <2>5, ConcatEmptySeq
    <2>7. pending' = chain
      BY <1>5, <2>6 DEF Proceed
    <2>8. Len(chain) <= 4 /\ \A i \in 1..Len(chain) : chain[i] # "SwitchMapChain"
      BY DEF ShortChains, MostInChain
    <2>9. ChainInv'
      BY <2>5, <2>7, <2>8 DEF ChainInv, MostInChain
    <2>10. pending' # <<"SwitchMapChain">>
      BY <2>7, <2>8
    <2>11. Work' < Work
      BY <2>3, <2>5, <2>7, <2>8, <2>10 DEF Work, MostInChain
    <2> QED
      BY <1>5, <2>9, <2>11 DEF Proceed
  <1> QED
    BY <1>4, <1>5

LEMMA ChainInvNext ==
  ShortChains /\ TypeInv /\ ChainInv /\ [Next]_vars => ChainInv'
  <1> SUFFICES ASSUME ShortChains, TypeInv, ChainInv, [Next]_vars
               PROVE  ChainInv'
    OBVIOUS
  <1>1. pending' = pending => ChainInv'
    BY DEF ChainInv
  <1>2. CASE ExecStep
    <2> USE DEF running
    <2>1. CASE Outer
      BY <2>1 DEF Outer, ChainInv, MostInChain
    <2>2. CASE Announce
      BY <2>2 DEF Announce, ChainInv, MostInChain
    <2>3. CASE CallSucceeds
      BY <2>3, ProceedWork DEF CallSucceeds, TypeInv, ExecInv, InAction
    <2>4. CASE DelayEnd
      BY <1>1, <2>4, ProceedWork DEF DelayEnd, TypeInv, ExecInv, InAction
    <2>5. CASE NavQuery
      BY <1>1, <2>5, ProceedWork DEF NavQuery, TypeInv, ExecInv, InAction
    <2>6. CASE ~(Outer \/ Announce \/ CallSucceeds \/ DelayEnd \/ NavQuery)
      <3>1. pending' = pending
        BY <1>2, <2>6 DEF ExecStep, WaitForTask, FallAsleep, DoTop, CopyTask,
           LoopCond, SchedTop, SchedFor, SchedRun, SchedNext, SchedNap, ActTop,
           ActWait, Dispatch, ChainTop, Fail, CallFails, Delay, DelayWait,
           WaitForResume, Nav, NavWait, NavTimeout, NavQueryFails, NavEnd
      <3> QED
        BY <1>1, <3>1
    <2> QED
      BY <2>1, <2>2, <2>3, <2>4, <2>5, <2>6
  <1>3. CASE SrvRequest \/ SrvContinue \/ MainContinue \/ StopClient \/ World
    BY <1>1, <1>3, OthersLeave DEF running
  <1>4. CASE UNCHANGED vars
    BY <1>1, <1>4 DEF vars, running
  <1> QED
    BY <1>2, <1>3, <1>4 DEF Next

LEMMA JoinInvNext == TypeInv /\ JoinInv /\ [Next]_vars => JoinInv'
  <1> SUFFICES ASSUME TypeInv, JoinInv, [Next]_vars PROVE JoinInv'
    OBVIOUS
  <1> USE DEF JoinInv, flags, threads
  <1>1. CASE ExecStep
    BY <1>1, ExecLeaves
  <1>2. CASE SrvRequest
    BY <1>2 DEF SrvRequest, Upload, Terminate, Pause, Resume, OperatorGoal,
       OperatorCancelNav
  <1>3. CASE SrvContinue
    BY <1>3 DEF SrvContinue, SrvLoop, SrvTimeout, UploadNotify, TerminateNotify,
       TerminateNav
  <1>4. CASE MainContinue \/ StopClient
    BY <1>4 DEF MainContinue, StartTaskManager, StopRunning, StopFlags,
       StopNotify, StopNav, StopJoin, StopClient
  <1>5. CASE World
    BY <1>5 DEF World, Tick, GoalStep, SpuriousWakeup
  <1>6. CASE UNCHANGED vars
    BY <1>6 DEF vars
  <1> QED
    BY <1>1, <1>2, <1>3, <1>4, <1>5, <1>6 DEF Next

\* The invariant of what follows.
StopInv == RestInv /\ ChainInv /\ JoinInv

LEMMA StopInvariance ==
  ASSUME FewSchedules, ShortChains
  PROVE  Spec => []StopInv
  <1>1. Init => ChainInv /\ JoinInv
    BY DEF Init, ChainInv, JoinInv, MostInChain
  <1>2. RestInv /\ ChainInv /\ JoinInv /\ [Next]_vars => ChainInv' /\ JoinInv'
    BY ChainInvNext, JoinInvNext DEF RestInv
  <1> QED
    BY <1>1, <1>2, RestInvariance, PTL DEF Spec, StopInv

\* How far a stopped executor is from its end.
StopRank ==
    CASE execPc = "outer" -> 1
      [] execPc \in {"loopCond", "schedTop", "schedNap", "actWait", "fail",
                     "failCancelled"} -> 2
      [] execPc = "schedFor" -> 4 * SchedLeft + 3
      [] execPc = "schedNext" -> 4 * AtLeast1(SchedLeft)
      [] execPc = "actTop" -> 4 * AtLeast1(SchedLeft) + 1
      [] execPc = "schedRun" -> 4 * AtLeast1(SchedLeft) + 2
      [] execPc = "copy" -> 20
      [] execPc = "doTop" -> 21
      [] execPc \in {"delayEnd", "navEnd"} -> 4 * Work + 16
      [] execPc \in {"call", "delay", "delayWait", "nav", "navWait"}
            -> 4 * Work + 17
      [] execPc \in {"dispatch", "navQuery"} -> 4 * Work + 18
      [] execPc = "chainTop" -> 4 * Work + 19
      [] OTHER -> 39

StopNears == execPc' \notin {"unborn", "wait", "done"} /\ StopRank' < StopRank

LEMMA WorkTypeNext ==
  ASSUME TypeInv', ChainInv'
  PROVE  Work' \in 0..5
  <1>1. Len(pending') \in Nat
    BY LenProperties DEF TypeInv, TypeOK
  <1>2. CASE pending' = <<"SwitchMapChain">>
    BY <1>2 DEF Work, MostInChain
  <1>3. CASE pending' # <<"SwitchMapChain">>
    <2>1. Work' = Len(pending')
      BY <1>3 DEF Work
    <2>2. Len(pending') <= 4
      BY DEF ChainInv, MostInChain
    <2> QED
      BY <1>1, <2>1, <2>2
  <1> QED
    BY <1>2, <1>3

LEMMA StopRankType ==
  ASSUME StopInv
  PROVE  StopRank \in 1..39
  <1>1. SchedLeft \in 0..4 /\ Work \in 0..5
    BY LeftType, WorkType DEF StopInv, RestInv
  <1>2. AtLeast1(SchedLeft) \in 1..4
    BY <1>1 DEF AtLeast1
  <1> QED
    BY <1>1, <1>2 DEF StopRank

\* Every step of a stopped executor brings it nearer, cancelled or not.
LEMMA StopFalls ==
  ASSUME ShortChains, StopInv, StopInv', OnItsWay, ~isRunning,
         srvPc # "relock", ExecStep
  PROVE  execPc' = "done" \/ StopNears
  <1> USE DEF flags, shared, running, sched, world, threads, OnItsWay,
              StopNears, Cancelled, UpdateStatus
  <1>a. cv = "awake" /\ TypeInv /\ ChainInv
    BY DEF StopInv, RestInv, WaitInv
  <1>b. SchedLeft \in 0..4 /\ SchedLeft' \in 0..4
    BY LeftType, LeftTypeNext DEF StopInv, RestInv
  <1>c. AtLeast1(SchedLeft) \in 1..4 /\ AtLeast1(SchedLeft') \in 1..4
    BY <1>b DEF AtLeast1
  <1>d. /\ Work \in 0..5 /\ Work' \in 0..5 /\ (execPc \in InAction => Work # 0)
        /\ (execPc \in InAction => pending # <<>>)
    BY WorkType, WorkTypeNext DEF StopInv, RestInv, TypeInv, ExecInv
  <1>e. /\ execPc = "outer" => StopRank = 1
        /\ execPc \in {"loopCond", "schedTop", "schedNap", "actWait", "fail",
                       "failCancelled"} => StopRank = 2
        /\ execPc = "schedFor" => StopRank = 4 * SchedLeft + 3
        /\ execPc = "schedNext" => StopRank = 4 * AtLeast1(SchedLeft)
        /\ execPc = "actTop" => StopRank = 4 * AtLeast1(SchedLeft) + 1
        /\ execPc = "schedRun" => StopRank = 4 * AtLeast1(SchedLeft) + 2
        /\ execPc = "copy" => StopRank = 20
        /\ execPc = "doTop" => StopRank = 21
        /\ execPc \in {"delayEnd", "navEnd"} => StopRank = 4 * Work + 16
        /\ execPc \in {"call", "delay", "delayWait", "nav", "navWait"}
              => StopRank = 4 * Work + 17
        /\ execPc \in {"dispatch", "navQuery"} => StopRank = 4 * Work + 18
        /\ execPc = "chainTop" => StopRank = 4 * Work + 19
        /\ execPc = "announce" => StopRank = 39
    BY DEF StopRank
  <1>f. /\ execPc' = "outer" => StopRank' = 1
        /\ execPc' \in {"loopCond", "schedTop", "schedNap", "actWait", "fail",
                       "failCancelled"} => StopRank' = 2
        /\ execPc' = "schedFor" => StopRank' = 4 * SchedLeft' + 3
        /\ execPc' = "schedNext" => StopRank' = 4 * AtLeast1(SchedLeft')
        /\ execPc' = "actTop" => StopRank' = 4 * AtLeast1(SchedLeft') + 1
        /\ execPc' = "schedRun" => StopRank' = 4 * AtLeast1(SchedLeft') + 2
        /\ execPc' = "copy" => StopRank' = 20
        /\ execPc' = "doTop" => StopRank' = 21
        /\ execPc' \in {"delayEnd", "navEnd"} => StopRank' = 4 * Work' + 16
        /\ execPc' \in {"call", "delay", "delayWait", "nav", "navWait"}
              => StopRank' = 4 * Work' + 17
        /\ execPc' \in {"dispatch", "navQuery"} => StopRank' = 4 * Work' + 18
        /\ execPc' = "chainTop" => StopRank' = 4 * Work' + 19
        /\ execPc' = "announce" => StopRank' = 39
    BY DEF StopRank
  <1>g. schedIndex \in Nat \ {0}
    BY <1>a DEF TypeInv, TypeOK
  <1> USE <1>a, <1>b, <1>c, <1>d, <1>e, <1>f
  <1>1. CASE Outer
    BY <1>1 DEF Outer
  <1>2. CASE WaitForTask \/ FallAsleep
    BY <1>2 DEF WaitForTask, FallAsleep
  <1>3. CASE DoTop
    <2>1. execPc = "doTop" /\ execPc' \in {"copy", "outer"}
      BY <1>3 DEF DoTop
    <2> QED
      BY <2>1
  <1>4. CASE CopyTask
    <2>1. execPc = "copy" /\ execPc' \in {"actTop", "schedTop"}
      BY <1>4 DEF CopyTask
    <2> QED
      BY <2>1
  <1>5. CASE LoopCond
    BY <1>5 DEF LoopCond
  <1>6. CASE SchedTop
    BY <1>6 DEF SchedTop
  <1>7. CASE SchedFor
    <2>1. taskCopy' = taskCopy /\ execPc = "schedFor"
      BY <1>7 DEF SchedFor
    <2>2. CASE schedIndex > Len(taskCopy.schedules)
      <3>1. execPc' = "schedNap"
        BY <1>7, <2>2 DEF SchedFor
      <3> QED
        BY <2>1, <3>1
    <2>3. CASE ~(schedIndex > Len(taskCopy.schedules)) /\ execPc' = "schedRun"
      <3>1. schedIndex' = schedIndex
        BY <1>7, <2>3 DEF SchedFor
      <3>2. SchedLeft' = SchedLeft /\ SchedLeft # 0
        BY <2>1, <2>3, <3>1, <1>g, CopyLength, FewerLeft DEF SchedLeft
      <3>3. AtLeast1(SchedLeft') = SchedLeft
        BY <3>2 DEF AtLeast1
      <3> QED
        BY <2>1, <2>3, <3>2, <3>3
    <2>4. CASE ~(schedIndex > Len(taskCopy.schedules)) /\ execPc' # "schedRun"
      <3>1. schedIndex' = schedIndex + 1 /\ execPc' = execPc
        BY <1>7, <2>4 DEF SchedFor
      <3>2. SchedLeft' < SchedLeft
        BY <2>1, <2>4, <3>1, <1>g, CopyLength, FewerLeft DEF SchedLeft
      <3>3. StopRank = 4 * SchedLeft + 3 /\ StopRank' = 4 * SchedLeft' + 3
        BY <2>1, <3>1
      <3>4. execPc' \notin {"unborn", "wait", "done"}
        BY <2>1, <3>1
      <3> HIDE <1>a, <1>c, <1>d, <1>e, <1>f
      <3>5. StopRank' < StopRank
        <4>1. \A a, b \in 0..4 : b < a => 4 * b + 3 < 4 * a + 3
          OBVIOUS
        <4> QED
          BY <1>b, <3>2, <3>3, <4>1
      <3> QED
        BY <3>4, <3>5
    <2> QED
      BY <2>2, <2>3, <2>4
  <1>8. CASE SchedRun
    <2>1. SchedLeft' = SchedLeft /\ execPc' = "actTop" /\ execPc = "schedRun"
      BY <1>8 DEF SchedRun, SchedLeft
    <2> QED
      BY <2>1
  <1>9. CASE SchedNext
    <2>1. CASE taskCopy.loop
      <3>1. /\ schedIndex' = schedIndex + 1 /\ taskCopy' = taskCopy
            /\ execPc = "schedNext" /\ execPc' = "schedFor"
        BY <1>9, <2>1 DEF SchedNext
      <3>2. SchedLeft' < AtLeast1(SchedLeft)
        BY <3>1, <1>g, CopyLength, FewerLeft DEF SchedLeft
      <3>3. StopRank = 4 * AtLeast1(SchedLeft) /\ StopRank' = 4 * SchedLeft' + 3
        BY <3>1
      <3> HIDE <1>a, <1>d, <1>e, <1>f
      <3> QED
        BY <3>1, <3>2, <3>3
    <2>2. CASE ~taskCopy.loop
      BY <1>9, <2>2 DEF SchedNext
    <2> QED
      BY <2>1, <2>2
  <1>10. CASE SchedNap
    BY <1>10 DEF SchedNap
  <1>11. CASE ActTop
    <2>1. /\ SchedLeft' = SchedLeft /\ execPc = "actTop"
          /\ execPc' \in {"loopCond", "schedNext", "outer", "actWait"}
      BY <1>11 DEF ActTop, SchedLeft
    <2> QED
      BY <2>1
  <1>12. CASE ActWait
    BY <1>12 DEF ActWait
  <1>13. CASE Announce
    BY <1>13 DEF Announce
  <1>14. CASE Dispatch
    <2>1. execPc' \in {"delay", "nav", "fail", "call"}
      BY <1>14, Zenon DEF Dispatch
    <2>2. Work' = Work /\ execPc = "dispatch"
      BY <1>14 DEF Dispatch, Work
    <2> QED
      BY <2>1, <2>2
  <1>15. CASE ChainTop
    <2>1. /\ execPc = "chainTop" /\ execPc' \in {"failCancelled", "dispatch"}
          /\ Work' = Work
      BY <1>15 DEF ChainTop, Work
    <2> QED
      BY <2>1
  <1>16. CASE Fail
    BY <1>16 DEF Fail
  <1>17. CASE CallSucceeds
    <2>1. execPc = "call" /\ pending # <<>>
      BY <1>17 DEF CallSucceeds, InAction
    <2>2. execPc' = "actTop" \/ (execPc' = "chainTop" /\ Work' < Work)
      BY <1>17, <2>1, ProceedWork DEF CallSucceeds
    <2> QED
      BY <2>1, <2>2 DEF InAction
  <1>18. CASE CallFails
    BY <1>18 DEF CallFails
  <1>19. CASE DelayEnd
    <2>1. execPc = "delayEnd" /\ pending # <<>>
      BY <1>19 DEF DelayEnd, InAction
    <2>2. \/ execPc' = "actTop" \/ (execPc' = "chainTop" /\ Work' < Work)
          \/ execPc' = "failCancelled"
      BY <1>19, <2>1, ProceedWork DEF DelayEnd
    <2> QED
      BY <2>1, <2>2 DEF InAction
  <1>20. CASE NavQuery
    <2>1. execPc = "navQuery" /\ pending # <<>>
      BY <1>20 DEF NavQuery, InAction
    <2>2. \/ execPc' = "actTop" \/ (execPc' = "chainTop" /\ Work' < Work)
          \/ execPc' = "fail" \/ (execPc' = "nav" /\ pending' = pending)
      BY <1>20, <2>1, ProceedWork DEF NavQuery
    <2>3. execPc' = "nav" => Work' = Work
      BY <2>2 DEF Work
    <2> QED
      BY <2>1, <2>2, <2>3 DEF InAction
  <1>21. CASE Delay
    <2>1. execPc = "delay" /\ execPc' = "delayEnd" /\ Work' = Work
      BY <1>21 DEF Delay, Work
    <2> QED
      BY <2>1
  <1>22. CASE DelayWait
    <2>1. execPc = "delayWait" /\ execPc' = "delayEnd" /\ Work' = Work
      BY <1>22 DEF DelayWait, WaitForResume, Work
    <2> QED
      BY <2>1
  <1>23. CASE Nav
    <2>1. execPc = "nav" /\ execPc' = "navEnd" /\ Work' = Work
      BY <1>23 DEF Nav, Work
    <2> QED
      BY <2>1
  <1>24. CASE NavWait
    <2>1. execPc = "navWait" /\ execPc' = "navEnd" /\ Work' = Work
      BY <1>24 DEF NavWait, WaitForResume, Work
    <2> QED
      BY <2>1
  <1>25. CASE NavTimeout \/ NavQueryFails
    <2>1. execPc = "navQuery" /\ execPc' = "fail"
      BY <1>25 DEF NavTimeout, NavQueryFails
    <2> QED
      BY <2>1
  <1>26. CASE NavEnd
    <2>1. execPc = "navEnd" /\ execPc' \in {"fail", "failCancelled"}
      BY <1>26 DEF NavEnd
    <2> QED
      BY <2>1
  <1> QED
    BY <1>1, <1>2, <1>3, <1>4, <1>5, <1>6, <1>7, <1>8, <1>9, <1>10, <1>11,
       <1>12, <1>13, <1>14, <1>15, <1>16, <1>17, <1>18, <1>19, <1>20, <1>21,
       <1>22, <1>23, <1>24, <1>25, <1>26 DEF ExecStep

Joining == mainPc = "join" /\ srvPc # "relock"

\* Where StopHangsOnlyIdle says that a joined executor ends.
JoinEnds ==
    mainPc = "stopped" \/ (execPc = "wait" /\ cv = "asleep") \/ srvPc = "relock"

JoinAt(n) == Joining /\ OnItsWay /\ StopRank = n
JoinBelow(n) == Joining /\ OnItsWay /\ StopRank < n
JoinDone == Joining /\ execPc = "done"
JoinIdle == Joining /\ execPc = "wait" /\ cv # "asleep"

StopLess(n) ==
    [](JoinAt(n) => <>(JoinBelow(n) \/ JoinDone \/ JoinIdle \/ JoinEnds))

\* While Stop joins, the other threads leave it so.
LEMMA JoinLasts ==
  ASSUME TypeInv, Joining, [Next]_vars, ~JoinEnds'
  PROVE  Joining'
  <1> USE DEF Joining, JoinEnds, flags, threads
  <1>1. CASE ExecStep
    BY <1>1, ExecLeaves
  <1>2. CASE SrvRequest
    BY <1>2 DEF SrvRequest, Upload, Terminate, Pause, Resume, OperatorGoal,
       OperatorCancelNav
  <1>3. CASE SrvContinue
    BY <1>3 DEF SrvContinue, SrvLoop, SrvTimeout, UploadNotify, TerminateNotify,
       TerminateNav
  <1>4. CASE MainContinue \/ StopClient
    BY <1>4 DEF MainContinue, StartTaskManager, StopRunning, StopFlags,
       StopNotify, StopNav, StopJoin, StopClient
  <1>5. CASE World
    BY <1>5 DEF World, Tick, GoalStep, SpuriousWakeup
  <1>6. CASE UNCHANGED vars
    BY <1>6 DEF vars
  <1> QED
    BY <1>1, <1>2, <1>3, <1>4, <1>5, <1>6 DEF Next

\* And the executor where it is.
LEMMA JoinLeaves ==
  ASSUME TypeInv, Joining, [Next]_vars, ~ExecStep
  PROVE  /\ UNCHANGED <<execPc, running, sched>>
         /\ cv' \in {cv, "awake"}
  <1>1. CASE SrvRequest \/ SrvContinue \/ MainContinue \/ StopClient \/ World
    BY <1>1, OthersLeave DEF Joining
  <1>2. CASE UNCHANGED vars
    BY <1>2 DEF vars
  <1> QED
    BY <1>1, <1>2 DEF Next

LEMMA StopSteps ==
  ASSUME FewSchedules, ShortChains, NEW n \in 1..39
  PROVE  FairSpec /\ []NoThreadStuck => StopLess(n)
  <1> DEFINE Less == JoinBelow(n) \/ JoinDone \/ JoinIdle \/ JoinEnds
  <1>1. StopInv /\ StopInv' /\ JoinAt(n) /\ ExecStep => Less'
    <2> SUFFICES ASSUME StopInv, StopInv', JoinAt(n), ExecStep, ~JoinEnds'
                 PROVE  JoinBelow(n)' \/ JoinDone'
      OBVIOUS
    <2>1. Joining' /\ ~isRunning
      BY JoinLasts DEF StopInv, RestInv, JoinInv, JoinAt, Joining, Next
    <2>2. execPc' = "done" \/ StopNears
      BY <2>1, StopFalls DEF JoinAt, Joining
    <2> QED
      BY <2>1, <2>2 DEF StopNears, JoinAt, JoinBelow, JoinDone, OnItsWay
  <1>2. StopInv /\ StopInv' /\ JoinAt(n) /\ [Next]_vars => JoinAt(n)' \/ Less'
    <2> SUFFICES ASSUME StopInv, JoinAt(n), [Next]_vars, ~ExecStep, ~JoinEnds'
                 PROVE  JoinAt(n)'
      BY <1>1
    <2>1. Joining' /\ UNCHANGED <<execPc, running, sched>>
      BY JoinLasts, JoinLeaves DEF StopInv, RestInv, JoinAt
    <2>2. StopRank' = StopRank
      BY <2>1 DEF StopRank, SchedLeft, Work, running, sched
    <2> QED
      BY <2>1, <2>2 DEF JoinAt, OnItsWay
  <1>3. StopInv /\ JoinAt(n) => (NoThreadStuck => ExecCanStep)
    BY DEF StopInv, RestInv, WaitInv, JoinAt, Joining, OnItsWay, NoThreadStuck,
       StatusMutexFree
  <1>4. StopInv /\ StopInv' /\ JoinAt(n) /\ <<ExecStep>>_vars => Less'
    BY <1>1
  <1> HIDE DEF Less
  <1>5. Spec => []StopInv
    BY StopInvariance
  <1>6. Less => JoinBelow(n) \/ JoinDone \/ JoinIdle \/ JoinEnds
    BY DEF Less
  <1> QED
    BY <1>2, <1>3, <1>4, <1>5, <1>6, PTL DEF FairSpec, Spec, ExecCanStep, StopLess

LEMMA StopEnds ==
  ASSUME FewSchedules, ShortChains
  PROVE  FairSpec /\ []NoThreadStuck
           => [](JoinBelow(40) => <>(JoinDone \/ JoinIdle \/ JoinEnds))
  <1>1a. FairSpec /\ []NoThreadStuck
          => /\ StopLess(1) /\ StopLess(2) /\ StopLess(3)
             /\ StopLess(4) /\ StopLess(5) /\ StopLess(6)
    BY StopSteps
  <1>1b. FairSpec /\ []NoThreadStuck
          => /\ StopLess(7) /\ StopLess(8) /\ StopLess(9)
             /\ StopLess(10) /\ StopLess(11) /\ StopLess(12)
    BY StopSteps
  <1>1c. FairSpec /\ []NoThreadStuck
          => /\ StopLess(13) /\ StopLess(14) /\ StopLess(15)
             /\ StopLess(16) /\ StopLess(17) /\ StopLess(18)
    BY StopSteps
  <1>1d. FairSpec /\ []NoThreadStuck
          => /\ StopLess(19) /\ StopLess(20) /\ StopLess(21)
             /\ StopLess(22) /\ StopLess(23) /\ StopLess(24)
    BY StopSteps
  <1>1e. FairSpec /\ []NoThreadStuck
          => /\ StopLess(25) /\ StopLess(26) /\ StopLess(27)
             /\ StopLess(28) /\ StopLess(29) /\ StopLess(30)
    BY StopSteps
  <1>1f. FairSpec /\ []NoThreadStuck
          => /\ StopLess(31) /\ StopLess(32) /\ StopLess(33)
             /\ StopLess(34) /\ StopLess(35) /\ StopLess(36)
    BY StopSteps
  <1>1g. FairSpec /\ []NoThreadStuck
          => /\ StopLess(37) /\ StopLess(38) /\ StopLess(39)
    BY StopSteps
  <1>2. StopInv
          => /\ ~JoinBelow(1)
             /\ JoinBelow(2) => JoinAt(1) \/ JoinBelow(1)
             /\ JoinBelow(3) => JoinAt(2) \/ JoinBelow(2)
             /\ JoinBelow(4) => JoinAt(3) \/ JoinBelow(3)
             /\ JoinBelow(5) => JoinAt(4) \/ JoinBelow(4)
             /\ JoinBelow(6) => JoinAt(5) \/ JoinBelow(5)
             /\ JoinBelow(7) => JoinAt(6) \/ JoinBelow(6)
             /\ JoinBelow(8) => JoinAt(7) \/ JoinBelow(7)
             /\ JoinBelow(9) => JoinAt(8) \/ JoinBelow(8)
             /\ JoinBelow(10) => JoinAt(9) \/ JoinBelow(9)
             /\ JoinBelow(11) => JoinAt(10) \/ JoinBelow(10)
             /\ JoinBelow(12) => JoinAt(11) \/ JoinBelow(11)
             /\ JoinBelow(13) => JoinAt(12) \/ JoinBelow(12)
             /\ JoinBelow(14) => JoinAt(13) \/ JoinBelow(13)
             /\ JoinBelow(15) => JoinAt(14) \/ JoinBelow(14)
             /\ JoinBelow(16) => JoinAt(15) \/ JoinBelow(15)
             /\ JoinBelow(17) => JoinAt(16) \/ JoinBelow(16)
             /\ JoinBelow(18) => JoinAt(17) \/ JoinBelow(17)
             /\ JoinBelow(19) => JoinAt(18) \/ JoinBelow(18)
             /\ JoinBelow(20) => JoinAt(19) \/ JoinBelow(19)
             /\ JoinBelow(21) => JoinAt(20) \/ JoinBelow(20)
             /\ JoinBelow(22) => JoinAt(21) \/ JoinBelow(21)
             /\ JoinBelow(23) => JoinAt(22) \/ JoinBelow(22)
             /\ JoinBelow(24) => JoinAt(23) \/ JoinBelow(23)
             /\ JoinBelow(25) => JoinAt(24) \/ JoinBelow(24)
             /\ JoinBelow(26) => JoinAt(25) \/ JoinBelow(25)
             /\ JoinBelow(27) => JoinAt(26) \/ JoinBelow(26)
             /\ JoinBelow(28) => JoinAt(27) \/ JoinBelow(27)
             /\ JoinBelow(29) => JoinAt(28) \/ JoinBelow(28)
             /\ JoinBelow(30) => JoinAt(29) \/ JoinBelow(29)
             /\ JoinBelow(31) => JoinAt(30) \/ JoinBelow(30)
             /\ JoinBelow(32) => JoinAt(31) \/ JoinBelow(31)
             /\ JoinBelow(33) => JoinAt(32) \/ JoinBelow(32)
             /\ JoinBelow(34) => JoinAt(33) \/ JoinBelow(33)
             /\ JoinBelow(35) => JoinAt(34) \/ JoinBelow(34)
             /\ JoinBelow(36) => JoinAt(35) \/ JoinBelow(35)
             /\ JoinBelow(37) => JoinAt(36) \/ JoinBelow(36)
             /\ JoinBelow(38) => JoinAt(37) \/ JoinBelow(37)
             /\ JoinBelow(39) => JoinAt(38) \/ JoinBelow(38)
             /\ JoinBelow(40) => JoinAt(39) \/ JoinBelow(39)
    BY StopRankType DEF JoinAt, JoinBelow
  <1>3. Spec => []StopInv
    BY StopInvariance
  <1> QED
    BY <1>1a, <1>1b, <1>1c, <1>1d, <1>1e, <1>1f, <1>1g, <1>2, <1>3, PTL
    DEF FairSpec, StopLess

\* The idle wait falls asleep or ends; an executor that has ended is joined.
LEMMA IdleEnds ==
  ASSUME FewSchedules, ShortChains
  PROVE  FairSpec /\ []NoThreadStuck
           => /\ [](JoinIdle => <>(JoinDone \/ JoinEnds))
              /\ [](JoinDone => <>JoinEnds)
  <1>1. StopInv /\ Joining /\ execPc = "wait" /\ cv # "asleep" /\ ExecStep
          => JoinDone' \/ JoinEnds'
    <2> SUFFICES ASSUME StopInv, Joining, execPc = "wait", cv # "asleep",
                        ExecStep, ~JoinEnds'
                 PROVE  execPc' = "done"
      BY JoinLasts DEF StopInv, RestInv, JoinDone, Next
    <2>1. WaitForTask \/ FallAsleep
      BY DEF ExecStep, Outer, WaitForTask, FallAsleep, DoTop, CopyTask,
         LoopCond, SchedTop, SchedFor, SchedRun, SchedNext, SchedNap, ActTop,
         ActWait, Announce, Dispatch, ChainTop, Fail, CallSucceeds, CallFails,
         Delay, DelayWait, WaitForResume, DelayEnd, Nav, NavWait, NavTimeout,
         NavQueryFails, NavQuery, NavEnd
    <2>2. ~isRunning
      BY DEF StopInv, JoinInv, Joining
    <2> QED
      BY <2>1, <2>2 DEF WaitForTask, FallAsleep, JoinEnds
  <1>2. StopInv /\ JoinIdle /\ [Next]_vars => (JoinIdle \/ JoinDone \/ JoinEnds)'
    <2> SUFFICES ASSUME StopInv, JoinIdle, [Next]_vars, ~ExecStep,
                        ~JoinEnds'
                 PROVE  JoinIdle'
      BY <1>1 DEF JoinIdle
    <2> QED
      BY JoinLasts, JoinLeaves DEF StopInv, RestInv, JoinIdle, JoinEnds
  <1>3. StopInv /\ JoinIdle /\ <<ExecStep>>_vars => (JoinDone \/ JoinEnds)'
    BY <1>1 DEF JoinIdle
  <1>4. JoinIdle => (NoThreadStuck => ExecCanStep)
    BY DEF JoinIdle, Joining, NoThreadStuck, StatusMutexFree
  <1>5. StopInv /\ JoinDone /\ [Next]_vars => JoinDone' \/ JoinEnds'
    <2> SUFFICES ASSUME StopInv, JoinDone, [Next]_vars, ~JoinEnds'
                 PROVE  Joining' /\ execPc' = "done"
      BY DEF JoinDone
    <2>1. ~ExecStep
      BY DEF JoinDone, ExecStep, Outer, WaitForTask, FallAsleep, DoTop, CopyTask,
         LoopCond, SchedTop, SchedFor, SchedRun, SchedNext, SchedNap, ActTop,
         ActWait, Announce, Dispatch, ChainTop, Fail, CallSucceeds, CallFails,
         Delay, DelayWait, WaitForResume, DelayEnd, Nav, NavWait, NavTimeout,
         NavQueryFails, NavQuery, NavEnd, StopInv, RestInv, TypeInv, ExecInv
    <2> QED
      BY <2>1, JoinLasts, JoinLeaves DEF StopInv, RestInv, JoinDone
  <1>6. JoinDone /\ <<MainContinue>>_vars => JoinEnds'
    BY DEF JoinDone, Joining, JoinEnds, MainContinue, StartTaskManager,
       StopRunning, StopFlags, StopNotify, StopNav, StopJoin
  <1>7. JoinDone => (NoThreadStuck => MainCanStep)
    BY DEF JoinDone, Joining, NoThreadStuck
  <1>8. Spec => []StopInv
    BY StopInvariance
  <1> QED
    BY <1>2, <1>3, <1>4, <1>5, <1>6, <1>7, <1>8, PTL
    DEF FairSpec, Spec, ExecCanStep, MainCanStep

\* Stop joins the executor unless it sleeps in its idle wait or PauseTask holds
\* the status (StopHangsOnlyIdle), for any tasks with few schedules and any
\* chains that end, even if a late upload takes the termination back.
THEOREM StopWorks ==
  ASSUME FewSchedules, ShortChains
  PROVE  FairSpec /\ []GuardsEnable => StopHangsOnlyIdle
  <1>1. StopInv /\ mainPc = "join"
          => JoinBelow(40) \/ JoinDone \/ JoinIdle \/ JoinEnds
    <2>1. StopInv => StopRank < 40
      BY StopRankType
    <2> QED
      BY <2>1 DEF StopInv, RestInv, WaitInv, JoinBelow, JoinDone, JoinIdle,
         JoinEnds, Joining, OnItsWay
  <1>2. JoinEnds => \/ mainPc = "stopped"
                    \/ execPc = "wait" /\ cv = "asleep"
                    \/ srvPc = "relock"
    BY DEF JoinEnds
  <1>3. Spec => []StopInv
    BY StopInvariance
  <1> QED
    BY <1>1, <1>2, <1>3, StopEnds, IdleEnds, ThreadsGoOn, PTL
    DEF FairSpec, StopHangsOnlyIdle

-----------------------------------------------------------------------------
(* An accepted upload is run.  What keeps the executor from it is the run   *)
(* under way, which ends because the lists it works off are short: the      *)
(* actions of the task, and what is left of one of them.                    *)

MostActions == 8

FewActions == \A t \in Tasks : Len(t.actions) <= MostActions

ActionsInv ==
    /\ Len(currentTask.actions) <= MostActions
    /\ Len(taskCopy.actions) <= MostActions

\* An upload not yet copied is still to be found, or has just been found.
FreshInv ==
    /\ copyId \in 0..curId
    /\ copyId # curId /\ ~shouldCancel =>
          hasNewTask \/ execPc \in {"doTop", "copy"}

\* Only a task with schedules is in ExecuteScheduledTask, and between Start and
\* Stop the executor is alive.
PlaceInv ==
    /\ execPc \in {"schedTop", "schedFor", "schedRun", "schedNext", "schedNap"}
          => HeldBySchedule
    /\ mainPc = "run" => isRunning /\ execPc # "done"

\* The invariant of what follows.
AskInv == /\ TypeInv /\ NoLostUpload /\ WaitInv /\ SlotInv
          /\ ChainInv /\ ActionsInv /\ FreshInv /\ PlaceInv

LEMMA OthersKeep ==
  ASSUME SrvRequest \/ SrvContinue \/ MainContinue \/ StopClient \/ World
  PROVE  /\ shouldCancel => shouldCancel' \/ UploadStep
         /\ mainPc' = "run" => \/ mainPc = "run" /\ UNCHANGED <<isRunning, execPc>>
                               \/ isRunning' /\ execPc' = "outer"
  <1> USE DEF flags, shared, running, sched, world, threads, UploadStep
  <1>1. CASE \E t \in Tasks : Upload(t)
    BY <1>1 DEF Upload
  <1>2. CASE Terminate \/ Pause \/ Resume \/ OperatorGoal \/ OperatorCancelNav
    BY <1>2 DEF Terminate, Pause, Resume, OperatorGoal, OperatorCancelNav,
       TerminateFlags
  <1>3. CASE SrvContinue
    BY <1>3 DEF SrvContinue, SrvLoop, SrvTimeout, UploadNotify, TerminateNotify,
       TerminateNav
  <1>4. CASE MainContinue \/ StopClient
    BY <1>4 DEF MainContinue, StartTaskManager, StopRunning, StopFlags,
       StopNotify, StopNav, StopJoin, StopClient, TerminateFlags
  <1>5. CASE World
    BY <1>5 DEF World, Tick, GoalStep, SpuriousWakeup
  <1> QED
    BY <1>1, <1>2, <1>3, <1>4, <1>5 DEF SrvRequest

LEMMA FreshInvNext ==
  TypeInv /\ SlotInv /\ FreshInv /\ [HistoryNext]_hvars => FreshInv'
  <1> SUFFICES ASSUME TypeInv, SlotInv, FreshInv, [HistoryNext]_hvars
               PROVE  FreshInv'
    OBVIOUS
  <1> USE DEF FreshInv
  <1>a. curId \in Nat
    BY MaxUploadsAssumption DEF SlotInv
  <1>1. CASE HistoryNext /\ ExecStep
    <2>1. /\ ~UploadStep /\ curId' = curId
          /\ shouldCancel' = shouldCancel
          /\ Kept \/ Chosen \/ Copied \/ Looped \/ Left
      BY <1>1, ExecMoves DEF UploadStep, HistoryNext, Record
    <2>2. copyId' = IF CopyStep THEN curId ELSE copyId
      BY <1>1 DEF HistoryNext, Record
    <2>3. CASE Kept \/ Chosen \/ Copied \/ Looped
      BY <1>a, <2>1, <2>2, <2>3 DEF Kept, Chosen, Copied, Looped, SlotState, CopyStep
    <2>4. CASE Left
      <3>1. execPc = "doTop" => shouldCancel
        BY <1>1, <2>4 DEF Left, SlotState, ExecStep, Outer, WaitForTask, FallAsleep,
           DoTop, CopyTask, LoopCond, SchedTop, SchedFor, SchedRun, SchedNext,
           SchedNap, ActTop, ActWait, Announce, Dispatch, ChainTop, Fail,
           CallSucceeds, CallFails, Delay, DelayWait, WaitForResume, DelayEnd,
           Nav, NavWait, NavTimeout, NavQueryFails, NavQuery, NavEnd, TypeInv, ExecInv
      <3> QED
        BY <1>a, <2>1, <2>2, <2>4, <3>1 DEF Left, SlotState, CopyStep
    <2> QED
      BY <2>1, <2>3, <2>4
  <1>2. CASE HistoryNext /\ (SrvRequest \/ SrvContinue \/ MainContinue \/ StopClient
                             \/ World)
    <2>1. ~CopyStep /\ copyId' = copyId /\ curId' \in {curId, curId + 1}
      BY <1>2, OtherMoves DEF CopyStep, HistoryNext, Record
    <2>2. CASE UploadStep
      <3>1. hasNewTask' = TRUE
        BY <1>2, <2>2, OtherMoves
      <3>2. 0..curId \subseteq 0..curId'
        BY <1>a, <2>1
      <3> QED
        BY <2>1, <3>1, <3>2
    <2>3. CASE ~UploadStep
      <3>1. curId' = curId /\ hasNewTask' = hasNewTask
        BY <1>2, <2>3, OtherMoves DEF HistoryNext, Record, UploadStep
      <3>2. execPc' = execPc \/ execPc = "unborn"
        BY <1>2, OtherMoves
      <3>3. shouldCancel => shouldCancel'
        BY <1>2, <2>3, OthersKeep
      <3> QED
        BY <1>a, <2>1, <3>1, <3>2, <3>3
    <2> QED
      BY <2>2, <2>3
  <1>3. CASE UNCHANGED hvars
    BY <1>3 DEF hvars, vars, history, flags
  <1> QED
    BY <1>1, <1>2, <1>3 DEF HistoryNext, Next

LEMMA PlaceInvNext ==
  TypeInv /\ PlaceInv /\ [Next]_vars => PlaceInv'
  <1> SUFFICES ASSUME TypeInv, PlaceInv, [Next]_vars PROVE PlaceInv'
    OBVIOUS
  <1> USE DEF PlaceInv, HeldBySchedule
  <1>1. CASE ExecStep
    <2> USE DEF flags, shared, running, sched, world, threads
    <2>1. isRunning' = isRunning /\ mainPc' = mainPc
      BY <1>1, ExecLeaves
    <2>2. CASE Outer \/ DoTop \/ CopyTask \/ LoopCond
      BY <2>1, <2>2 DEF Outer, DoTop, CopyTask, LoopCond
    <2>3. CASE WaitForTask \/ FallAsleep
      BY <2>1, <2>3 DEF WaitForTask, FallAsleep
    <2>4. CASE SchedTop \/ SchedFor \/ SchedRun \/ SchedNext \/ SchedNap
      BY <2>1, <2>4 DEF SchedTop, SchedFor, SchedRun, SchedNext, SchedNap
    <2>5. CASE ActTop \/ ActWait \/ Announce \/ ChainTop \/ Fail
      BY <2>1, <2>5 DEF ActTop, ActWait, Announce, ChainTop, Fail
    <2>6. CASE Dispatch
      <3>1. execPc' \in {"delay", "nav", "fail", "call"}
        BY <2>6, Zenon DEF Dispatch
      <3> QED
        BY <2>1, <2>6, <3>1 DEF Dispatch
    <2>7. CASE CallSucceeds \/ CallFails \/ Delay \/ DelayWait \/ DelayEnd
      BY <2>1, <2>7 DEF CallSucceeds, CallFails, Delay, DelayWait, DelayEnd,
         Proceed, WaitForResume
    <2>8. CASE Nav
      <3>1. execPc' \in {"navEnd", "navWait", "navQuery"}
        BY <2>8, Zenon DEF Nav
      <3> QED
        BY <2>1, <2>8, <3>1 DEF Nav
    <2>9. CASE NavQuery
      <3>1. execPc' \in {"actTop", "chainTop", "fail", "nav"}
        BY <2>9 DEF NavQuery, Proceed
      <3> QED
        BY <2>1, <2>9, <3>1 DEF NavQuery
    <2>10. CASE NavWait \/ NavTimeout \/ NavQueryFails \/ NavEnd
      BY <2>1, <2>10 DEF NavWait, NavTimeout, NavQueryFails, NavEnd, WaitForResume
    <2> QED
      BY <1>1, <2>2, <2>3, <2>4, <2>5, <2>6, <2>7, <2>8, <2>9, <2>10 DEF ExecStep
  <1>2. CASE SrvRequest \/ SrvContinue \/ MainContinue \/ StopClient \/ World
    BY <1>2, OthersKeep, OtherMoves
  <1>3. CASE UNCHANGED vars
    BY <1>3 DEF vars, flags, threads, running
  <1> QED
    BY <1>1, <1>2, <1>3 DEF Next

LEMMA ActionsInvNext ==
  FewActions /\ TypeInv /\ ActionsInv /\ [Next]_vars => ActionsInv'
  <1> SUFFICES ASSUME FewActions, TypeInv, ActionsInv, [Next]_vars
               PROVE  ActionsInv'
    OBVIOUS
  <1>1. Len(NoTask.actions) <= MostActions
    BY DEF NoTask, MostActions
  <1>2. CASE ExecStep
    <2>1. currentTask'.actions = currentTask.actions
      <3>1. CASE SchedFor
        BY <3>1 DEF SchedFor, MarkRun, TypeInv, TypeOK, TaskRecords
      <3>2. CASE ~SchedFor
        <4>1. currentTask' = currentTask
          BY <1>2, <3>2 DEF ExecStep, Outer, WaitForTask, FallAsleep,
             DoTop, CopyTask, LoopCond, SchedTop, SchedRun, SchedNext,
             SchedNap, ActTop, ActWait, Announce, Dispatch, ChainTop, Fail,
             CallSucceeds, CallFails, Delay, DelayWait, WaitForResume, DelayEnd,
             Nav, NavWait, NavTimeout, NavQueryFails, NavQuery, NavEnd, shared
        <4> QED
          BY <4>1
      <3> QED
        BY <3>1, <3>2
    <2> QED
      BY <1>1, <1>2, <2>1, ExecLeaves DEF ActionsInv
  <1>3. CASE SrvRequest \/ SrvContinue \/ MainContinue \/ StopClient \/ World
    BY <1>1, <1>3, OthersLeave DEF ActionsInv, FewActions, running
  <1>4. CASE UNCHANGED vars
    BY <1>4 DEF ActionsInv, vars, shared, running
  <1> QED
    BY <1>2, <1>3, <1>4 DEF Next

LEMMA AskInvariance ==
  ASSUME FewActions, ShortChains
  PROVE  HistorySpec => []AskInv
  <1>1. Init /\ HistoryInit => /\ NoLostUpload /\ WaitInv /\ ChainInv /\ ActionsInv
                              /\ FreshInv /\ PlaceInv
    BY DEF Init, HistoryInit, NoLostUpload, WaitInv, ChainInv, MostInChain, NoTask,
       ActionsInv, MostActions, FreshInv, PlaceInv
  <1>2. [HistoryNext]_hvars => [Next]_vars
    BY DEF HistoryNext, hvars
  <1>3. AskInv /\ [HistoryNext]_hvars
          => /\ NoLostUpload' /\ WaitInv' /\ ChainInv' /\ ActionsInv'
             /\ FreshInv' /\ PlaceInv'
    BY <1>2, NoLostUploadNext, WaitInvNext, ChainInvNext, ActionsInvNext,
       FreshInvNext, PlaceInvNext DEF AskInv
  <1> QED
    BY <1>1, <1>3, HistoryInvariance, PTL DEF HistorySpec, AskInv

\* What AcceptedUploadRuns lets an upload come to at a given moment.
Settled(n) == \/ copyId >= n \/ shouldCancel \/ ~ClientRunning
              \/ curId > n \/ srvPc = "relock"

\* The upload waits for the executor, which no schedule holds.
Asked(n) == curId = n /\ ~Settled(n)
Free(n) == Asked(n) /\ ~HeldBySchedule

\* Where the executor still has something to do before it looks for an upload.
AtWork == execPc \notin {"unborn", "wait", "done", "doTop", "copy"}

Choosing(n) == Asked(n) /\ execPc \in {"wait", "doTop", "copy"}

\* The actions of the run that are not done yet, the one under way included.
ActsLeft == LET left == LeftOf(Len(taskCopy.actions), actionIndex)
            IN IF execPc \in InAction THEN AtLeast1(left) ELSE left

\* How far a run that is not disturbed is from the end of its action.
AskRank ==
    CASE execPc = "outer" -> 1
      [] execPc \in {"loopCond", "fail", "failCancelled"} -> 2
      [] execPc = "navEnd" -> 3
      [] execPc = "delayEnd" -> 5 * Work
      [] execPc \in {"call", "delay", "nav", "navQuery"} -> 5 * Work + 1
      [] execPc \in {"delayWait", "navWait"} -> 5 * Work + 2
      [] execPc = "dispatch" -> 5 * Work + 3
      [] execPc = "chainTop" -> 5 * Work + 4
      [] execPc = "announce" -> 30
      [] execPc = "actWait" -> 31
      [] OTHER -> 32

AskNears ==
    /\ execPc' \notin {"unborn", "wait", "done", "doTop", "copy"}
    /\ ActsLeft' < ActsLeft \/ (ActsLeft' = ActsLeft /\ AskRank' < AskRank)

\* Polling a navigation gets the executor nowhere.
Polls == /\ \/ execPc = "nav" /\ execPc' = "navQuery"
            \/ execPc = "navQuery" /\ execPc' = "nav"
         /\ ActsLeft' = ActsLeft /\ AskRank' = AskRank

LEMMA LeftOfType ==
  ASSUME NEW l \in 0..8, NEW i \in Nat \ {0}
  PROVE  LeftOf(l, i) \in 0..8 /\ AtLeast1(LeftOf(l, i)) \in 1..8
  BY DEF LeftOf, AtLeast1

LEMMA ActsLeftType ==
  ASSUME AskInv
  PROVE  /\ Len(taskCopy.actions) \in 0..8 /\ actionIndex \in Nat \ {0}
         /\ ActsLeft \in 0..8
  <1>1. Len(taskCopy.actions) \in Nat /\ actionIndex \in Nat \ {0}
    BY LenProperties DEF AskInv, TypeInv, TypeOK, TaskRecords
  <1>2. Len(taskCopy.actions) <= 8
    BY DEF AskInv, ActionsInv, MostActions
  <1>3. Len(taskCopy.actions) \in 0..8
    <2>1. \A l \in Nat : l <= 8 => l \in 0..8
      OBVIOUS
    <2> QED
      BY <1>1, <1>2, <2>1
  <1> DEFINE left == LeftOf(Len(taskCopy.actions), actionIndex)
  <1>4. left \in 0..8 /\ AtLeast1(left) \in 1..8
    BY <1>1, <1>3, LeftOfType
  <1>5. ActsLeft \in {left, AtLeast1(left)}
    BY DEF ActsLeft
  <1> HIDE DEF left
  <1> QED
    BY <1>1, <1>3, <1>4, <1>5

LEMMA ActsLeftTypeNext ==
  ASSUME AskInv'
  PROVE  ActsLeft' \in 0..8
  <1>1. Len(taskCopy'.actions) \in Nat /\ actionIndex' \in Nat \ {0}
    BY LenProperties DEF AskInv, TypeInv, TypeOK, TaskRecords
  <1>2. Len(taskCopy'.actions) <= 8
    BY DEF AskInv, ActionsInv, MostActions
  <1>3. Len(taskCopy'.actions) \in 0..8
    <2>1. \A l \in Nat : l <= 8 => l \in 0..8
      OBVIOUS
    <2> QED
      BY <1>1, <1>2, <2>1
  <1> DEFINE left == LeftOf(Len(taskCopy'.actions), actionIndex')
  <1>4. left \in 0..8 /\ AtLeast1(left) \in 1..8
    BY <1>1, <1>3, LeftOfType
  <1>5. ActsLeft' \in {left, AtLeast1(left)}
    BY DEF ActsLeft
  <1> HIDE DEF left
  <1> QED
    BY <1>4, <1>5

LEMMA AskRankType ==
  ASSUME AskInv
  PROVE  AskRank \in 0..32 /\ (AtWork => AskRank # 0)
  <1>1. Work \in 0..5 /\ (execPc \in InAction => Work # 0)
    BY WorkType DEF AskInv
  <1> QED
    BY <1>1 DEF AskRank, AtWork, InAction

\* Nobody else disturbs it: an upload that is not settled keeps waiting.
LEMMA AskLasts ==
  ASSUME AskInv, NEW n \in 1..MaxUploads, Asked(n), [HistoryNext]_hvars, ~Settled(n)'
  PROVE  /\ Asked(n)' /\ ~CopyStep
         /\ ~HeldBySchedule => ~HeldBySchedule'
         /\ [Next]_vars
  <1>a. curId \in Nat /\ n \in Nat
    BY MaxUploadsAssumption DEF AskInv, SlotInv
  <1>1. CASE HistoryNext
    <2>1. curId' = n
      BY <1>a, <1>1 DEF HistoryNext, Record, Asked, Settled
    <2>2. ~CopyStep
      BY <1>a, <1>1, <2>1 DEF HistoryNext, Record, Asked, Settled
    <2>3. taskCopy' \in {taskCopy, NoTask}
      <3>1. CASE ExecStep
        <4>1. ~CopyTask
          BY <2>2 DEF CopyTask, CopyStep
        <4> QED
          BY <3>1, <4>1 DEF ExecStep, Outer, WaitForTask, FallAsleep,
             DoTop, LoopCond, SchedTop, SchedFor, SchedRun, SchedNext,
             SchedNap, ActTop, ActWait, Announce, Dispatch, ChainTop, Fail,
             CallSucceeds, CallFails, Delay, DelayWait, WaitForResume, DelayEnd,
             Nav, NavWait, NavTimeout, NavQueryFails, NavQuery, NavEnd, running
      <3>2. CASE ~ExecStep
        BY <1>1, <3>2, OtherMoves DEF HistoryNext, Next, AskInv
      <3> QED
        BY <3>1, <3>2
    <2> QED
      BY <1>1, <2>1, <2>2, <2>3 DEF Asked, HistoryNext, HeldBySchedule, NoTask
  <1>2. CASE UNCHANGED hvars
    BY <1>2 DEF hvars, history, vars, running, Asked, HeldBySchedule, CopyStep, Settled
  <1> QED
    BY <1>1, <1>2

\* And the executor stays where it is while it does not step.
LEMMA AskStays ==
  ASSUME AskInv, [Next]_vars, ~ExecStep, execPc # "unborn"
  PROVE  /\ UNCHANGED <<execPc, ActsLeft, AskRank>>
         /\ cv' \in {cv, "awake"}
  <1>1. UNCHANGED <<execPc, running>> /\ cv' \in {cv, "awake"}
    <2>1. CASE SrvRequest \/ SrvContinue \/ MainContinue \/ StopClient \/ World
      BY <2>1, OthersLeave DEF AskInv, TypeInv, ExecInv
    <2>2. CASE UNCHANGED vars
      BY <2>2 DEF vars
    <2> QED
      BY <2>1, <2>2 DEF Next
  <1>2. ActsLeft' = ActsLeft
    BY <1>1 DEF ActsLeft, running
  <1>3. AskRank' = AskRank
    BY <1>1 DEF AskRank, Work, running
  <1> QED
    BY <1>1, <1>2, <1>3

\* Every other step of the executor brings it nearer.
LEMMA AskFalls ==
  ASSUME ShortChains, AskInv, AskInv', NEW n \in 1..MaxUploads, Free(n), AtWork,
         ExecStep
  PROVE  execPc' \in {"wait", "doTop"} \/ AskNears \/ Polls
  <1> USE DEF flags, shared, running, sched, world, threads, AtWork, AskNears,
              Cancelled, UpdateStatus
  <1>a. /\ cv = "awake" /\ TypeInv /\ ChainInv
        /\ ~isPaused /\ ~shouldCancel /\ isRunning
    <2>1. srvPc # "relock" /\ ~shouldCancel /\ mainPc \in {"boot", "run"}
      BY DEF Free, Asked, Settled, ClientRunning
    <2> QED
      BY <2>1 DEF AskInv, WaitInv, PlaceInv, TypeInv, ExecInv
  <1>b. execPc \notin {"schedTop", "schedFor", "schedRun", "schedNext", "schedNap"}
    BY DEF AskInv, PlaceInv, Free
  <1>c. ActsLeft \in 0..8 /\ ActsLeft' \in 0..8
    BY ActsLeftType, ActsLeftTypeNext
  <1>d. /\ Work \in 0..5 /\ Work' \in 0..5 /\ (execPc \in InAction => Work # 0)
        /\ (execPc \in InAction => pending # <<>>)
    BY WorkType, WorkTypeNext DEF AskInv, TypeInv, ExecInv
  <1>e. /\ execPc = "outer" => AskRank = 1
        /\ execPc \in {"loopCond", "fail", "failCancelled"} => AskRank = 2
        /\ execPc = "navEnd" => AskRank = 3
        /\ execPc = "delayEnd" => AskRank = 5 * Work
        /\ execPc \in {"call", "delay", "nav", "navQuery"} => AskRank = 5 * Work + 1
        /\ execPc \in {"delayWait", "navWait"} => AskRank = 5 * Work + 2
        /\ execPc = "dispatch" => AskRank = 5 * Work + 3
        /\ execPc = "chainTop" => AskRank = 5 * Work + 4
        /\ execPc = "announce" => AskRank = 30
        /\ execPc = "actWait" => AskRank = 31
        /\ execPc = "actTop" => AskRank = 32
    BY DEF AskRank
  <1>f. /\ execPc' = "outer" => AskRank' = 1
        /\ execPc' \in {"loopCond", "fail", "failCancelled"} => AskRank' = 2
        /\ execPc' = "navEnd" => AskRank' = 3
        /\ execPc' = "delayEnd" => AskRank' = 5 * Work'
        /\ execPc' \in {"call", "delay", "nav", "navQuery"} => AskRank' = 5 * Work' + 1
        /\ execPc' \in {"delayWait", "navWait"} => AskRank' = 5 * Work' + 2
        /\ execPc' = "dispatch" => AskRank' = 5 * Work' + 3
        /\ execPc' = "chainTop" => AskRank' = 5 * Work' + 4
        /\ execPc' = "announce" => AskRank' = 30
        /\ execPc' = "actWait" => AskRank' = 31
        /\ execPc' = "actTop" => AskRank' = 32
    BY DEF AskRank
  <1>g. Len(taskCopy.actions) \in 0..8 /\ actionIndex \in Nat \ {0}
    BY ActsLeftType
  \* The run stays and its action does too.
  <1>h. ASSUME taskCopy' = taskCopy, actionIndex' = actionIndex,
               execPc \in InAction <=> execPc' \in InAction
        PROVE  ActsLeft' = ActsLeft
    BY <1>h DEF ActsLeft
  \* The action ends in failure.
  <1>i. ASSUME taskCopy' = taskCopy, actionIndex' = actionIndex,
               execPc \in InAction, execPc' \notin InAction
        PROVE  ActsLeft' <= ActsLeft
    <2> DEFINE left == LeftOf(Len(taskCopy.actions), actionIndex)
    <2>1. left \in 0..8
      BY <1>g, LeftOfType
    <2>2. ActsLeft = AtLeast1(left) /\ ActsLeft' = left
      BY <1>i DEF ActsLeft
    <2> HIDE DEF left
    <2> QED
      BY <2>1, <2>2 DEF AtLeast1
  \* Or in success, or goes on with what is left of it.
  <1>j. ASSUME execPc \in InAction, execPc # "navEnd", taskCopy' = taskCopy,
               Proceed(Tail(pending)) \/
               (Head(pending) = "SwitchMapChain" /\
                   \E chain \in Chains : Proceed(chain \o Tail(pending)))
        PROVE  AskNears
    <2>1. \/ execPc' = "actTop" /\ actionIndex' = actionIndex + 1
          \/ execPc' = "chainTop" /\ actionIndex' = actionIndex
      BY <1>j DEF Proceed
    <2>2. execPc' = "actTop" \/ (execPc' = "chainTop" /\ Work' < Work)
      BY <1>a, <1>d, <1>j, ProceedWork
    <2>3. CASE execPc' = "actTop"
      <3>1. actionIndex' = actionIndex + 1
        BY <2>1, <2>3
      <3>2. ActsLeft' < ActsLeft
        <4> DEFINE l == Len(taskCopy.actions)
        <4>1. ActsLeft = AtLeast1(LeftOf(l, actionIndex))
          BY <1>j DEF ActsLeft
        <4>2. ActsLeft' = LeftOf(l, actionIndex + 1)
          BY <1>j, <2>3, <3>1 DEF ActsLeft, InAction
        <4>3. l \in Nat
          BY <1>g
        <4> HIDE DEF l
        <4> QED
          BY <1>g, <4>1, <4>2, <4>3, FewerLeft
      <3> QED
        BY <2>3, <3>2
    <2>4. CASE execPc' = "chainTop"
      <3>1. ActsLeft' = ActsLeft
        BY <1>h, <1>j, <2>1, <2>4 DEF InAction
      <3>2. AskRank >= 5 * Work
        BY <1>d, <1>e, <1>j DEF InAction
      <3>3. AskRank' = 5 * Work' + 4 /\ Work' < Work
        BY <1>f, <2>2, <2>4
      <3>4. AskRank \in 0..32 /\ Work \in 0..5 /\ Work' \in 0..5
        BY <1>d, AskRankType
      <3> HIDE <1>a, <1>d, <1>e, <1>f
      <3>5. AskRank' < AskRank
        <4>1. \A r \in 0..32, v, w \in 0..5 : r >= 5 * w /\ v < w => 5 * v + 4 < r
          OBVIOUS
        <4> QED
          BY <3>2, <3>3, <3>4, <4>1
      <3> QED
        BY <2>4, <3>1, <3>5
    <2> QED
      BY <2>2, <2>3, <2>4
  <1>1. CASE Outer
    BY <1>a, <1>1 DEF Outer
  <1>2. CASE WaitForTask \/ FallAsleep \/ DoTop \/ CopyTask
    BY <1>a, <1>2 DEF WaitForTask, FallAsleep, DoTop, CopyTask
  <1>3. CASE LoopCond
    <2>1. CASE execPc' = "outer"
      BY <1>3, <1>e, <1>f, <1>h, <2>1 DEF LoopCond, InAction
    <2> QED
      BY <1>3, <2>1 DEF LoopCond
  <1>4. CASE SchedTop \/ SchedFor \/ SchedRun \/ SchedNext \/ SchedNap
    BY <1>b, <1>4 DEF SchedTop, SchedFor, SchedRun, SchedNext, SchedNap
  <1>5. CASE ActTop
    <2>1. /\ execPc = "actTop" /\ execPc' \in {"loopCond", "actWait"}
          /\ UNCHANGED <<taskCopy, actionIndex>>
      BY <1>a, <1>5 DEF ActTop, Free, HeldBySchedule
    <2> QED
      BY <1>e, <1>f, <1>h, <2>1 DEF InAction
  <1>6. CASE ActWait
    <2>1. /\ execPc = "actWait" /\ execPc' = "announce"
          /\ UNCHANGED <<taskCopy, actionIndex>>
      BY <1>a, <1>6 DEF ActWait
    <2> QED
      BY <1>e, <1>f, <1>h, <2>1 DEF InAction
  <1>7. CASE Announce
    <2>1. /\ execPc = "announce" /\ execPc' = "dispatch"
          /\ UNCHANGED <<taskCopy, actionIndex>>
      BY <1>7 DEF Announce
    <2>2. actionIndex <= Len(taskCopy.actions)
      BY <1>a, <2>1 DEF TypeInv, ExecInv
    <2>3. ActsLeft' = ActsLeft
      BY <1>g, <2>1, <2>2 DEF ActsLeft, InAction, LeftOf, AtLeast1
    <2>4. AskRank = 30 /\ AskRank' = 5 * Work' + 3 /\ Work' \in 0..5
      BY <1>d, <1>e, <1>f, <2>1
    <2>5. AskRank' < AskRank
      <3>1. \A w \in 0..5 : 5 * w + 3 < 30
        OBVIOUS
      <3> QED
        BY <2>4, <3>1
    <2> QED
      BY <2>1, <2>3, <2>5
  <1>8. CASE Dispatch
    <2>1. execPc' \in {"delay", "nav", "fail", "call"}
      BY <1>8, Zenon DEF Dispatch
    <2>2. /\ Work' = Work /\ execPc = "dispatch"
          /\ UNCHANGED <<taskCopy, actionIndex>>
      BY <1>8 DEF Dispatch, Work
    <2>3. CASE execPc' = "fail"
      BY <1>c, <1>d, <1>e, <1>f, <1>i, <2>2, <2>3 DEF InAction
    <2>4. CASE execPc' # "fail"
      BY <1>d, <1>e, <1>f, <1>h, <2>1, <2>2, <2>4 DEF InAction
    <2> QED
      BY <2>3, <2>4
  <1>9. CASE ChainTop
    <2>1. /\ execPc = "chainTop" /\ execPc' = "dispatch" /\ Work' = Work
          /\ UNCHANGED <<taskCopy, actionIndex>>
      BY <1>a, <1>9 DEF ChainTop, Work
    <2> QED
      BY <1>d, <1>e, <1>f, <1>h, <2>1 DEF InAction
  <1>10. CASE Fail
    <2>1. /\ execPc \in {"fail", "failCancelled"} /\ execPc' = "outer"
          /\ UNCHANGED <<taskCopy, actionIndex>>
      BY <1>10 DEF Fail
    <2> QED
      BY <1>e, <1>f, <1>h, <2>1 DEF InAction
  <1>11. CASE CallSucceeds
    BY <1>11, <1>j DEF CallSucceeds, InAction
  <1>12. CASE CallFails \/ NavTimeout \/ NavQueryFails \/ NavEnd
    <2>1. /\ execPc \in {"call", "navQuery", "navEnd"}
          /\ execPc' \in {"fail", "failCancelled"}
          /\ UNCHANGED <<taskCopy, actionIndex>>
      BY <1>12 DEF CallFails, NavTimeout, NavQueryFails, NavEnd
    <2> QED
      BY <1>c, <1>d, <1>e, <1>f, <1>i, <2>1 DEF InAction
  <1>13. CASE Delay \/ DelayWait
    <2>1. /\ \/ execPc = "delay" /\ execPc' = "delayEnd"
             \/ execPc = "delayWait" /\ execPc' = "delay"
          /\ Work' = Work /\ UNCHANGED <<taskCopy, actionIndex>>
      BY <1>a, <1>13 DEF Delay, DelayWait, WaitForResume, Work
    <2> QED
      BY <1>d, <1>e, <1>f, <1>h, <2>1 DEF InAction
  <1>14. CASE DelayEnd
    BY <1>a, <1>14, <1>j DEF DelayEnd, InAction
  <1>15. CASE Nav
    <2>1. /\ execPc = "nav" /\ execPc' = "navQuery" /\ Work' = Work
          /\ UNCHANGED <<taskCopy, actionIndex>>
      BY <1>a, <1>15 DEF Nav, Work
    <2> QED
      <3>1. ActsLeft' = ActsLeft
        BY <1>h, <2>1 DEF InAction
      <3>2. AskRank' = AskRank
        BY <1>e, <1>f, <2>1
      <3> QED
        BY <2>1, <3>1, <3>2 DEF Polls
  <1>16. CASE NavWait
    <2>1. /\ execPc = "navWait" /\ execPc' = "navQuery" /\ Work' = Work
          /\ UNCHANGED <<taskCopy, actionIndex>>
      BY <1>a, <1>16 DEF NavWait, WaitForResume, Work
    <2> QED
      BY <1>d, <1>e, <1>f, <1>h, <2>1 DEF InAction
  <1>17. CASE NavQuery
    <2>1. /\ execPc = "navQuery" /\ taskCopy' = taskCopy
          /\ \/ Proceed(Tail(pending))
             \/ /\ execPc' \in {"fail", "nav"}
                /\ UNCHANGED <<pending, actionIndex>>
      BY <1>17 DEF NavQuery
    <2>2. CASE Proceed(Tail(pending))
      BY <1>j, <2>1, <2>2 DEF InAction
    <2>3. CASE execPc' = "fail" /\ UNCHANGED <<pending, actionIndex>>
      BY <1>c, <1>d, <1>e, <1>f, <1>i, <2>1, <2>3 DEF InAction
    <2>4. CASE execPc' = "nav" /\ UNCHANGED <<pending, actionIndex>>
      <3>1. Work' = Work
        BY <2>4 DEF Work
      <3> QED
        BY <1>e, <1>f, <1>h, <2>1, <2>4, <3>1 DEF InAction, Polls
    <2> QED
      BY <2>1, <2>2, <2>3, <2>4
  <1> QED
    BY <1>1, <1>2, <1>3, <1>4, <1>5, <1>6, <1>7, <1>8, <1>9, <1>10, <1>11,
       <1>12, <1>13, <1>14, <1>15, <1>16, <1>17 DEF ExecStep

Job(n, a, r) == Free(n) /\ AtWork /\ ActsLeft = a /\ AskRank = r
JobBelow(n, a, r) == Free(n) /\ AtWork /\ ActsLeft = a /\ AskRank < r
JobFewer(n, a) == Free(n) /\ AtWork /\ ActsLeft < a

JobFalls(n, a, r) ==
    [](Job(n, a, r)
         => <>(JobBelow(n, a, r) \/ JobFewer(n, a) \/ Choosing(n) \/ Settled(n)))

LEMMA JobSteps ==
  ASSUME FewActions, ShortChains,
         NEW n \in 1..MaxUploads, NEW a \in 0..8, NEW r \in 1..32
  PROVE  FairHistorySpec /\ []NoThreadStuck => JobFalls(n, a, r)
  <1> DEFINE Less == JobBelow(n, a, r) \/ JobFewer(n, a) \/ Choosing(n) \/ Settled(n)
             Moving == Job(n, a, r) /\ execPc \notin {"nav", "navQuery"}
             Starts == Job(n, a, r) /\ execPc = "nav"
             Query == Job(n, a, r) /\ execPc = "navQuery"
  \* A step of the executor brings it nearer, or polls the navigation.
  <1>1. ASSUME AskInv, AskInv', Job(n, a, r), [HistoryNext]_hvars, ExecStep, ~Less'
        PROVE  Polls /\ Job(n, a, r)'
    <2>1. Asked(n)' /\ ~HeldBySchedule'
      BY <1>1, AskLasts DEF Job, Free
    <2>2. execPc' \notin {"wait", "doTop"}
      BY <1>1, <2>1 DEF Choosing
    <2>3. AskNears \/ Polls
      BY <1>1, <2>2, AskFalls DEF Job
    <2>4. ~AskNears
      <3>1. AskNears => AtWork' /\ Free(n)'
        BY <2>1 DEF AskNears, AtWork, Free
      <3>2. AskNears => ActsLeft' < a \/ (ActsLeft' = a /\ AskRank' < r)
        BY <1>1 DEF AskNears, Job
      <3> QED
        BY <1>1, <3>1, <3>2 DEF JobBelow, JobFewer
    <2>5. Polls
      BY <2>3, <2>4
    <2> QED
      BY <1>1, <2>1, <2>5 DEF Polls, Job, Free, AtWork
  \* The others leave it where it is.
  <1>2. ASSUME AskInv, Job(n, a, r), [HistoryNext]_hvars, ~ExecStep, ~Less'
        PROVE  Job(n, a, r)' /\ execPc' = execPc
    <2>1. Asked(n)' /\ ~HeldBySchedule' /\ [Next]_vars
      BY <1>2, AskLasts DEF Job, Free
    <2>2. UNCHANGED <<execPc, ActsLeft, AskRank>>
      BY <1>2, <2>1, AskStays DEF Job, AtWork
    <2> QED
      BY <1>2, <2>1, <2>2 DEF Job, Free, AtWork
  <1> HIDE DEF Less
  <1>3. /\ AskInv /\ AskInv' /\ Moving /\ [HistoryNext]_hvars => Moving' \/ Less'
        /\ AskInv /\ AskInv' /\ Moving /\ [HistoryNext]_hvars /\ <<ExecStep>>_vars
             => Less'
    BY <1>1, <1>2 DEF Polls
  <1>4. /\ AskInv /\ AskInv' /\ Starts /\ [HistoryNext]_hvars
             => Starts' \/ Query' \/ Less'
        /\ AskInv /\ AskInv' /\ Starts /\ [HistoryNext]_hvars /\ <<ExecStep>>_vars
             => Query' \/ Less'
    BY <1>1, <1>2 DEF Polls
  <1>5. /\ AskInv /\ AskInv' /\ Query /\ [HistoryNext]_hvars
             => Starts' \/ Query' \/ Less'
        /\ AskInv /\ AskInv' /\ (Starts \/ Query) /\ [HistoryNext]_hvars
           /\ <<NavLeave>>_vars
             => Less'
    <2>1. NavLeave => ExecStep
      BY DEF NavLeave, ExecStep
    <2>2. NavLeave => execPc = "navQuery" /\ ~Polls
      BY DEF NavLeave, Polls
    <2> QED
      BY <1>1, <1>2, <2>1, <2>2 DEF Polls
  <1>6. /\ AskInv /\ Job(n, a, r) => (NoThreadStuck => ExecCanStep)
        /\ execPc = "navQuery" => (NoThreadStuck => NavCanLeave)
    BY DEF AskInv, WaitInv, Job, Free, Asked, Settled, AtWork, NoThreadStuck,
       StatusMutexFree
  <1>7. Job(n, a, r) <=> Moving \/ Starts \/ Query
    OBVIOUS
  <1>8. HistorySpec => []AskInv
    BY AskInvariance
  <1>9. Less => JobBelow(n, a, r) \/ JobFewer(n, a) \/ Choosing(n) \/ Settled(n)
    BY DEF Less
  <1>10. Query => execPc = "navQuery"
    OBVIOUS
  <1>11. Moving \/ Starts => Job(n, a, r)
    OBVIOUS
  <1> HIDE DEF Moving, Starts, Query
  <1> QED
    BY <1>3, <1>4, <1>5, <1>6, <1>7, <1>8, <1>9, <1>10, <1>11, PTL
    DEF FairHistorySpec, HistorySpec, ExecCanStep, NavCanLeave, JobFalls

TierFalls(n, a) ==
    [](JobFewer(n, a + 1) => <>(JobFewer(n, a) \/ Choosing(n) \/ Settled(n)))

LEMMA TierSteps ==
  ASSUME FewActions, ShortChains, NEW n \in 1..MaxUploads, NEW a \in 0..8
  PROVE  FairHistorySpec /\ []NoThreadStuck => TierFalls(n, a)
  <1>1a. FairHistorySpec /\ []NoThreadStuck
          => /\ JobFalls(n, a, 1) /\ JobFalls(n, a, 2) /\ JobFalls(n, a, 3)
             /\ JobFalls(n, a, 4) /\ JobFalls(n, a, 5) /\ JobFalls(n, a, 6)
             /\ JobFalls(n, a, 7) /\ JobFalls(n, a, 8)
    BY JobSteps
  <1>1b. FairHistorySpec /\ []NoThreadStuck
          => /\ JobFalls(n, a, 9) /\ JobFalls(n, a, 10) /\ JobFalls(n, a, 11)
             /\ JobFalls(n, a, 12) /\ JobFalls(n, a, 13) /\ JobFalls(n, a, 14)
             /\ JobFalls(n, a, 15) /\ JobFalls(n, a, 16)
    BY JobSteps
  <1>1c. FairHistorySpec /\ []NoThreadStuck
          => /\ JobFalls(n, a, 17) /\ JobFalls(n, a, 18) /\ JobFalls(n, a, 19)
             /\ JobFalls(n, a, 20) /\ JobFalls(n, a, 21) /\ JobFalls(n, a, 22)
             /\ JobFalls(n, a, 23) /\ JobFalls(n, a, 24)
    BY JobSteps
  <1>1d. FairHistorySpec /\ []NoThreadStuck
          => /\ JobFalls(n, a, 25) /\ JobFalls(n, a, 26) /\ JobFalls(n, a, 27)
             /\ JobFalls(n, a, 28) /\ JobFalls(n, a, 29) /\ JobFalls(n, a, 30)
             /\ JobFalls(n, a, 31) /\ JobFalls(n, a, 32)
    BY JobSteps
  <1>2. AskInv
          => /\ ~JobBelow(n, a, 1)
             /\ JobBelow(n, a, 2) => Job(n, a, 1) \/ JobBelow(n, a, 1)
             /\ JobBelow(n, a, 3) => Job(n, a, 2) \/ JobBelow(n, a, 2)
             /\ JobBelow(n, a, 4) => Job(n, a, 3) \/ JobBelow(n, a, 3)
             /\ JobBelow(n, a, 5) => Job(n, a, 4) \/ JobBelow(n, a, 4)
             /\ JobBelow(n, a, 6) => Job(n, a, 5) \/ JobBelow(n, a, 5)
             /\ JobBelow(n, a, 7) => Job(n, a, 6) \/ JobBelow(n, a, 6)
             /\ JobBelow(n, a, 8) => Job(n, a, 7) \/ JobBelow(n, a, 7)
             /\ JobBelow(n, a, 9) => Job(n, a, 8) \/ JobBelow(n, a, 8)
             /\ JobBelow(n, a, 10) => Job(n, a, 9) \/ JobBelow(n, a, 9)
             /\ JobBelow(n, a, 11) => Job(n, a, 10) \/ JobBelow(n, a, 10)
             /\ JobBelow(n, a, 12) => Job(n, a, 11) \/ JobBelow(n, a, 11)
             /\ JobBelow(n, a, 13) => Job(n, a, 12) \/ JobBelow(n, a, 12)
             /\ JobBelow(n, a, 14) => Job(n, a, 13) \/ JobBelow(n, a, 13)
             /\ JobBelow(n, a, 15) => Job(n, a, 14) \/ JobBelow(n, a, 14)
             /\ JobBelow(n, a, 16) => Job(n, a, 15) \/ JobBelow(n, a, 15)
             /\ JobBelow(n, a, 17) => Job(n, a, 16) \/ JobBelow(n, a, 16)
             /\ JobBelow(n, a, 18) => Job(n, a, 17) \/ JobBelow(n, a, 17)
             /\ JobBelow(n, a, 19) => Job(n, a, 18) \/ JobBelow(n, a, 18)
             /\ JobBelow(n, a, 20) => Job(n, a, 19) \/ JobBelow(n, a, 19)
             /\ JobBelow(n, a, 21) => Job(n, a, 20) \/ JobBelow(n, a, 20)
             /\ JobBelow(n, a, 22) => Job(n, a, 21) \/ JobBelow(n, a, 21)
             /\ JobBelow(n, a, 23) => Job(n, a, 22) \/ JobBelow(n, a, 22)
             /\ JobBelow(n, a, 24) => Job(n, a, 23) \/ JobBelow(n, a, 23)
             /\ JobBelow(n, a, 25) => Job(n, a, 24) \/ JobBelow(n, a, 24)
             /\ JobBelow(n, a, 26) => Job(n, a, 25) \/ JobBelow(n, a, 25)
             /\ JobBelow(n, a, 27) => Job(n, a, 26) \/ JobBelow(n, a, 26)
             /\ JobBelow(n, a, 28) => Job(n, a, 27) \/ JobBelow(n, a, 27)
             /\ JobBelow(n, a, 29) => Job(n, a, 28) \/ JobBelow(n, a, 28)
             /\ JobBelow(n, a, 30) => Job(n, a, 29) \/ JobBelow(n, a, 29)
             /\ JobBelow(n, a, 31) => Job(n, a, 30) \/ JobBelow(n, a, 30)
             /\ JobBelow(n, a, 32) => Job(n, a, 31) \/ JobBelow(n, a, 31)
             /\ JobBelow(n, a, 33) => Job(n, a, 32) \/ JobBelow(n, a, 32)
    BY AskRankType DEF Job, JobBelow
  <1>3. AskInv /\ JobFewer(n, a + 1) => JobFewer(n, a) \/ JobBelow(n, a, 33)
    <2>1. AskInv => ActsLeft \in 0..8 /\ AskRank < 33
      <3>1. \A r \in 0..32 : r < 33
        OBVIOUS
      <3> QED
        BY <3>1, ActsLeftType, AskRankType
    <2>2. \A l, k \in 0..8 : l < k + 1 => l < k \/ l = k
      OBVIOUS
    <2> QED
      BY <2>1, <2>2 DEF JobFewer, JobBelow
  <1>4. HistorySpec => []AskInv
    BY AskInvariance
  <1> QED
    BY <1>1a, <1>1b, <1>1c, <1>1d, <1>2, <1>3, <1>4, PTL
    DEF FairHistorySpec, JobFalls, TierFalls

JobEnds(n) == [](Free(n) /\ AtWork => <>(Choosing(n) \/ Settled(n)))

\* The run under way ends.
LEMMA JobComesOut ==
  ASSUME FewActions, ShortChains, NEW n \in 1..MaxUploads
  PROVE  FairHistorySpec /\ []NoThreadStuck => JobEnds(n)
  <1>1. FairHistorySpec /\ []NoThreadStuck
          => /\ TierFalls(n, 0) /\ TierFalls(n, 1) /\ TierFalls(n, 2)
             /\ TierFalls(n, 3) /\ TierFalls(n, 4) /\ TierFalls(n, 5)
             /\ TierFalls(n, 6) /\ TierFalls(n, 7) /\ TierFalls(n, 8)
    BY TierSteps
  <1>2. AskInv => /\ ~JobFewer(n, 0)
                  /\ JobFewer(n, 1) => JobFewer(n, 0 + 1)
                  /\ JobFewer(n, 2) => JobFewer(n, 1 + 1)
                  /\ JobFewer(n, 3) => JobFewer(n, 2 + 1)
                  /\ JobFewer(n, 4) => JobFewer(n, 3 + 1)
                  /\ JobFewer(n, 5) => JobFewer(n, 4 + 1)
                  /\ JobFewer(n, 6) => JobFewer(n, 5 + 1)
                  /\ JobFewer(n, 7) => JobFewer(n, 6 + 1)
                  /\ JobFewer(n, 8) => JobFewer(n, 7 + 1)
                  /\ Free(n) /\ AtWork => JobFewer(n, 8 + 1)
    BY ActsLeftType DEF JobFewer
  <1>3. HistorySpec => []AskInv
    BY AskInvariance
  <1> QED
    BY <1>1, <1>2, <1>3, PTL DEF FairHistorySpec, TierFalls, JobEnds

\* The executor takes the upload: the way from the idle wait to the copy.
ChoiceEnds(n) == [](Choosing(n) => <>Settled(n))

LEMMA ChoiceSteps ==
  ASSUME FewActions, ShortChains, NEW n \in 1..MaxUploads
  PROVE  FairHistorySpec /\ []NoThreadStuck => ChoiceEnds(n)
  <1> DEFINE Asleep == Asked(n) /\ execPc = "wait" /\ cv = "asleep"
             Awake == Asked(n) /\ execPc = "wait" /\ cv = "awake"
             Top == Asked(n) /\ execPc = "doTop"
             Copy == Asked(n) /\ execPc = "copy"
             Done == Settled(n)
  <1>1. AskInv /\ Choosing(n) => \/ Asleep /\ srvPc = "upNotify"
                                 \/ Awake /\ hasNewTask
                                 \/ Top \/ Copy
    <2>1. AskInv /\ Asked(n) => copyId # curId /\ ~shouldCancel
      BY MaxUploadsAssumption DEF Asked, Settled, AskInv, FreshInv, SlotInv
    <2>2. AskInv => cv \in {"awake", "blocking", "asleep"}
      BY DEF AskInv, TypeInv, TypeOK
    <2> QED
      BY <2>1, <2>2 DEF Choosing, AskInv, FreshInv, NoLostUpload
  \* A step of the executor takes it one place further.
  <1>2. ASSUME AskInv, Choosing(n), [HistoryNext]_hvars, ExecStep, ~Done'
        PROVE  \/ Awake /\ Top'
               \/ Top /\ Copy'
    <2>1. Asked(n)' /\ ~CopyStep
      BY <1>2, AskLasts DEF Choosing
    <2>2. isRunning /\ ~shouldCancel
      BY <1>2 DEF Choosing, Asked, Settled, ClientRunning, AskInv, PlaceInv, TypeInv,
         ExecInv
    <2>3. WaitForTask \/ DoTop \/ CopyTask \/ FallAsleep
      BY <1>2 DEF Choosing, ExecStep, Outer, WaitForTask, FallAsleep, DoTop,
         CopyTask, LoopCond, SchedTop, SchedFor, SchedRun, SchedNext,
         SchedNap, ActTop, ActWait, Announce, Dispatch, ChainTop, Fail,
         CallSucceeds, CallFails, Delay, DelayWait, WaitForResume, DelayEnd,
         Nav, NavWait, NavTimeout, NavQueryFails, NavQuery, NavEnd
    <2>4. CASE WaitForTask
      BY <1>1, <1>2, <2>1, <2>2, <2>4 DEF WaitForTask
    <2>5. CASE DoTop
      BY <1>2, <2>1, <2>2, <2>5 DEF DoTop, Choosing
    <2>6. CASE CopyTask
      BY <2>1, <2>6 DEF CopyTask, CopyStep
    <2>7. CASE FallAsleep
      BY <1>1, <1>2, <2>7 DEF FallAsleep, AskInv, TypeInv, ExecInv
    <2> QED
      BY <2>3, <2>4, <2>5, <2>6, <2>7
  \* The others leave it where it is, or wake it.
  <1>3. ASSUME AskInv, Choosing(n), [HistoryNext]_hvars, ~ExecStep, ~Done'
        PROVE  Asked(n)' /\ execPc' = execPc /\ cv' \in {cv, "awake"}
    <2>1. Asked(n)' /\ [Next]_vars
      BY <1>2, <1>3, AskLasts DEF Choosing
    <2> QED
      BY <1>3, <2>1, AskStays DEF Choosing
  <1>4. /\ AskInv /\ Asleep /\ [HistoryNext]_hvars => Asleep' \/ Awake' \/ Done'
        /\ AskInv /\ Asleep /\ [HistoryNext]_hvars /\ <<SrvContinue>>_vars
              => Awake' \/ Done'
        /\ AskInv /\ Asleep => (NoThreadStuck => SrvCanStep)
    <2>1. AskInv /\ Asleep => Choosing(n) /\ srvPc = "upNotify"
      BY <1>1 DEF Choosing
    <2>2. SrvContinue /\ srvPc = "upNotify" /\ cv = "asleep"
            => cv' = "awake" /\ execPc' = execPc
      BY DEF SrvContinue, SrvLoop, SrvTimeout, UploadNotify, NotifyAll,
         TerminateNotify, TerminateNav
    <2> QED
      BY <1>2, <1>3, <2>1, <2>2 DEF NoThreadStuck
  <1>5. /\ AskInv /\ Awake /\ [HistoryNext]_hvars => Awake' \/ Top' \/ Done'
        /\ AskInv /\ Awake /\ [HistoryNext]_hvars /\ <<ExecStep>>_vars
              => Top' \/ Done'
    BY <1>2, <1>3 DEF Choosing
  <1>6. /\ AskInv /\ Top /\ [HistoryNext]_hvars => Top' \/ Copy' \/ Done'
        /\ AskInv /\ Top /\ [HistoryNext]_hvars /\ <<ExecStep>>_vars
              => Copy' \/ Done'
    BY <1>2, <1>3 DEF Choosing
  <1>7. /\ AskInv /\ Copy /\ [HistoryNext]_hvars => Copy' \/ Done'
        /\ AskInv /\ Copy /\ [HistoryNext]_hvars /\ <<ExecStep>>_vars => Done'
    BY <1>2, <1>3 DEF Choosing
  <1>8. AskInv /\ (Awake \/ Top \/ Copy) => (NoThreadStuck => ExecCanStep)
    BY DEF AskInv, TypeInv, ExecInv, Asked, Settled, NoThreadStuck, StatusMutexFree
  <1>9. AskInv /\ Choosing(n) => Asleep \/ Awake \/ Top \/ Copy
    BY <1>1
  <1>10. HistorySpec => []AskInv
    BY AskInvariance
  <1>11. Done => Settled(n)
    OBVIOUS
  <1> HIDE DEF Asleep, Awake, Top, Copy, Done
  <1> QED
    BY <1>4, <1>5, <1>6, <1>7, <1>8, <1>9, <1>10, <1>11, PTL
    DEF FairHistorySpec, HistorySpec, ExecCanStep, SrvCanStep, ChoiceEnds

\* Accepted before Start has started the executor.
Unborn(n) == Asked(n) /\ execPc = "unborn"

BirthComes(n) == [](Unborn(n) => <>(~Unborn(n)))

LEMMA BirthSteps ==
  ASSUME FewActions, ShortChains, NEW n \in 1..MaxUploads
  PROVE  FairHistorySpec /\ []NoThreadStuck => BirthComes(n)
  <1>1. AskInv /\ Unborn(n) /\ <<MainContinue>>_vars => ~Unborn(n)'
    BY DEF AskInv, WaitInv, Unborn, MainContinue, StartTaskManager, StopRunning,
       StopFlags, StopNotify, StopNav, StopJoin
  <1>2. AskInv /\ Unborn(n) => (NoThreadStuck => MainCanStep)
    BY DEF AskInv, WaitInv, Unborn, NoThreadStuck
  <1>3. HistorySpec => []AskInv
    BY AskInvariance
  <1> QED
    BY <1>1, <1>2, <1>3, PTL DEF FairHistorySpec, MainCanStep, BirthComes

\* AcceptedUploadRuns for one upload.
UploadRuns(n) ==
    curId = n ~> \/ copyId >= n \/ shouldCancel \/ ~ClientRunning
                 \/ curId > n \/ srvPc = "relock" \/ []HeldBySchedule

LEMMA UploadIsRun ==
  ASSUME FewActions, ShortChains, NEW n \in 1..MaxUploads
  PROVE  FairHistorySpec /\ []NoThreadStuck => UploadRuns(n)
  <1>1. AskInv /\ Asked(n) /\ [HistoryNext]_hvars => Asked(n)' \/ Settled(n)'
    BY AskLasts
  <1>2. AskInv /\ Free(n) /\ [HistoryNext]_hvars => Free(n)' \/ Settled(n)'
    BY AskLasts DEF Free
  <1>3. AskInv /\ Asked(n) => AtWork \/ Choosing(n) \/ Unborn(n)
    BY DEF AskInv, WaitInv, PlaceInv, TypeInv, ExecInv, Asked, Settled, ClientRunning,
       AtWork, Choosing, Unborn
  <1>4. Asked(n) <=> Free(n) \/ (Asked(n) /\ HeldBySchedule)
    BY DEF Free
  <1>5. curId = n => Asked(n) \/ Settled(n)
    BY DEF Asked
  <1>6. Settled(n) => \/ copyId >= n \/ shouldCancel \/ ~ClientRunning
                      \/ curId > n \/ srvPc = "relock"
    BY DEF Settled
  <1>7. Choosing(n) => Asked(n)
    BY DEF Choosing
  <1>8. HistorySpec => []AskInv
    BY AskInvariance
  <1> QED
    BY <1>1, <1>2, <1>3, <1>4, <1>5, <1>6, <1>7, <1>8, JobComesOut, ChoiceSteps,
       BirthSteps, PTL
    DEF FairHistorySpec, HistorySpec, JobEnds, ChoiceEnds, BirthComes, UploadRuns

\* The record of the uploads stands in no thread's way.
LEMMA HistoryGoesOn == HistorySpec /\ []GuardsEnable => []NoThreadStuck
  <1>1. Init /\ [][Next]_vars /\ []GuardsEnable => []NoThreadStuck
    BY ThreadsGoOn, PTL DEF Spec
  <1>2. [HistoryNext]_hvars => [Next]_vars
    BY DEF HistoryNext, hvars
  <1> QED
    BY <1>1, <1>2, PTL DEF HistorySpec

\* An accepted upload is run (AcceptedUploadRuns), for any number of uploads of
\* tasks with few actions, any schedules and any chains that end.
THEOREM AcceptedIsRun ==
  ASSUME FewActions, ShortChains
  PROVE  FairHistorySpec /\ []GuardsEnable => AcceptedUploadRuns
  <1>1. FairHistorySpec /\ []GuardsEnable => []NoThreadStuck
    BY HistoryGoesOn, PTL DEF FairHistorySpec
  <1>2. \A n \in 1..MaxUploads : FairHistorySpec /\ []GuardsEnable => UploadRuns(n)
    <2> TAKE n \in 1..MaxUploads
    <2>1. FairHistorySpec /\ []NoThreadStuck => UploadRuns(n)
      BY UploadIsRun
    <2> QED
      BY <1>1, <2>1, PTL
  <1> QED
    BY <1>2 DEF AcceptedUploadRuns, UploadRuns

-----------------------------------------------------------------------------
(* When PauseTask can do harm.  It acts on a status RUNNING, which only a   *)
(* scheduled task reports; ResumeTask acts on PAUSED, which nobody does.    *)

LEMMA ExecReports ==
  ASSUME TypeInv, ExecStep
  PROVE  /\ status'.state \in
              {status.state, "CANCELLED", "COMPLETED", "FAILED", "RUNNING"}
         /\ status'.state = "RUNNING" =>
              status.state = "RUNNING" \/ execPc \in {"schedRun", "schedNext"}
         /\ ~SchedFor => currentTask' = currentTask
  <1> USE DEF flags, shared, running, sched, world, threads, UpdateStatus
  <1>a. status \in Statuses
    BY DEF TypeInv, TypeOK
  <1>1. CASE ~(DoTop \/ SchedRun \/ SchedNext \/ ActTop \/ ActWait \/ Announce \/ Fail)
    BY <1>1 DEF ExecStep, Outer, WaitForTask, FallAsleep, CopyTask, LoopCond, SchedTop,
       SchedFor, SchedNap, Dispatch, ChainTop, CallSucceeds, CallFails, Delay, DelayWait,
       WaitForResume, DelayEnd, Nav, NavWait, NavTimeout, NavQueryFails, NavQuery, NavEnd
  <1>2. CASE DoTop \/ ActTop \/ ActWait \/ Fail
    BY <1>a, <1>2 DEF DoTop, ActTop, ActWait, Fail, Statuses
  <1>3. CASE SchedRun \/ SchedNext
    BY <1>a, <1>3 DEF SchedRun, SchedNext, Statuses
  <1>4. CASE Announce
    BY <1>a, <1>4 DEF Announce, Statuses
  <1> QED
    BY <1>1, <1>2, <1>3, <1>4

\* The status of a task is never PAUSED, although PauseTask says so, and
\* ResumeTask, which asks for that, never does a thing.
THEOREM NeverReportsPaused == Spec => [](status.state # "PAUSED")
  <1> DEFINE Told == status.state # "PAUSED"
  <1>1. Init => Told
    BY DEF Init
  <1>2. TypeInv /\ Told /\ [Next]_vars => Told'
    <2> SUFFICES ASSUME TypeInv, Told, [Next]_vars PROVE Told'
      OBVIOUS
    <2>1. CASE ExecStep
      BY <2>1, ExecReports
    <2>2. CASE SrvRequest \/ SrvContinue \/ MainContinue \/ StopClient \/ World
      BY <2>2, OthersLeave
    <2>3. CASE UNCHANGED vars
      BY <2>3 DEF vars, shared
    <2> QED
      BY <2>1, <2>2, <2>3 DEF Next
  <1>3. Spec => []TypeInv
    BY TypeInit, TypeNext, PTL DEF Spec
  <1>4. Told => status.state # "PAUSED"
    OBVIOUS
  <1> HIDE DEF Told
  <1> QED
    BY <1>1, <1>2, <1>3, <1>4, PTL DEF Spec

\* What PauseTask leaves: UpdateStatus locks the mutex that its caller holds,
\* so that the server thread does not come back.
LEMMA RelockStays ==
  ASSUME TypeInv, srvPc = "relock", [Next]_vars
  PROVE  srvPc' = "relock" /\ status' = status
  <1> USE DEF shared, threads
  <1>1. CASE ExecStep
    BY <1>1
    DEF ExecStep, Outer, WaitForTask, FallAsleep, DoTop, CopyTask, LoopCond,
        SchedTop, SchedFor, SchedRun, SchedNext, SchedNap, ActTop, ActWait,
        Announce, Dispatch, ChainTop, Fail, CallSucceeds, CallFails, Delay,
        DelayWait, DelayEnd, WaitForResume, Nav, NavWait, NavTimeout,
        NavQueryFails, NavQuery, NavEnd, UpdateStatus, StatusMutexFree
  <1>2. CASE SrvRequest \/ SrvContinue
    BY <1>2
    DEF SrvRequest, SrvContinue, Upload, Terminate, Pause, Resume, OperatorGoal,
        OperatorCancelNav, SrvLoop, SrvTimeout, UploadNotify, TerminateNotify,
        TerminateNav
  <1>3. CASE MainContinue \/ StopClient
    BY <1>3
    DEF MainContinue, StopClient, StartTaskManager, StopRunning, StopFlags,
        StopNotify, StopNav, StopJoin
  <1>4. CASE World
    BY <1>4 DEF World, Tick, GoalStep, SpuriousWakeup
  <1>5. CASE UNCHANGED vars
    BY <1>5 DEF vars
  <1> QED
    BY <1>1, <1>2, <1>3, <1>4, <1>5 DEF Next

\* Once PauseTask has taken effect the published state is RUNNING, and stays so
\* with the index of the action for ever, whatever is resumed, terminated or
\* stopped.
THEOREM PauseFreezesStatus ==
  ASSUME NEW s \in Statuses
  PROVE  Spec => [](srvPc = "relock" /\ status = s
                      => s.state = "RUNNING" /\ [](srvPc = "relock" /\ status = s))
  <1> DEFINE Frozen == srvPc = "relock" /\ status = s
             Told == srvPc = "relock" => status.state = "RUNNING"
  <1>1. TypeInv /\ Frozen /\ [Next]_vars => Frozen'
    BY RelockStays
  <1>2. TypeInv /\ status.state # "PAUSED" /\ Told /\ [Next]_vars => Told'
    <2> SUFFICES ASSUME TypeInv, status.state # "PAUSED", Told, [Next]_vars,
                        srvPc # "relock", srvPc' = "relock"
                 PROVE  status'.state = "RUNNING"
      BY RelockStays
    <2>1. Pause
      <3>1. Resume => srvPc' # "relock"
        BY DEF Resume
      <3>2. ~ExecStep /\ ~MainContinue /\ ~StopClient /\ ~World /\ ~UNCHANGED vars
        BY DEF ExecStep, Outer, WaitForTask, FallAsleep, DoTop, CopyTask, LoopCond,
           SchedTop, SchedFor, SchedRun, SchedNext, SchedNap, ActTop, ActWait,
           Announce, Dispatch, ChainTop, Fail, CallSucceeds, CallFails, Delay,
           DelayWait, DelayEnd, WaitForResume, Nav, NavWait, NavTimeout,
           NavQueryFails, NavQuery, NavEnd, MainContinue, StopClient,
           StartTaskManager, StopRunning, StopFlags, StopNotify, StopNav,
           StopJoin, World, Tick, GoalStep, SpuriousWakeup, vars, threads
      <3> QED
        BY <3>1, <3>2
        DEF Next, SrvRequest, SrvContinue, Upload, Terminate, OperatorGoal,
            OperatorCancelNav, SrvLoop, SrvTimeout, UploadNotify,
            TerminateNotify, TerminateNav
    <2> QED
      BY <2>1 DEF Pause, shared
  <1>3. Init => Told
    BY DEF Init
  <1>4. Frozen => srvPc = "relock" /\ status = s
    OBVIOUS
  <1>5. Told /\ Frozen => s.state = "RUNNING"
    OBVIOUS
  <1>6. srvPc = "relock" /\ status = s => Frozen
    OBVIOUS
  <1> HIDE DEF Frozen, Told
  <1> QED
    BY <1>1, <1>2, <1>3, <1>4, <1>5, <1>6, TypeInit, TypeNext, NeverReportsPaused, PTL
    DEF Spec

\* So "task paused" is answered only to a pause that did nothing: in no
\* behaviour in which one takes effect does HandleTaskPause always answer, which
\* is what PauseAnswered says of it.
THEOREM PauseNeverReturns == Spec => (<>(srvPc = "relock") => ~PauseAnswered)
  <1>1. TypeInv /\ srvPc = "relock" /\ [Next]_vars => (srvPc = "relock")'
    BY RelockStays
  <1>2. srvPc = "relock" => ~(srvPc = "loop")
    OBVIOUS
  <1> QED
    BY <1>1, <1>2, TypeInit, TypeNext, PTL DEF Spec, PauseAnswered

\* The operators upload tasks without schedules only.
Immediate == \A t \in Tasks : t.schedules = <<>>

\* No pause gets through.
Unpaused == srvPc # "relock" /\ ~isPaused

ImmediateInv ==
    /\ currentTask.schedules = <<>> /\ ~HeldBySchedule
    /\ status.state \notin {"RUNNING", "PAUSED"}
    /\ Unpaused

LEMMA ImmediateInvNext ==
  Immediate /\ TypeInv /\ PlaceInv /\ ImmediateInv /\ [Next]_vars => ImmediateInv'
  <1> SUFFICES ASSUME Immediate, TypeInv, PlaceInv, ImmediateInv, [Next]_vars
               PROVE  ImmediateInv'
    OBVIOUS
  <1> USE DEF ImmediateInv, Unpaused, HeldBySchedule, flags, shared, running, sched,
              world, threads
  <1>1. CASE ExecStep
    <2>1. execPc \notin {"schedFor", "schedRun", "schedNext"}
      BY DEF PlaceInv
    <2>2. ~SchedFor
      BY <2>1 DEF SchedFor
    <2>3. currentTask' = currentTask /\ status'.state \notin {"RUNNING", "PAUSED"}
      BY <1>1, <2>1, <2>2, ExecReports
    <2> QED
      BY <1>1, <2>3, ExecLeaves DEF NoTask
  <1>2. CASE SrvRequest \/ SrvContinue \/ MainContinue \/ StopClient \/ World
    <2>1. srvPc' # "relock" /\ ~isPaused'
      <3>1. CASE \E t \in Tasks : Upload(t)
        BY <3>1 DEF Upload
      <3>2. CASE Terminate \/ Pause \/ Resume \/ OperatorGoal \/ OperatorCancelNav
        BY <3>2 DEF Terminate, Pause, Resume, OperatorGoal, OperatorCancelNav,
           TerminateFlags
      <3>3. CASE SrvContinue
        BY <3>3 DEF SrvContinue, SrvLoop, SrvTimeout, UploadNotify, TerminateNotify,
           TerminateNav
      <3>4. CASE MainContinue \/ StopClient \/ World
        BY <3>4 DEF MainContinue, StartTaskManager, StopRunning, StopFlags,
           StopNotify, StopNav, StopJoin, StopClient, TerminateFlags, World, Tick,
           GoalStep, SpuriousWakeup
      <3> QED
        BY <1>2, <3>1, <3>2, <3>3, <3>4 DEF SrvRequest
    <2> QED
      BY <1>2, <2>1, OthersLeave DEF Immediate
  <1>3. CASE UNCHANGED vars
    BY <1>3 DEF vars
  <1> QED
    BY <1>1, <1>2, <1>3 DEF Next

\* Without scheduled tasks PauseTask pauses nothing and always answers: the
\* exception of a server thread that waits for ever needs a schedule.
THEOREM ImmediateNeverPaused == ASSUME Immediate PROVE Spec => []Unpaused
  <1>1. Init => ImmediateInv /\ PlaceInv
    BY DEF Init, ImmediateInv, Unpaused, HeldBySchedule, NoTask, PlaceInv
  <1>2. TypeInv /\ PlaceInv /\ ImmediateInv /\ [Next]_vars
          => ImmediateInv' /\ PlaceInv'
    BY ImmediateInvNext, PlaceInvNext
  <1>3. Spec => []TypeInv
    BY TypeInit, TypeNext, PTL DEF Spec
  <1>4. ImmediateInv => Unpaused
    BY DEF ImmediateInv
  <1> QED
    BY <1>1, <1>2, <1>3, <1>4, PTL DEF Spec

LEMMA ImmediateIsShort == Immediate => FewSchedules
  <1> SUFFICES ASSUME Immediate, NEW t \in Tasks
               PROVE  Len(t.schedules) <= MostSchedules
    BY DEF FewSchedules
  <1>1. t.schedules = <<>>
    BY DEF Immediate
  <1> QED
    BY <1>1 DEF MostSchedules

\* Without scheduled tasks a terminated executor comes to rest unless an upload
\* takes the termination back.
THEOREM ImmediateTermination ==
  ASSUME Immediate
  PROVE  FairSpec /\ []GuardsEnable => (shouldCancel ~> (~shouldCancel \/ Idle))
  <1>1. FairSpec /\ []GuardsEnable => TerminateTakesEffect
    BY ImmediateIsShort, TerminationWorks
  <1>2. Spec => []Unpaused
    BY ImmediateNeverPaused
  <1>3. Unpaused => ~(srvPc = "relock")
    BY DEF Unpaused
  <1> QED
    BY <1>1, <1>2, <1>3, PTL DEF FairSpec, TerminateTakesEffect

\* And Stop joins every executor that is not in its idle wait.
THEOREM ImmediateStop ==
  ASSUME Immediate, ShortChains
  PROVE  FairSpec /\ []GuardsEnable
           => (mainPc = "join"
                 ~> (mainPc = "stopped" \/ (execPc = "wait" /\ cv = "asleep")))
  <1>1. FairSpec /\ []GuardsEnable => StopHangsOnlyIdle
    BY ImmediateIsShort, StopWorks
  <1>2. Spec => []Unpaused
    BY ImmediateNeverPaused
  <1>3. Unpaused => ~(srvPc = "relock")
    BY DEF Unpaused
  <1> QED
    BY <1>1, <1>2, <1>3, PTL DEF FairSpec, StopHangsOnlyIdle

\* An accepted upload, too, is run unless it is terminated or replaced, or the
\* client stops: no schedule holds the executor and no pause the server thread.
ImmediateRuns(n) ==
    curId = n ~> copyId >= n \/ shouldCancel \/ ~ClientRunning \/ curId > n

LEMMA ImmediateUploadRuns ==
  ASSUME Immediate, FewActions, ShortChains, NEW n \in 1..MaxUploads
  PROVE  FairHistorySpec /\ []GuardsEnable => ImmediateRuns(n)
  <1>1. FairHistorySpec /\ []NoThreadStuck => UploadRuns(n)
    BY UploadIsRun
  <1>2. Init => ImmediateInv /\ PlaceInv
    BY DEF Init, ImmediateInv, Unpaused, HeldBySchedule, NoTask, PlaceInv
  <1>3. TypeInv /\ PlaceInv /\ ImmediateInv /\ [HistoryNext]_hvars
          => ImmediateInv' /\ PlaceInv'
    BY ImmediateInvNext, PlaceInvNext DEF HistoryNext, hvars
  <1>4. ImmediateInv => ~(srvPc = "relock") /\ ~HeldBySchedule
    BY DEF ImmediateInv, Unpaused
  <1> QED
    BY <1>1, <1>2, <1>3, <1>4, HistoryTypes, HistoryGoesOn, PTL
    DEF FairHistorySpec, HistorySpec, UploadRuns, ImmediateRuns

THEOREM ImmediateIsRun ==
  ASSUME Immediate, FewActions, ShortChains
  PROVE  FairHistorySpec /\ []GuardsEnable => \A n \in 1..MaxUploads : ImmediateRuns(n)
  <1>1. \A n \in 1..MaxUploads :
           FairHistorySpec /\ []GuardsEnable => ImmediateRuns(n)
    BY ImmediateUploadRuns
  <1> QED
    BY <1>1
=============================================================================
