----------------------------- MODULE TaskManager -----------------------------
(***************************************************************************)
(* The task manager of the bridge node: bridgex/src/ex/task/task_manager.  *)
(*                                                                         *)
(* Three threads of the program take part:                                 *)
(*   exec  TaskManager::ExecuteThread, which runs the uploaded task;       *)
(*   srv   ExClient::ServerThread, which answers one ZeroMQ request at a   *)
(*         time and calls ReceiveTask, TerminateTask, PauseTask, ...;      *)
(*   main  ExClient::Start and Stop, called by BridgeX::Run.               *)
(* They share four atomic flags, the current task (task_mutex_), the       *)
(* published status (status_mutex_) and the condition variable task_cv_.   *)
(* The rest of the world is move_base (one navigation goal), the wall      *)
(* clock and the answers of the services an action calls.                  *)
(*                                                                         *)
(* A step is what a thread does between two points at which another thread *)
(* can see a difference: an access to a flag, the section of a mutex, a    *)
(* request that leaves the process.                                        *)
(***************************************************************************)
EXTENDS Naturals, Sequences

CONSTANTS
    Tasks,            \* the tasks an operator may upload
    Chains,           \* the action lists a map's task.json may hold
    DayLength,        \* minutes of a day
    MaxClock,         \* bound: the last minute of the wall clock
    SharedLocaltime,  \* another thread calls localtime() (M20 heartbeats)
    OperatorDrives    \* the operator sends Goal and CancelNav requests too

ActionTypes ==
    {"Delay", "Navigate", "Action", "SwitchMap", "SwitchMapChain", "Unknown"}

Schedules == [minute : Nat, enabled : BOOLEAN, lastRun : Nat]

TaskRecords ==
    [loop : BOOLEAN, actions : Seq(ActionTypes), schedules : Seq(Schedules)]

\* ParseTask rejects a task without actions and clears every last_run_date
\* (0 stands for the empty string).
ASSUME TasksAssumption ==
    /\ Tasks \subseteq TaskRecords
    /\ \A t \in Tasks :
          /\ t.actions # <<>>
          /\ \A i \in DOMAIN t.schedules : t.schedules[i].lastRun = 0

ASSUME ChainsAssumption == Chains \subseteq Seq(ActionTypes)

ASSUME ClockAssumption == DayLength \in Nat \ {0} /\ MaxClock \in Nat

ASSUME SettingAssumption ==
    SharedLocaltime \in BOOLEAN /\ OperatorDrives \in BOOLEAN

-----------------------------------------------------------------------------
VARIABLES
    isRunning, isPaused, shouldCancel, hasNewTask,  \* the atomic flags
    currentTask,   \* current_task_, guarded by task_mutex_
    status,        \* status_, guarded by status_mutex_
    execPc,        \* where ExecuteThread is
    cv,            \* ExecuteThread and task_cv_: see TaskMutexHeld
    taskCopy,      \* its local task_copy
    actionIndex,   \* ExecuteTaskActions' i, from 1
    pending,       \* what ExecuteAction still has to do for that action
    schedIndex,    \* ExecuteScheduledTask's i, from 1
    now,           \* the instant behind its now_tm and today_date
    clock,         \* the wall clock, in minutes
    goal,          \* the goal of move_base_client_
    srvPc,         \* where ServerThread is
    mainPc         \* where Start / Stop is

flags   == <<isRunning, isPaused, shouldCancel, hasNewTask>>
shared  == <<currentTask, status>>
running == <<taskCopy, actionIndex, pending>>
sched   == <<schedIndex, now>>
world   == <<clock, goal>>
threads == <<srvPc, mainPc>>
vars    == <<flags, shared, execPc, cv, running, sched, world, threads>>

ExecPcs ==
    {"unborn", "outer", "wait", "doTop", "copy", "loopCond", "done",
     "schedTop", "schedFor", "schedRun", "schedNext", "schedNap",
     "actTop", "actWait", "announce", "dispatch", "chainTop", "call",
     "delay", "delayWait", "delayEnd", "nav", "navWait", "navQuery", "navEnd",
     "fail", "failCancelled"}

SrvPcs == {"loop", "recv", "upNotify", "termNotify", "termNav", "relock",
           "exited"}

MainPcs == {"boot", "run", "tmStop", "stopCancel", "stopNotify", "term",
            "termNotify", "termNav", "join", "stopped"}

States == {"IDLE", "RUNNING", "PAUSED", "COMPLETED", "FAILED", "CANCELLED"}

GoalStates == {"PENDING", "ACTIVE", "RECALLED", "REJECTED", "PREEMPTED",
               "ABORTED", "OCCUPIED", "SUCCEEDED", "LOST"}

Statuses == [state : States, index : Nat, total : Nat]

Goals == [owner : {"none", "task", "operator"}, st : GoalStates,
          cancel : BOOLEAN]

NoTask == [loop |-> FALSE, actions |-> <<>>, schedules |-> <<>>]

\* The type invariant.
TypeOK ==
    /\ isRunning \in BOOLEAN /\ isPaused \in BOOLEAN
    /\ shouldCancel \in BOOLEAN /\ hasNewTask \in BOOLEAN
    /\ currentTask \in TaskRecords
    /\ status \in Statuses
    /\ execPc \in ExecPcs
    /\ cv \in {"awake", "blocking", "asleep"}
    /\ taskCopy \in TaskRecords
    /\ actionIndex \in Nat \ {0}
    /\ pending \in Seq(ActionTypes)
    /\ schedIndex \in Nat \ {0}
    /\ now \in Nat /\ clock \in Nat
    /\ goal \in Goals
    /\ srvPc \in SrvPcs
    /\ mainPc \in MainPcs

Init ==
    /\ isRunning = FALSE /\ isPaused = FALSE
    /\ shouldCancel = FALSE /\ hasNewTask = FALSE
    /\ currentTask = NoTask
    /\ status = [state |-> "IDLE", index |-> 0, total |-> 0]
    /\ execPc = "unborn" /\ cv = "awake"
    /\ taskCopy = NoTask /\ actionIndex = 1 /\ pending = <<>>
    /\ schedIndex = 1 /\ now = 0 /\ clock = 0
    /\ goal = [owner |-> "none", st |-> "LOST", cancel |-> FALSE]
    /\ srvPc = "loop" /\ mainPc = "boot"

-----------------------------------------------------------------------------
(* Synchronisation and helpers.                                            *)

\* Mutant: ReceiveTask sets has_new_task_ without the mutex.
UploadWithoutMutex == FALSE

\* task_cv_.wait holds task_mutex_ from the test of its predicate until the
\* thread sleeps: "blocking" is a predicate found false with the mutex still
\* held, "asleep" is the thread in the queue of the condition variable.
TaskMutexHeld == cv = "blocking"

NotifyAll == cv' = IF cv = "asleep" THEN "awake" ELSE cv

\* PauseTask and ResumeTask hold status_mutex_ when they call UpdateStatus,
\* which locks it again; the mutex is not recursive and the thread stays.
StatusMutexFree == srvPc # "relock"

UpdateStatus(s) == StatusMutexFree /\ status' = [status EXCEPT !.state = s]

TerminateFlags == shouldCancel' = TRUE /\ isPaused' = FALSE

Live(g) == g.st \in {"PENDING", "ACTIVE"}

SendGoal(who) ==
    goal' = [owner |-> who, st |-> "PENDING", cancel |-> FALSE]

\* HandleCancelNav: cancelAllGoals reaches whatever goal is live.
CancelNav == goal' = [goal EXCEPT !.cancel = goal.cancel \/ Live(goal)]

Day(t) == 1 + (t \div DayLength)
MinuteOfDay(t) == t % DayLength

ClientRunning == mainPc \in {"boot", "run"}

-----------------------------------------------------------------------------
(* exec: ExecuteThread.                                                    *)

\* The locals of the last run are gone.
Outer ==
    /\ execPc = "outer"
    /\ execPc' = IF isRunning THEN "wait" ELSE "done"
    /\ taskCopy' = NoTask /\ actionIndex' = 1 /\ pending' = <<>>
    /\ schedIndex' = 1 /\ now' = 0
    /\ UNCHANGED <<flags, shared, cv, world, threads>>

\* Mutant: has_new_task_ is never reset.
WaitKeepsNewTask ==
    /\ execPc = "wait" /\ cv = "awake"
    /\ IF hasNewTask \/ ~isRunning
          THEN execPc' = (IF isRunning THEN "doTop" ELSE "done") /\ cv' = cv
          ELSE cv' = "blocking" /\ UNCHANGED execPc
    /\ UNCHANGED <<flags, shared, running, sched, world, threads>>

\* task_cv_.wait(lock, has_new_task_ || !is_running_)
WaitForTask ==
    /\ execPc = "wait" /\ cv = "awake"
    /\ IF hasNewTask \/ ~isRunning
          THEN /\ execPc' = IF isRunning THEN "doTop" ELSE "done"
               /\ hasNewTask' = (hasNewTask /\ ~isRunning)
               /\ cv' = cv
          ELSE /\ cv' = "blocking"
               /\ UNCHANGED <<hasNewTask, execPc>>
    /\ UNCHANGED <<isRunning, isPaused, shouldCancel, shared, running, sched,
                   world, threads>>

\* The mutex is released and the thread queued in one step of the kernel.
FallAsleep ==
    /\ cv = "blocking"
    /\ cv' = "asleep"
    /\ UNCHANGED <<flags, shared, execPc, running, sched, world, threads>>

DoTop ==
    /\ execPc = "doTop"
    /\ IF shouldCancel
          THEN UpdateStatus("CANCELLED") /\ execPc' = "outer"
          ELSE execPc' = "copy" /\ UNCHANGED status
    /\ UNCHANGED <<flags, currentTask, cv, running, sched, world, threads>>

CopyTask ==
    /\ execPc = "copy"
    /\ taskCopy' = currentTask
    /\ actionIndex' = 1
    /\ execPc' = IF currentTask.schedules = <<>> THEN "actTop" ELSE "schedTop"
    /\ UNCHANGED <<flags, shared, cv, pending, sched, world, threads>>

\* Mutant: the loop is that of the task that ran.
LoopCondCopied ==
    /\ execPc = "loopCond"
    /\ execPc' = IF taskCopy.loop /\ isRunning /\ ~shouldCancel
                    THEN "doTop" ELSE "outer"
    /\ UNCHANGED <<flags, shared, cv, running, sched, world, threads>>

\* while (current_task_.loop && ...): reads the shared task, not the copy.
LoopCond ==
    /\ execPc = "loopCond"
    /\ execPc' = IF currentTask.loop /\ isRunning /\ ~shouldCancel
                    THEN "doTop" ELSE "outer"
    /\ UNCHANGED <<flags, shared, cv, running, sched, world, threads>>

-----------------------------------------------------------------------------
(* exec: ExecuteScheduledTask.  It returns false on every path, so the     *)
(* caller always breaks out of its do loop to "outer".                     *)

SchedTop ==
    /\ execPc = "schedTop"
    /\ IF isRunning /\ ~shouldCancel
          THEN now' = clock /\ schedIndex' = 1 /\ execPc' = "schedFor"
          ELSE execPc' = "outer" /\ UNCHANGED sched
    /\ UNCHANGED <<flags, shared, cv, running, world, threads>>

\* now_tm points into localtime's static buffer: a call by another thread
\* since now replaces what the comparison reads, today_date stays.
InstantsRead == IF SharedLocaltime THEN now..clock ELSE {now}

\* Mutant: last_run_date is not looked at.
DueAgain(s, t) == s.enabled /\ s.minute = MinuteOfDay(t)

Due(s, t) == s.enabled /\ s.lastRun # Day(now) /\ s.minute = MinuteOfDay(t)

\* current_task_.schedules[i] = today: by index into whatever task is current
\* now.  Past the end of its table the write corrupts memory outside this
\* model, and the task stays as it is.
MarkRun ==
    currentTask' =
        IF schedIndex \in DOMAIN currentTask.schedules
           THEN [currentTask EXCEPT !.schedules[schedIndex].lastRun = Day(now)]
           ELSE currentTask

SchedFor ==
    /\ execPc = "schedFor"
    /\ IF schedIndex > Len(taskCopy.schedules)
          THEN execPc' = "schedNap" /\ UNCHANGED <<currentTask, schedIndex>>
          ELSE \E t \in InstantsRead :
                  IF Due(taskCopy.schedules[schedIndex], t)
                     THEN /\ MarkRun
                          /\ execPc' = "schedRun"
                          /\ UNCHANGED schedIndex
                     ELSE /\ schedIndex' = schedIndex + 1
                          /\ UNCHANGED <<currentTask, execPc>>
    /\ UNCHANGED <<flags, status, cv, running, now, world, threads>>

SchedRun ==
    /\ execPc = "schedRun"
    /\ UpdateStatus("RUNNING")
    /\ actionIndex' = 1
    /\ execPc' = "actTop"
    /\ UNCHANGED <<flags, currentTask, cv, taskCopy, pending, sched, world,
                   threads>>

\* After the actions: "Waiting for next schedule", or done.
SchedNext ==
    /\ execPc = "schedNext"
    /\ IF taskCopy.loop
          THEN /\ UpdateStatus("RUNNING")
               /\ schedIndex' = schedIndex + 1
               /\ execPc' = "schedFor"
          ELSE execPc' = "outer" /\ UNCHANGED <<status, schedIndex>>
    /\ UNCHANGED <<flags, currentTask, cv, running, now, world, threads>>

\* task_cv_.wait_for(1 s): the timeout makes a lost notification harmless.
SchedNap ==
    /\ execPc = "schedNap"
    /\ execPc' = IF shouldCancel \/ ~isRunning THEN "outer" ELSE "schedTop"
    /\ UNCHANGED <<flags, shared, cv, running, sched, world, threads>>

-----------------------------------------------------------------------------
(* exec: ExecuteTaskActions and ExecuteAction.                             *)

\* The loop's head.  A cancelled or finished task tells its caller.
ActTop ==
    /\ execPc = "actTop"
    /\ IF actionIndex > Len(taskCopy.actions)
          THEN /\ UpdateStatus("COMPLETED")
               /\ execPc' = IF taskCopy.schedules = <<>>
                               THEN "loopCond" ELSE "schedNext"
          ELSE IF shouldCancel
                  THEN UpdateStatus("CANCELLED") /\ execPc' = "outer"
                  ELSE execPc' = "actWait" /\ UNCHANGED status
    /\ UNCHANGED <<flags, currentTask, cv, running, sched, world, threads>>

Cancelled == shouldCancel \/ ~isRunning

\* Mutant: a paused task is resumed by the flag alone.
ActWaitUncancelled ==
    /\ execPc = "actWait" /\ cv = "awake"
    /\ IF isPaused
          THEN cv' = "blocking" /\ UNCHANGED execPc
          ELSE execPc' = "announce" /\ cv' = cv
    /\ UNCHANGED <<flags, shared, running, sched, world, threads>>

\* Mutant: what writes the status of a cancelled task locks task_mutex_ again.
ActWaitRelocks ==
    /\ execPc = "actWait" /\ cv = "awake" /\ ~Cancelled
    /\ IF isPaused
          THEN cv' = "blocking" /\ UNCHANGED execPc
          ELSE execPc' = "announce" /\ cv' = cv
    /\ UNCHANGED <<flags, shared, running, sched, world, threads>>

\* The wait for a resumed task; the status of a cancelled one is written
\* under both mutexes.
ActWait ==
    /\ execPc = "actWait" /\ cv = "awake"
    /\ IF isPaused /\ ~Cancelled
          THEN cv' = "blocking" /\ UNCHANGED <<status, execPc>>
          ELSE /\ cv' = cv
               /\ IF Cancelled
                     THEN UpdateStatus("CANCELLED") /\ execPc' = "outer"
                     ELSE execPc' = "announce" /\ UNCHANGED status
    /\ UNCHANGED <<flags, currentTask, running, sched, world, threads>>

\* Mutant: the total is that of the task uploaded last.
AnnounceSharedTotal ==
    /\ execPc = "announce"
    /\ StatusMutexFree
    /\ status' = [status EXCEPT !.index = actionIndex - 1,
                                !.total = Len(currentTask.actions)]
    /\ pending' = <<taskCopy.actions[actionIndex]>>
    /\ execPc' = "dispatch"
    /\ UNCHANGED <<flags, currentTask, cv, taskCopy, actionIndex, sched, world,
                   threads>>

Announce ==
    /\ execPc = "announce"
    /\ StatusMutexFree
    /\ status' = [status EXCEPT !.index = actionIndex - 1,
                                !.total = Len(taskCopy.actions)]
    /\ pending' = <<taskCopy.actions[actionIndex]>>
    /\ execPc' = "dispatch"
    /\ UNCHANGED <<flags, currentTask, cv, taskCopy, actionIndex, sched, world,
                   threads>>

\* ExecuteAction's switch.  HandleGoal sends the goal and answers true.  The
\* parameters of the tasks have the types it asks for: one of another type
\* ends the process (RequestServer, Abort).
Dispatch ==
    /\ execPc = "dispatch"
    /\ LET type == Head(pending) IN
         /\ execPc' = CASE type = "Delay"    -> "delay"
                        [] type = "Navigate" -> "nav"
                        [] type = "Unknown"  -> "fail"
                        [] OTHER             -> "call"
         /\ IF type = "Navigate" THEN SendGoal("task") ELSE UNCHANGED goal
    /\ UNCHANGED <<flags, shared, cv, running, sched, clock, threads>>

\* ExecuteAction returned true with rest still to do for this action.
Proceed(rest) ==
    /\ pending' = rest
    /\ actionIndex' = IF rest = <<>> THEN actionIndex + 1 ELSE actionIndex
    /\ execPc' = IF rest = <<>> THEN "actTop" ELSE "chainTop"

\* M20Motion and MapChange answer true; a switched map may name a chain of
\* its task.json, which replaces the action.
CallSucceeds ==
    /\ execPc = "call"
    /\ IF Head(pending) = "SwitchMapChain"
          THEN \E chain \in Chains : Proceed(chain \o Tail(pending))
          ELSE Proceed(Tail(pending))
    /\ UNCHANGED <<flags, shared, cv, taskCopy, sched, world, threads>>

\* They answer false, or the chain cannot be loaded.
CallFails ==
    /\ execPc = "call"
    /\ execPc' = "fail"
    /\ UNCHANGED <<flags, shared, cv, running, sched, world, threads>>

\* ExecuteSwitchMap's loop looks at should_cancel_ between two actions only.
ChainTop ==
    /\ execPc = "chainTop"
    /\ execPc' = IF shouldCancel THEN "failCancelled" ELSE "dispatch"
    /\ UNCHANGED <<flags, shared, cv, running, sched, world, threads>>

\* UpdateStatus(FAILED, error_msg), whatever made the action return false;
\* "failCancelled" is the error_msg of a cancelled one.
Fail ==
    /\ execPc \in {"fail", "failCancelled"}
    /\ UpdateStatus("FAILED")
    /\ execPc' = "outer"
    /\ UNCHANGED <<flags, currentTask, cv, running, sched, world, threads>>

-----------------------------------------------------------------------------
(* exec: ExecuteDelay and WaitForNavigationCompletion, which share the way *)
(* they wait for a resume in the middle of an action.                      *)

\* The loop's head; the step to "delayEnd" of a delay that goes on is the
\* time running out.
Delay ==
    /\ execPc = "delay"
    /\ execPc' = IF isPaused /\ ~Cancelled THEN "delayWait" ELSE "delayEnd"
    /\ UNCHANGED <<flags, shared, cv, running, sched, world, threads>>

WaitForResume(at, resumed, cancelled) ==
    /\ execPc = at /\ cv = "awake"
    /\ IF isPaused /\ ~Cancelled
          THEN cv' = "blocking" /\ UNCHANGED execPc
          ELSE /\ execPc' = IF Cancelled THEN cancelled ELSE resumed
               /\ cv' = cv
    /\ UNCHANGED <<flags, shared, running, sched, world, threads>>

DelayWait == WaitForResume("delayWait", "delay", "delayEnd")

\* should_cancel_ is read again after the loop: an upload may have reset it.
DelayEnd ==
    /\ execPc = "delayEnd"
    /\ IF shouldCancel
          THEN execPc' = "failCancelled" /\ UNCHANGED <<pending, actionIndex>>
          ELSE Proceed(Tail(pending))
    /\ UNCHANGED <<flags, shared, cv, taskCopy, sched, world, threads>>

Nav ==
    /\ execPc = "nav"
    /\ execPc' = CASE Cancelled -> "navEnd"
                   [] isPaused /\ ~Cancelled -> "navWait"
                   [] OTHER -> "navQuery"
    /\ UNCHANGED <<flags, shared, cv, running, sched, world, threads>>

NavWait == WaitForResume("navWait", "navQuery", "navEnd")

\* The 60 minutes of NAV_TIMEOUT_MS are over.
NavTimeout ==
    /\ execPc = "navQuery"
    /\ CancelNav
    /\ execPc' = "fail"
    /\ UNCHANGED <<flags, shared, cv, running, sched, clock, threads>>

\* HandleNavStatus: the action server is not connected.
NavQueryFails ==
    /\ execPc = "navQuery"
    /\ execPc' = "fail"
    /\ UNCHANGED <<flags, shared, cv, running, sched, world, threads>>

\* What WaitForNavigationCompletion makes of the state of the goal; an
\* occupied goal counts as reached, a preempted one is waited for.
NavQuery ==
    /\ execPc = "navQuery"
    /\ CASE goal.st \in {"SUCCEEDED", "OCCUPIED"} -> Proceed(Tail(pending))
         [] goal.st \in {"ABORTED", "LOST", "RECALLED", "REJECTED"} ->
               execPc' = "fail" /\ UNCHANGED <<pending, actionIndex>>
         [] OTHER -> execPc' = "nav" /\ UNCHANGED <<pending, actionIndex>>
    /\ UNCHANGED <<flags, shared, cv, taskCopy, sched, world, threads>>

\* Mutant: an interrupted wait leaves its goal alone.
NavEndKeepsGoal ==
    /\ execPc = "navEnd"
    /\ execPc' = IF shouldCancel THEN "failCancelled" ELSE "fail"
    /\ UNCHANGED <<flags, shared, cv, running, sched, world, threads>>

NavEnd ==
    /\ execPc = "navEnd"
    /\ IF shouldCancel
          THEN CancelNav /\ execPc' = "failCancelled"
          ELSE execPc' = "fail" /\ UNCHANGED goal
    /\ UNCHANGED <<flags, shared, cv, running, sched, clock, threads>>

-----------------------------------------------------------------------------
(* srv: ServerThread and the requests that reach the task manager.         *)

SrvLoop ==
    /\ srvPc = "loop"
    /\ srvPc' = IF ClientRunning THEN "recv" ELSE "exited"
    /\ UNCHANGED <<flags, shared, execPc, cv, running, sched, world, mainPc>>

\* ZMQ_RCVTIMEO: no request within a second.
SrvTimeout ==
    /\ srvPc = "recv"
    /\ srvPc' = "loop"
    /\ UNCHANGED <<flags, shared, execPc, cv, running, sched, world, mainPc>>

\* HandleTaskUpload -> ReceiveTask: the section of task_mutex_.
Upload(t) ==
    /\ srvPc = "recv" /\ ~TaskMutexHeld
    /\ currentTask' = t
    /\ hasNewTask' = TRUE
    /\ shouldCancel' = FALSE
    /\ isPaused' = FALSE
    /\ srvPc' = "upNotify"
    /\ UNCHANGED <<isRunning, status, execPc, cv, running, sched, world,
                   mainPc>>

\* Mutant: an upload wakes nobody.
UploadSilently ==
    /\ srvPc = "upNotify"
    /\ srvPc' = "loop"
    /\ UNCHANGED <<flags, shared, execPc, cv, running, sched, world, mainPc>>

UploadNotify ==
    /\ srvPc = "upNotify"
    /\ NotifyAll
    /\ srvPc' = "loop"
    /\ UNCHANGED <<flags, shared, execPc, running, sched, world, mainPc>>

\* TerminateTask in three steps: the flags, the notification, CancelNav.
Terminate ==
    /\ srvPc = "recv"
    /\ TerminateFlags
    /\ srvPc' = "termNotify"
    /\ UNCHANGED <<isRunning, hasNewTask, shared, execPc, cv, running, sched,
                   world, mainPc>>

TerminateNotify ==
    /\ srvPc = "termNotify"
    /\ NotifyAll
    /\ srvPc' = "termNav"
    /\ UNCHANGED <<flags, shared, execPc, running, sched, world, mainPc>>

TerminateNav ==
    /\ srvPc = "termNav"
    /\ CancelNav
    /\ srvPc' = "loop"
    /\ UNCHANGED <<flags, shared, execPc, cv, running, sched, clock, mainPc>>

\* PauseTask: nothing happens unless the state is RUNNING; if it is, the
\* flag is set and UpdateStatus waits for the mutex its caller holds.
Pause ==
    /\ srvPc = "recv"
    /\ IF status.state = "RUNNING"
          THEN isPaused' = TRUE /\ srvPc' = "relock"
          ELSE srvPc' = "loop" /\ UNCHANGED isPaused
    /\ UNCHANGED <<isRunning, shouldCancel, hasNewTask, shared, execPc, cv,
                   running, sched, world, mainPc>>

\* ResumeTask, the same with PAUSED.
Resume ==
    /\ srvPc = "recv"
    /\ IF status.state = "PAUSED"
          THEN isPaused' = FALSE /\ srvPc' = "relock"
          ELSE srvPc' = "loop" /\ UNCHANGED isPaused
    /\ UNCHANGED <<isRunning, shouldCancel, hasNewTask, shared, execPc, cv,
                   running, sched, world, mainPc>>

\* A Goal request of the operator replaces the goal of a running task.
OperatorGoal ==
    /\ srvPc = "recv" /\ OperatorDrives
    /\ SendGoal("operator")
    /\ srvPc' = "loop"
    /\ UNCHANGED <<flags, shared, execPc, cv, running, sched, clock, mainPc>>

OperatorCancelNav ==
    /\ srvPc = "recv" /\ OperatorDrives
    /\ CancelNav
    /\ srvPc' = "loop"
    /\ UNCHANGED <<flags, shared, execPc, cv, running, sched, clock, mainPc>>

-----------------------------------------------------------------------------
(* main: the end of ExClient::Start, and ExClient::Stop.                   *)

\* The server thread already answers requests when Start gets here.
StartTaskManager ==
    /\ mainPc = "boot"
    /\ isRunning' = TRUE
    /\ execPc' = "outer"
    /\ mainPc' = "run"
    /\ UNCHANGED <<isPaused, shouldCancel, hasNewTask, shared, cv, running,
                   sched, world, srvPc>>

\* The client's is_running_ is cleared: see ClientRunning.
StopClient ==
    /\ mainPc = "run"
    /\ mainPc' = "tmStop"
    /\ UNCHANGED <<flags, shared, execPc, cv, running, sched, world, srvPc>>

\* Mutant: Stop leaves is_running_ set.
StopKeepsRunning ==
    /\ mainPc = "tmStop"
    /\ mainPc' = "stopCancel"
    /\ UNCHANGED <<flags, shared, execPc, cv, running, sched, world, srvPc>>

StopRunning ==
    /\ mainPc = "tmStop"
    /\ isRunning' = FALSE
    /\ mainPc' = "stopCancel"
    /\ UNCHANGED <<isPaused, shouldCancel, hasNewTask, shared, execPc, cv,
                   running, sched, world, srvPc>>

\* Stop sets the flags and notifies, then does it again in TerminateTask.
StopFlags ==
    /\ mainPc \in {"stopCancel", "term"}
    /\ TerminateFlags
    /\ mainPc' = IF mainPc = "term" THEN "termNotify" ELSE "stopNotify"
    /\ UNCHANGED <<isRunning, hasNewTask, shared, execPc, cv, running, sched,
                   world, srvPc>>

StopNotify ==
    /\ mainPc \in {"stopNotify", "termNotify"}
    /\ NotifyAll
    /\ mainPc' = IF mainPc = "termNotify" THEN "termNav" ELSE "term"
    /\ UNCHANGED <<flags, shared, execPc, running, sched, world, srvPc>>

StopNav ==
    /\ mainPc = "termNav"
    /\ CancelNav
    /\ mainPc' = "join"
    /\ UNCHANGED <<flags, shared, execPc, cv, running, sched, clock, srvPc>>

StopJoin ==
    /\ mainPc = "join" /\ execPc = "done"
    /\ mainPc' = "stopped"
    /\ UNCHANGED <<flags, shared, execPc, cv, running, sched, world, srvPc>>

-----------------------------------------------------------------------------
(* The world.                                                              *)

Tick ==
    /\ clock < MaxClock
    /\ clock' = clock + 1
    /\ UNCHANGED <<flags, shared, execPc, cv, running, sched, goal, threads>>

\* move_base: a cancelled goal ends recalled or preempted, unless its end
\* was already on the way.
GoalStep ==
    /\ Live(goal)
    /\ \E st \in CASE goal.st = "PENDING" /\ goal.cancel ->
                        {"RECALLED", "PREEMPTED", "ACTIVE"}
                   [] goal.st = "PENDING" /\ ~goal.cancel ->
                        {"ACTIVE", "REJECTED"}
                   [] OTHER -> {"SUCCEEDED", "ABORTED", "OCCUPIED", "LOST"}
                        \cup (IF goal.cancel THEN {"PREEMPTED"} ELSE {}) :
          goal' = [goal EXCEPT !.st = st]
    /\ UNCHANGED <<flags, shared, execPc, cv, running, sched, clock, threads>>

SpuriousWakeup ==
    /\ cv = "asleep"
    /\ cv' = "awake"
    /\ UNCHANGED <<flags, shared, execPc, running, sched, world, threads>>

-----------------------------------------------------------------------------
ExecStep ==
    \/ Outer \/ WaitForTask \/ FallAsleep \/ DoTop \/ CopyTask \/ LoopCond
    \/ SchedTop \/ SchedFor \/ SchedRun \/ SchedNext \/ SchedNap
    \/ ActTop \/ ActWait \/ Announce \/ Dispatch \/ ChainTop \/ Fail
    \/ CallSucceeds \/ CallFails
    \/ Delay \/ DelayWait \/ DelayEnd
    \/ Nav \/ NavWait \/ NavTimeout \/ NavQueryFails \/ NavQuery \/ NavEnd

SrvRequest ==
    \/ \E t \in Tasks : Upload(t)
    \/ Terminate \/ Pause \/ Resume \/ OperatorGoal \/ OperatorCancelNav

SrvContinue == SrvLoop \/ SrvTimeout \/ UploadNotify \/ TerminateNotify
               \/ TerminateNav

MainContinue == StartTaskManager \/ StopRunning \/ StopFlags \/ StopNotify
                \/ StopNav \/ StopJoin

World == Tick \/ GoalStep \/ SpuriousWakeup

Next == ExecStep \/ SrvRequest \/ SrvContinue \/ MainContinue \/ StopClient
        \/ World

Spec == Init /\ [][Next]_vars

\* The ways out of the polling loop of a navigation.
NavLeave == /\ execPc = "navQuery"
            /\ NavTimeout \/ NavQueryFails \/ NavQuery
            /\ execPc' # "nav"

\* Threads that can run do run, the services an action calls answer, and no
\* navigation is polled for ever: NAV_TIMEOUT_MS ends it if nothing else
\* does.  Requests, Stop, spurious wakeups and move_base owe nothing.
FairSpec ==
    /\ Spec
    /\ WF_vars(ExecStep)
    /\ WF_vars(SrvContinue)
    /\ WF_vars(MainContinue)
    /\ SF_vars(NavLeave)

-----------------------------------------------------------------------------
(* Properties.                                                             *)

\* has_new_task_ is set and tested under task_mutex_, and notified after it
\* is released: the idle thread never sleeps on an accepted upload unless
\* the notification that will wake it is still to come.
NoLostUpload ==
    execPc = "wait" /\ hasNewTask =>
        /\ cv # "blocking"
        /\ cv = "asleep" => srvPc = "upNotify"

CancelToCome == \/ srvPc \in {"termNotify", "termNav"}
                \/ mainPc \in {"stopNotify", "term", "termNotify", "termNav"}

\* After TerminateTask or Stop has cancelled the navigation, a goal the
\* executor sends late, having passed its last check of should_cancel_ before
\* the flag was set, does not stay: the executor itself is about to cancel it.
TerminateStopsNavigation ==
    shouldCancel /\ goal.owner = "task" /\ Live(goal) /\ ~goal.cancel =>
        execPc \in {"nav", "navWait", "navEnd"} \/ CancelToCome

\* While an action runs, the published index and total are those of the task
\* that runs, whatever was uploaded, paused or terminated meanwhile.
ReportMatchesExecution ==
    execPc \in {"dispatch", "chainTop", "call", "delay", "delayWait", "delayEnd",
                "nav", "navWait", "navQuery", "navEnd", "fail",
                "failCancelled"} =>
        /\ status.index + 1 = actionIndex
        /\ status.total = Len(taskCopy.actions)

FireStep == execPc = "schedFor" /\ execPc' = "schedRun"

\* The table of the task uploaded last does not say that the schedule has
\* already fired today.
Unmarked ==
    schedIndex \in DOMAIN currentTask.schedules =>
        currentTask.schedules[schedIndex].lastRun # Day(now)

\* A task without loop never fires a schedule twice a day, even when it is
\* run twice: the mark it makes in current_task_ is copied with the task.  A
\* loop does fire again, each second of its minute: its copy has no mark.
OnlyLoopsFireAgain == [][FireStep /\ ~taskCopy.loop => Unmarked]_vars

Idle == execPc = "done" \/ (execPc = "wait" /\ ~hasNewTask)

\* A terminated executor comes to rest, wherever it was, unless an upload
\* takes the termination back first or PauseTask has the server thread, and
\* whoever reports a status next, wait for status_mutex_ for ever.
TerminateTakesEffect ==
    shouldCancel ~> (~shouldCancel \/ Idle \/ srvPc = "relock")

\* Apart from such a PauseTask, Stop joins the executor unless the executor
\* was idle: only the idle wait can sleep through the notification of Stop.
StopHangsOnlyIdle ==
    mainPc = "join" ~>
        \/ mainPc = "stopped"
        \/ execPc = "wait" /\ cv = "asleep"
        \/ srvPc = "relock"

\* The threads that FairSpec lets run have a step to take.
ExecCanStep == ENABLED <<ExecStep>>_vars
SrvCanStep == ENABLED <<SrvContinue>>_vars
MainCanStep == ENABLED <<MainContinue>>_vars
NavCanLeave == ENABLED <<NavLeave>>_vars

\* A thread stands still only where it waits: the executor for a notification
\* or a mutex that PauseTask keeps, the server thread for that mutex, Start and
\* Stop for the executor to end; and a navigation can be left when it is polled.
NoThreadStuck ==
    /\ execPc \notin {"unborn", "done"} /\ cv # "asleep" /\ StatusMutexFree
          => ExecCanStep
    /\ srvPc \notin {"relock", "exited"} => SrvCanStep
    /\ mainPc \notin {"run", "stopped"} /\ (mainPc = "join" => execPc = "done")
          => MainCanStep
    /\ execPc = "navQuery" => NavCanLeave

-----------------------------------------------------------------------------
(* What an answer of the code says, and the code does not.                 *)

\* "task paused": HandleTaskPause answers.
PauseAnswered == srvPc = "relock" ~> srvPc = "loop"
=============================================================================
