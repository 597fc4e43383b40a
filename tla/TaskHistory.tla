----------------------------- MODULE TaskHistory -----------------------------
(***************************************************************************)
(* The task manager observed from outside: which upload is which.  The     *)
(* program keeps no identity of a task; these history variables number the *)
(* uploads, say which of them ExecuteThread copied and how often, and      *)
(* which run a TerminateTask was aimed at.  They follow the steps of       *)
(* TaskManager and restrict nothing but the number of uploads.             *)
(***************************************************************************)
EXTENDS TaskManager

CONSTANT MaxUploads   \* bound: uploads of a behaviour

ASSUME MaxUploadsAssumption == MaxUploads \in Nat \ {0}

VARIABLES
    curId,     \* the upload in current_task_, 0 for none
    copyId,    \* the upload in task_copy
    loops,     \* the uploads that have loop set
    runs,      \* how often each upload was copied to be run, up to RunsCap
    passed     \* the termination found the executor past its last check

history == <<curId, copyId, loops, runs, passed>>

HistoryInit ==
    /\ curId = 0 /\ copyId = 0 /\ passed = FALSE
    /\ loops = {}
    /\ runs = [n \in 1..MaxUploads |-> 0]

\* The steps history looks at, told by the program counters they move.
UploadStep   == srvPc = "recv" /\ srvPc' = "upNotify"
CopyStep     == execPc = "copy" /\ execPc' # "copy"
AnnounceStep == execPc = "announce" /\ execPc' = "dispatch"

RunsCap == 3   \* bound: further runs of an upload are not counted

Record ==
    /\ UploadStep => curId < MaxUploads
    /\ curId' = IF UploadStep THEN curId + 1 ELSE curId
    /\ copyId' = IF CopyStep THEN curId ELSE copyId
    /\ loops' = IF UploadStep /\ currentTask'.loop
                   THEN loops \cup {curId + 1} ELSE loops
    /\ runs' = IF CopyStep /\ runs[curId] < RunsCap
                  THEN [runs EXCEPT ![curId] = @ + 1] ELSE runs
    /\ passed' = /\ shouldCancel'
                 /\ IF shouldCancel THEN passed /\ ~AnnounceStep
                                    ELSE execPc = "announce"

HistoryNext == Next /\ Record

hvars == <<vars, history>>

HistorySpec == Init /\ HistoryInit /\ [][HistoryNext]_hvars

FairHistorySpec ==
    /\ HistorySpec
    /\ WF_vars(ExecStep)
    /\ WF_vars(SrvContinue)
    /\ WF_vars(MainContinue)
    /\ SF_vars(NavLeave)

-----------------------------------------------------------------------------
\* A task without loop runs twice at most: ReceiveTask may replace the task
\* between the executor's clearing of has_new_task_ and its copy, which makes
\* it run the new task and find it new once more, but never a third time.
RunsAtMostTwice == \A n \in 1..curId : runs[n] > 2 => n \in loops

\* After TerminateTask or Stop, and until the next upload takes it back, the
\* executor begins at most one more action: the one it was about to begin,
\* past its last check of should_cancel_, when the flag was set.
OneActionAfterTerminate == shouldCancel /\ execPc = "announce" => passed

\* The executor is in ExecuteScheduledTask, which looks at no upload.
HeldBySchedule == taskCopy.schedules # <<>>

\* An upload answered with "task started" is run, unless it is terminated, is
\* replaced, the client stops, a scheduled task holds the executor for ever, or
\* PauseTask has the server thread, and whoever reports a status next, wait
\* for status_mutex_ for ever.
AcceptedUploadRuns ==
    \A n \in 1..MaxUploads :
        curId = n ~> \/ copyId >= n \/ shouldCancel \/ ~ClientRunning
                     \/ curId > n \/ srvPc = "relock" \/ []HeldBySchedule

\* The executor and the uploads implement a slot for one task.
SlotState ==
    IF execPc \in {"doTop", "copy"} THEN "chosen"
    ELSE IF execPc \in {"unborn", "outer", "wait", "done"} THEN "idle"
    ELSE "busy"

Slot == INSTANCE TaskSlot
            WITH Cap <- RunsCap, latest <- curId, fresh <- hasNewTask,
                 state <- SlotState, run <- copyId

ImplementsSlot == Slot!Spec
=============================================================================
