# A TLA+ development of the robot bridge (`bridgex`, `lift_comm`)

The repository holds two ROS nodes. `bridgeX_node` connects an operator's
program, which speaks JSON over ZeroMQ, with a robot: it drives through
`move_base`, switches maps, runs tasks, records bags, builds maps and talks to a
camera and to the robot's controller. `lift_controller` lets the robot use an
elevator over a serial line. This directory specifies what of them is hard to
test: the threads of the task manager, the request server and its sockets, the relay
of velocity commands, the callbacks that run inside other handlers, the change of the
map over failures and restarts, the links to the two robots, and the exchange on the
elevator's line.

All paths below are relative to `src/bridgex/src/` or `src/lift_comm/src/` in the
repository's source tree.

## 1. Inventory

| Component | State | Operations | Hard behaviour | What makes it correct |
|---|---|---|---|---|
| **TaskManager** `ex/task/task_manager.{h,cpp}` | four atomic flags, `current_task_` (`task_mutex_`), `status_` (`status_mutex_`), `task_cv_`, the executor's locals | ReceiveTask, TerminateTask, PauseTask, ResumeTask, GetStatus, Start, Stop, ExecuteThread with six nested loops | three threads, one condition variable notified outside its mutex, flags read without one, a copy of the task beside the shared one | no upload is lost, a termination stops the robot and takes effect, the progress is that of the running task, schedules fire as often as they should, Stop returns |
| **ExClient, map change**, **FileStorage** `ex/ex_client.cpp`, `ex/file_storage.cpp` | two service clients, `config.txt` | HandleMapChange from three threads, Read, Save, the change at the start | services and connections that fail in the middle, retries, crashes, two changes at once | the saved map is one that was really changed to; success and failure are reported as they were |
| **ExClient, requests and lifecycle** | REP socket, `is_running_`, the latest poses and point cloud | ServerThread, ProcessRequest, Start, Stop | one thread answers everything; Stop closes what a handler still uses | every request is answered; Stop ends |
| **Camera, BagRecordingApi, MappingApi** `ex/cam`, `ex/map` | a REQ socket each | one request and its reply | timeouts leave a REQ socket unusable, the camera has none | no late reply answers another request |
| **M20Controller** `ex/robot/m20_controller.cpp` | a TCP socket, a receive and a heartbeat thread, the last status | connect, disconnect, commands, waits for a charge state | a stream cut into packets, stale status, a connection that dies, `localtime()` in two threads | packets are recovered, a wait ends on a state after its command |
| **Lite3Controller** `ex/robot/lite3_controller.cpp` | a UDP socket, two threads | connect, disconnect, commands | one command toggles the posture, nothing is acknowledged, two threads connect | what is answered is true of the robot; the heartbeat goes on |
| **MessageBase, MessageManager, messages** `zmq/`, `message/` | sockets, subscriber threads, the last message | Start, Stop, publish, relay | the thread starts before its flag and is never joined; one message is shared without a lock | what one side publishes the other receives, whole; nothing after Stop |
| **BridgeX** `bridgex.cpp` | the objects above | Run, Stop | order of construction and destruction | an orderly end |
| **ElevatorControl, LiftController** `elevator_control.py`, `lift_controller.py` | the serial port, an RLock, the heartbeat's time | three services, the heartbeat | threads share a half-duplex line; answers late, lost, in parts, for others | a call gets its own answer; calls return; success means confirmed |

How they interact: `BridgeX::Run` starts `ExClient`, whose `Start` changes to the
saved map, then starts the server thread, then the task manager's thread. The
server thread calls the handlers one request at a time; the task handlers call
the task manager; the task manager's thread calls back into
`ExClient::ProcessRequest` for `Goal`, `NavStatus`, `CancelNav`, `MapChange` and
`M20Motion`. So the handlers of navigation, map and robot run in two threads at
once, and in a third, `main`, during the start and in ROS callbacks. The two
nodes meet only through whoever calls `/lift/*`.

Everything in this code that a test would hardly reach is listed, at its line, under
`hazards` in `PROJECT.json`, with the properties that cover it or the reason why
none does yet.

## 2. Modules

| Module | What it is |
|---|---|
| `TaskManager` | the task manager with the threads that use it and the goal of `move_base` |
| `TaskHistory` | extends it with history variables: which upload is which |
| `TaskSlot` | abstract: one slot for a task; `TaskHistory` implements it |
| `RequestServer` | the node's life, `ServerThread` and the three request sockets |
| `RequestReply` | abstract: the discipline of a reply socket; `RequestServer` implements it |
| `MessageRelay` | `MessageBase` with `CmdVelMessage`: velocity commands between ROS and ZeroMQ |
| `Spinning` | motions that spin, and the pose and point cloud callbacks that run inside them |
| `MapChange` | `HandleMapChange`, `FileStorage` and the two map services |
| `M20Link` | `HandleM20Motion` with the connection, the receive thread and the commands of `M20Controller` |
| `Lite3Link` | `HandleLite3Motion` with `Lite3Controller` over UDP |
| `ElevatorLink` | the serial line with the calls of `lift_controller` |
| `*Proofs` | theorems about the module they name |
| `MC*` | small instances for TLC |

### TaskManager

One program counter per thread: `execPc` (`ExecuteThread` and all it calls),
`srvPc` (`ServerThread`), `mainPc` (`Start`, `Stop`). A step is what a thread does
between two points at which another thread can see a difference: one access to an
atomic flag or one flag-testing condition, one section of a mutex, one request
that leaves the process. Several flags tested in one condition are read in one step;
the steps between the conditions are all separate, and each of the anomalies below
appears at that grain.

* `cv` abstracts the condition variable: `"blocking"` is a waiter that has found its
  predicate false and still holds `task_mutex_`; `"asleep"` is one that a
  notification reaches. `SpuriousWakeup` wakes it for nothing. Only `Upload` needs
  the mutex to change the predicate: `TerminateTask` and `Stop` do not take it, and
  the model lets their flags and notifications fall in between.
* `status_mutex_` is held only for a moment, except after `PauseTask` or
  `ResumeTask`: they call `UpdateStatus`, which locks the mutex again. `srvPc =
  "relock"` is a thread that did, and the mutex is never free again.
* `pending` is what `ExecuteAction` still has to do for one action: the action, or
  the rest of the chain that a switched map's `task.json` put in its place
  (`ExecuteSwitchMap`, `LoadTaskChain`). A chain is chosen when it is loaded.
* `goal` is the single goal of the `SimpleActionClient`, with its owner and whether a
  cancellation is on its way. `GoalStep` is `move_base`: it may finish, abort, lose
  or preempt, or report the text `GoalIsOccupied`, which the task manager counts as
  reached.
* Time: `clock` counts minutes, `Day` and `MinuteOfDay` take them apart.
  `ExecuteScheduledTask` keeps a pointer into `localtime()`'s static buffer; where the
  M20 heartbeat runs (`SharedLocaltime`) another call may have replaced what it
  points to, so every comparison reads any instant since (`InstantsRead`).
* `MarkRun` marks `current_task_.schedules[i]` by the index of the copy. Past the end
  of a shorter table the code's write is undefined; the model leaves the task as it
  is, and what the write destroys is not modelled.

### TaskHistory

The program gives a task no identity, so "this upload was run" cannot be said of
`TaskManager`. `TaskHistory` numbers the uploads and records which one was copied,
how often it ran, which schedules fired on which day and which run a termination met.
It constrains nothing but the number of uploads. `TaskSlot` is what an operator may
rely on: an upload takes the place of the one before, the executor chooses when there is
a fresh one and starts what is then in the slot, and without a new upload it starts
again only what loops. `ImplementsSlot` is the refinement: `SlotState` maps the
executor's program counter to `idle`, `chosen` or `busy`, the other variables are the
history's own.

### RequestServer

`main` is the main thread from `StartAll` to the destructors, `srv` is `ServerThread`.
`rep` and `sock[a]` are the states of the ZeroMQ sockets: a REP socket alternates receive
and send, a REQ socket send and receive, and each operation out of turn, or on a closed
socket, throws. A request is `garbled` (bytes whose parse error cannot be packed into
JSON, so that the exception leaves `ProcessRequest`), for one of the services, or for
a handler of another component: `blocking` if that may never return (`TaskPause` and
`TaskResume`, which lock `status_mutex_` twice; `MapChange` and `M20Motion`, which call ROS
services without a time limit), else `plain`. `Abort` is `std::terminate` from the other
components: handlers that connect to the robot at once, in the executor, a stair command
or the server thread (`M20Link`, `Lite3Link`), or an action of a task with a parameter of
the wrong type, at which `ExecuteAction` throws what `ExecuteThread` does not catch. Operators may stop waiting, services may
do a request without answering, answer without doing it, late or never. `from` of an
answer names the request whose reply became its text. `~MappingApi` stops the API a
second time through the null pointer, and the relay's thread is never joined: `program`
says how the process ends. To close a socket under a call, or to use a null one, is a
choice between what the build can do.

### MessageRelay

Three threads: `main` in `Start` and `Stop`; `cb`, the ROS callback, in whichever thread
spins; `sub`, the thread of `SubFromZMQ`. The shared `data_` is touched field by field.
Two fields stand for the six, and instead of a number a field holds who wrote it. A
command may leave fields out or hold one that is not a number, at which `FromJson`
throws. `Init` starts `sub` before `Start` sets `is_running_`, so it may leave at once.
The shutdown of a publisher waits for a publish that has begun; one that begins behind it
is dropped or meets what is no longer there. `cbSince` and `subSince` are history: the
first message of the other side that can meet this one.

### Spinning

`motions[t]` is the stack of motions a thread is in (`HandleM20Motion` spins between its
publications of `z_filter_min`, and what it runs there may be the callback of
`stair_motion`, which calls `HandleM20Motion`), `call[t]` a callback or a request that
runs on top. Only the callback that is running can be on top of another motion, and
roscpp keeps other threads out of the same subscription, but not the same thread.
A message is two fields and the flag, stored in any order, since nothing orders them.
The robot is connected: the link is `M20Link`'s; a lost packet of a gait sets `mixed`.
The motions are the three that set a gait: `flat` and `stair`, which publish a filter, and
`basic_std` (`"basic"`), which publishes none and does not spin.

### MapChange

`HandleMapChange` in `main` (the saved map, before the others start), in the server
thread and in the executor, with a program counter each. The services may go down and
come up, their connections break before or after the service acted, the program may
crash between any two steps and start again. A client is `fresh` (no connection yet),
`open`, `broken` (persistent clients do not reconnect) or `mistyped` (the client that
the code makes anew for `change_map` has the type of `map_switch_service`, so its
calls fail). `result` holds what each service answered and tells a success that set
`loc_success`/`nav_success` from one that arrived in the response of a repeated call,
at which the code does not look. `config.txt` is empty from the opening to the write;
two writers leave parts of both if the longer path came first.

### ElevatorLink

The threads of `rospy` (one per service call) and the heartbeat thread, each
`idle -> lock -> write -> read -> idle`. A frame is a record `[to, cmd]` that arrives
in two parts; `to` is the thread whose call it answers and becomes `"late"` when that
call ends, `"stale"` if it was in the port when a call began, `"other"` for another
robot. `_send_and_recv` does not see `to` beyond the robot ID. Whether noise spoils
a frame, what its data says (`Data`: too short for the service, or, for a floor, confirmed
or not) and whether some part of it happens to end in the byte `0x03` is chosen when it is
read.

### M20Link

A handler is a thread in `HandleM20Motion`: the server thread, the executor, or the
callback of `stair_motion`. `link` is the socket `sockfd_`: `none` is -1, `made` is set
but without a connection (`connect()` stores the socket before it calls `::connect`, and
`isConnected()` asks only whether one is stored), `connected`, and `lost`, which
`isConnected()` does not notice. `HandleM20Motion` asks once and `connect()` asks again;
the steps after that (the socket, `::connect`, the two threads) are separate, so that
two handlers can be in them at once. The command of a request is looked at when it is
sent, for that is when the code looks at it.

The bytes are real bytes: `wire` holds what the robot has sent, `recv` takes any portion
of it, and `Discard`, `Deliver` and `Keep` are one turn each of the loop that looks for
the sync word and cuts packets. The JSON of a status is abstracted to a code and a charge
state. `Outcomes` lets a send fail on any connection (`sendPacket` returns false when only
part of a packet goes out) and a send on a broken one succeed. (`roscpp` has
the process ignore `SIGPIPE`, so that it only fails.) `recv` blocks, has
no timeout and ends only with data or a broken connection; `Disconnect` therefore joins a
thread that may never come. `items`, `stream`, `packets` (where in the stream each
packet is), `arrived`, `delivered` and `raced` are history.

Left out: what a thread that reads from a socket overwritten by a race receives (the
model gives it the new one's bytes; `DeliveredIsArrived` excepts races), the heartbeat
thread, which only sends, the second joinable thread, which is assigned after the first
has already ended the program, and a handler still running while the destructor does.

### Lite3Link

A handler is the server thread or the executor; the steps of `connect()` are separate,
because nothing locks the controller. `net` holds the datagrams on their way: one may be
lost or overtake another. The robot has a posture, which `CMD_STAND_SIT` changes to the
other, and a mode. `wanted` is what the last successful answers said of the two;
`astray` says that one of a kind was lost, overtaken, or the posture asked for that was
answered before; `raced` that two were connecting, neither of them finding a link. Which socket `sockfd_` names makes no
difference over UDP. Left out: the receive thread's work (no callback is ever set) and
`disconnect`.

## 3. What the runs check

Twelve runs. The passing ones:

| Run | Checks | Bounds |
|---|---|---|
| `task_manager` | `NoLostUpload`, `TerminateStopsNavigation`, `ReportMatchesExecution`, `TerminateTakesEffect`, `StopHangsOnlyIdle`, `NoThreadStuck` | two tasks (a looping round trip with a map switch and its chain; a single action scheduled for the minute at which the clock stands, whose run can be paused), uploaded any number of times, the operator's own goals; 1.3 million states |
| `task_scheduled` | `OnlyLoopsFireAgain` | two scheduled tasks, days of two minutes, three minutes in all, `localtime()` shared; 1.8 million states |
| `history_live` | `OneActionAfterTerminate`, `RunsAtMostTwice`, `ImplementsSlot`, `AcceptedUploadRuns` | a loop, a task that fails and a looping schedule that is due at once; three uploads; 1.3 million states |
| `request_server` | `AnswersAreOwn`, `OneUnreportedPerApi`, `NoCleanExit`, `RequestDiscipline`, `EveryRequestSettles`, `NoThreadStuck` | three requests, a service with a timeout and the camera, which has none, handlers that never return; 1.7 million states |
| `message_relay` | `OutboundIsFresh`, `InboundIsKept`, `QuietAfterStop`, `CommandsGoOut`, `NoThreadStuck` | two messages each way; 0.6 million states |
| `spinning` | `FilterFitsGait`, `CloudIsWhole`, `PositionIsFresh` | three threads, all three topics, two motions (`flat`, `stair`, `basic_std`) of two publications, two messages; 8.6 million states |
| `map_change` | `TypeOK`, `SavedMapIsConfirmed`, `SuccessIsReal`, `LastNavCallFails` | a short and a long path, three failures of services or connections, any number of crashes; 1.7 million states |
| `m20_link` | `TypeOK`, `DeliveredIsArrived`, `OnlyRacingConnectsTerminate`, `ChargeWasReported` | two handlers; four packets (one empty, one of another kind) and 14 bytes of noise that end like half a sync word, two of these in all, cut anywhere; 3 million states |
| `lite3_link` | `AnswersAreTrue`, `OnlyRacingConnectsTerminate`, `HeartbeatsGoOn`, `NoThreadStuck` | two handlers, three commands; 0.4 million states |
| `elevator_link` | `TypeOK`, `AcceptedIsOwnOrLate`, `SilentLineStaysInStep` | two service threads and the heartbeat, three parts on the line, two queued requests; 4.1 million states |

The violated ones, each a disagreement of the code with what it says of itself:

| Run | What TLC finds |
|---|---|
| `pause_answered` | "task paused" is never answered for a running task: `PauseTask` locks `status_mutex_` twice, and the server thread, then the executor, stop for good |
| `call_confirmed` | `/lift/call` reports success by bit 0 of the robot ID instead of the elevator's confirmation |

What the less obvious passing properties say:

* `NoLostUpload`: the executor is never asleep on a new task unless `notify_all` is
  still to come. It rests on `task_mutex_` being held while the flag is set.
* `TerminateStopsNavigation`: a termination cancels the goals once, while the executor
  may have passed its last look at the flag and not sent its goal. Such a goal never
  stays, because the executor then sees the flag in its waiting loop and cancels again.
  It holds although that loop and the termination share no lock.
* `ReportMatchesExecution`: the published index and total come from the copy that
  runs, through uploads and terminations.
* `StopHangsOnlyIdle`: `Stop` notifies without the mutex, so the idle wait can sleep
  through it, and the join hangs: the property says that every busy executor is joined.
* `TerminateTakesEffect`, `StopHangsOnlyIdle` and `AcceptedUploadRuns` except a
  `PauseTask` that keeps `status_mutex_` (`srvPc = "relock"`, see `pause_answered`): the
  executor stops at its next status. That takes a status `RUNNING`, which only scheduled
  tasks report, but which a terminated one can leave behind for the tasks after it.
* `NoThreadStuck`: whoever neither waits for a notification or a mutex nor has ended has
  a step to take. It speaks of `ENABLED`, of which a proof needs an assumption
  (section 4).
* `RunsAtMostTwice`: a task without `loop` may run twice (an upload between the reset
  of `has_new_task_` and the copy), and never a third time. That it runs once is
  refuted by the same model; no line of the code promises it.
* `OneActionAfterTerminate`: after a termination, and until an upload takes it back, at
  most the action begins whose check of `should_cancel_` was already past.
* `ImplementsSlot`: whatever the order of uploads, terminations and copies, what is
  started was the latest upload at that moment.
* `AcceptedUploadRuns`: the exceptions are a termination, the client's stop, a later
  upload, such a `PauseTask`, and a scheduled task that holds the executor for ever: its
  loop does not look at `has_new_task_`. An upload accepted before the task manager's
  thread runs is included.
* `AnswersAreOwn`, `OneUnreportedPerApi`: that a REQ socket is stuck after a timeout is
  what keeps a late reply from answering the next request, and a second request from
  being done unnoticed. A socket repaired without an identity of the request would break
  both. `AnswersAreOwn` adds what only the camera's handlers promise, that a success was done:
  those of the other two put the text of an error into a message with status true.
* `NoCleanExit`: a property of what the code does, not of what it should: while it holds,
  no destructor behind `~MappingApi` runs, which is why those of the robots are not
  modelled. What the node does with its own sockets does not end it before it is
  stopped; what does so is an `Abort`, as soon as the server thread is there.
* `RequestDiscipline`: `RequestServer` implements `RequestReply`: one request in hand, one
  answer each, and after a lost answer nothing is taken any more.
* `EveryRequestSettles`: a request is answered, or given up, unless the server is stopped,
  dies, or is wedged for good (`Wedged`) in one of these ways: the socket owes an answer
  after an exception, the camera does not reply, a handler never returns (a pause that locks
  itself out, a ROS service that does not come back), or the saved map is never loaded at the
  start. No other request and no order of requests keeps one from its answer.
* `OutboundIsFresh`, `InboundIsKept`: `data_` has no lock, so messages can mix; what never
  happens is that one carries a field of something that was over before it began, the
  half of a rejected command included.
* `QuietAfterStop`: the subscription thread outlives `Stop`, and may have passed its check.
* `CommandsGoOut`: the subscription thread ends only once it is stopped, and a command it
  took goes out.
* `FilterFitsGait`: a motion inside another one, or in another thread, can leave the gait
  of one and the height filter of the other; the next flat or stair motion that runs alone
  repairs it. `basic_std` is excepted: it leaves the filter of whatever was before it.
* `CloudIsWhole`, `PositionIsFresh`: with the mutex the answer is one message; without it
  it may be a mixture, but of nothing older than the request.
* `AnswersAreTrue`: two toggles in either order leave the same posture, so racing handlers
  do no harm as long as nobody asks for the posture that was answered before.
* `OnlyLoopsFireAgain`: the second run of such a task carries the marks of the first.
* `AcceptedIsOwnOrLate`: never another thread's answer, never what was in the port
  before. That late answers are accepted is what the code does: two calls of
  `/lift/state_inquiry` are told apart by nothing.
* `SilentLineStaysInStep`: a call that begins on a silent line never reads the rest of a
  frame first. On a busy line it can, and is then deaf until it times out, because
  only a buffer that begins with the header is ever cleared.
* `SavedMapIsConfirmed`: the exceptions are a write under way, a write cut by a crash and
  two writes that overlapped; one undisturbed write afterwards repairs the file.
* `LastNavCallFails`: the repair of a broken connection to the navigation service is none:
  the client it makes is of another service's type.
* `SuccessIsReal`: per service, for changes that neither another change nor a restart of
  a service disturbed.
* `DeliveredIsArrived`: when the receive thread waits again, it has taken exactly the
  packets that have arrived whole, in order: a header or a payload cut between two
  portions is kept, and half a sync word at the end of the buffer is not thrown away.
* `OnlyRacingConnectsTerminate`: `std::thread` ends the program when a joinable thread is
  assigned. A lost link or a failed `connect()` never leads there, and the reason is a
  doubtful one: a lost link is never made again. Two handlers that connect at once lead
  there, as TLC shows without the exception.
* `ChargeWasReported`: the success of a charge command rests on a status that the robot
  did send. The status may be older than the command: `stop_charge` of a robot that was
  idle succeeds at once, and so does `start_charge` when the last report said charging.

### Bounds and why they are enough

* Two or three tasks and three uploads: the anomalies need the task that runs and the one
  that replaces it, and a pause without a scheduled task the terminated one that left its
  status. In `task_manager` uploads are unbounded.
* A day of two minutes and three minutes in all: the same minute, another minute and
  the next day.
* Three parts on the line (`LineBound`): the rest of one frame and the whole of another;
  two requests in the elevator's queue (`TodoBound`): the one given up and the next.
* `MaxFaults = 3` in `map_change`: one failure for each of the three calls of a service.
  Crashes need no bound, they lead back to the start.
* `RunsCap = 3` runs of an upload are told apart.
* Two items on the M20's stream (`MaxItems`): noise and a packet, either first, or two
  packets; every cut of a packet falls into one of them.
* Three requests (`MaxRequests`): one that times out, the next, which meets the stuck
  socket, and one of another kind. A second service with a timeout shares nothing with
  the first; the theorems cover all three.
* Two messages each way (`MaxRos`, `MaxZmq`): an old and a new one of each side.
* Two motions and two rounds in `spinning`: a motion inside or beside another that still
  has to publish. The five rounds of the code and any number of motions and messages are
  covered by the theorems.
* Three commands (`MaxCommands`): two of a kind from one handler while the other connects.
* `CHECK_DEADLOCK FALSE` where the system really may stop: the runs of the task manager,
  where after `Stop` nothing moves; `m20_link` and `lite3_link`, where nothing does after
  `disconnect()` or `std::terminate`; `request_server`, where the process ends;
  `message_relay` after `Stop`; and `spinning`, where the bounds on messages and motions
  are used up.
* Symmetry between the two handler threads is used in runs of invariants only.

### Fairness

`FairSpec` of `TaskManager`: a thread that can take a step takes one (`WF` of each of
the three), the services that an action calls answer, and the polling loop of a
navigation is left in the end (`SF` of `NavLeave`): `NAV_TIMEOUT_MS` sees to that
whatever `move_base` does. No fairness is assumed of requests, of `Stop`, of spurious
wakeups or of `move_base`.
`RequestServer`, `MessageRelay`, `Lite3Link`: the threads run (`WF` of each); signals,
operators, services, the network and `TaskManager::Stop` owe nothing. In `RequestServer`
that excepts a thread in a call that waits for a lock or a ROS service: a `blocking`
handler (`SrvRuns`) and the loading of the saved map (`MainRuns`) may return or not.
No liveness is checked of the other modules: `recv` of the M20 never returns on a silent
connection, a call on the elevator's line returns by its own clock, a map change waits
for services that may never come back, and `Spinning` is about what a read returns, not
when.

## 4. What is proved

With TLAPS, for every set of tasks, chains, threads, paths, packets and services, and every
bound, but for the limits some theorems of liveness have (below). The theorems of a module
are in the module of that name with `Proofs`, those of `TaskHistory` in
`TaskManagerProofs`. The properties of all passing runs are proved, those that speak of
what a thread can do from an assumption about `ENABLED` (below).

| Theorem | Statement | |
|---|---|---|
| `TypeCorrect` | `[]TypeOK` | `TaskManager` |
| `UploadNeverLost` | `[]NoLostUpload` | |
| `TerminateStopsDriving` | `[]TerminateStopsNavigation` | |
| `ReportIsOfTheRun` | `[]ReportMatchesExecution` | |
| `OnlyLoopsRepeat` | `OnlyLoopsFireAgain` | |
| `ThreadsGoOn` | `[]NoThreadStuck` | |
| `TerminationWorks` | `TerminateTakesEffect` | |
| `StopWorks` | `StopHangsOnlyIdle` | |
| `NeverReportsPaused` | the status is never `PAUSED`; `ResumeTask` does nothing | |
| `PauseFreezesStatus`, `PauseNeverReturns` | a pause that takes effect is the last thing the server thread does; the status stays `RUNNING`; `PauseAnswered` is false of every behaviour with one | |
| `ImmediateNeverPaused` | without scheduled tasks no pause stops a thread | |
| `ImmediateTermination`, `ImmediateStop` | without scheduled tasks: `TerminateTakesEffect` and `StopHangsOnlyIdle` without the exception of `PauseTask` | |
| `ManagerIsSlot` | `ImplementsSlot` | `TaskHistory` |
| `TwoRunsAtMost` | `[]RunsAtMostTwice` | |
| `TerminationHolds` | `[]OneActionAfterTerminate` | |
| `AcceptedIsRun` | `AcceptedUploadRuns` | |
| `ImmediateIsRun` | without scheduled tasks: the same without its last two exceptions | |
| `TypeCorrect` | `[]TypeOK` | `RequestServer` |
| `OneHand` | every request is with one party at a time (`Hands`) | |
| `NoStaleAnswer` | `[]AnswersAreOwn` | |
| `FewUnreported` | `[]OneUnreportedPerApi` | |
| `NeverEndsInOrder` | `[]NoCleanExit`: no end in order, and before a stop only by an `Abort` | |
| `ServerIsDisciplined` | `RequestDiscipline` | |
| `ThreadsGoOn` | `[]NoThreadStuck` | |
| `OwedAnswerIsTheLast` | after an exception that leaves an answer owed, nobody is answered any more | |
| `TimeoutSilencesApi` | after a timeout of an API, later requests do not get to it and are answered with status true | |
| `RoundsGoOn` | each round of the server leaves fewer requests, unless it is stopped, dies or is wedged for good | |
| `RequestsSettle` | `EveryRequestSettles` | |
| `TypeCorrect` | `[]TypeOK` | `MessageRelay` |
| `OutboundFresh` | `[]OutboundIsFresh` | |
| `InboundKept` | `[]InboundIsKept` | |
| `StoppedIsQuiet` | `QuietAfterStop` | |
| `SubscriptionLasts` | the subscription ends only when the relay is stopped | |
| `ThreadsGoOn` | `[]NoThreadStuck` | |
| `MessagesGetThrough` | `CommandsGoOut` | |
| `TypeCorrect` | `[]TypeOK` | `Spinning` |
| `FilterFits` | `[]FilterFitsGait` (`basic_std` excepted) | |
| `WholeCloud` | `[]CloudIsWhole` | |
| `FreshPosition` | `[]PositionIsFresh` | |
| `MapChangeTypes` | `[]TypeOK` | `MapChange` |
| `FileIsConfirmed` | `[]SavedMapIsConfirmed` | |
| `SuccessIsLoaded` | `[]SuccessIsReal` | |
| `NavIsNotRetried` | `LastNavCallFails` | |
| `NavStaysMistyped` | a client of the wrong type stays so until the node restarts, and `change_map` unreached | |
| `ToldIsTrue` | `[]AnswersAreTrue` | `Lite3Link` |
| `RacesAloneEnd` | `[]OnlyRacingConnectsTerminate` | |
| `ThreadsGoOn` | `[]NoThreadStuck` | |
| `RobotKeepsHearing` | `HeartbeatsGoOn` | |
| `ElevatorLinkTypes` | `[]TypeOK` | `ElevatorLink` |
| `OneExchange` | never two threads in an exchange | |
| `RepliesAreOwnOrLate` | `[]AcceptedIsOwnOrLate` | |
| `SilentLineInStep` | `[]SilentLineStaysInStep` | |
| `SilentLineAnswersOwn` | on a silent line no call accepts a late answer | |
| `M20LinkTypes` | `[]TypeOK` | `M20Link` |
| `RacesAloneTerminate` | `[]OnlyRacingConnectsTerminate` | |
| `ChargeIsReported` | `ChargeWasReported` | |
| `LostIsForGood`, `DeafKeepsCharge` | a lost connection is never made again; the charge state stays the last one heard | |
| `PacketsAreTaken` | `[]DeliveredIsArrived` | |

The theorems of safety assume the named assumptions on the constants and nothing else: tasks are task
records with at least one action and without marks (what `ParseTask` accepts), chains
are lists of actions, a day has at least a minute, the paths hold neither the empty
nor the garbled content, no thread bears the name of an addressee, the payloads of the M20
are bytes and fit their length field, and noise holds no sync word.

**TaskManager.** `TypeOK` is not inductive: `Announce` reads
`taskCopy.actions[actionIndex]` and `Dispatch` reads `Head(pending)`, which are of
their types only where the index is in range and the list is not empty. `TypeInv` adds
those facts (`ExecInv`): the index is in range from the loop's head to the
announcement, `pending` is not empty while an action is under way, only the four waits
can be blocked or asleep, and the executor is unborn before `Start`. `TypeInv` is
inductive, with one lemma per group of actions; the longest leaf is the mark on a
schedule table (`MarkRunType`). The other three invariants are each inductive relative
to it: `NoLostUpload` by the mutex, `TerminateStopsNavigation` by a case on which thread
moves, with `CancelNavEnds` (a cancellation leaves no goal driving), and
`ReportMatchesExecution` because only `Announce` writes the index and total and only
`Proceed` moves on. `OnlyLoopsFireAgain` speaks of a step, and of two copies of the task
that an upload may have made different. Its invariant `MarksCopied` says that a mark of
the shared table is in the copy unless the executor has fired since it took the copy; a
task without `loop` fires each schedule at most once in a copy, and the next copy brings
the mark with it.

**TaskHistory.** What the threads do to the slot is said once, by `ExecMoves` and
`OtherMoves`: each step keeps `SlotState`, or chooses, copies, starts again or leaves.
From these and `TypeInv` the refinement follows step by step. `RunsAtMostTwice` is not
inductive: `SlotInv` counts with the runs of an upload the two that may still come, one
for being fresh and one for being chosen. `OneActionAfterTerminate`
is inductive beside the types, because nothing but `Announce` follows the check.

**RequestServer.** `Inv` says in whose hands each request is (`Hands`), what a service can
have at all (`Fresh`), what a socket owes (`Owing`), what is about to be answered
(`Result`) and how far the main thread is (`Course`). The heart is `Owing`: while the
receive of a request runs, nothing but this request is on its way over that socket, and a
socket ready to send has nothing on its way. That is why no late reply is ever received,
and `OneUnreportedPerApi` too: the request whose reply is missing keeps the socket.
`RequestDiscipline` is a refinement whose steps are the receive and the send of `rep`.

**MessageRelay.** A callback, once it has copied a field, knows that the field is of its
own message or of a command taken since (`Outbound`); `Inbound` is the same for a command.
Each of the two is kept by the other's steps because those only write newer values.
`Stopping` says what is over when `Stop` gets from one of its lines to the next.

**Spinning.** Two invariants that do not need each other. `Lone`: unless motions mixed
there is one motion at most, it is alone in its thread's stack, from its second step on
the gait is its own, and once it has published so is the filter, unless it is `basic_std`. `Data`: messages are numbered as they come, what a callback
stores is newer than what it replaces (`Numbers`), each subscription is in one thread
(`Places`), what a position has read is not older than the request (`Pose`), and who holds
the mutex of the cloud is at the place where the cloud may be half written (`Cloud`).

**Lite3Link.** `AnswersAreTrue` speaks of a network that is empty, so it is not inductive.
`PostureInv` counts the toggles on their way: while none failed, the posture is the one
answered if and only if their number is even. `ModeInv` looks at the last mode on its way: it
is the one answered, or, without one, the robot has it. `LinkInv` is about the connection as
in `M20Link`: unless two handlers raced, one at most is behind its question for a link, and
the receive thread does not exist before there is one.

**MapChange.** `Inv` adds to `TypeOK` and `SuccessIsReal` that a thread at rest has no
result, that a success and the path of a thread about to save are confirmed
(`ChangesInv`), that an undisturbed change runs alone (`AloneInv`), and that there is one
writer at most, in front of an empty file, unless writes were spoilt (`FileInv`).
`SavedMapIsConfirmed` alone is not inductive: it does not say what the writer will write.
`LastNavCallFails` needs `TriesInv`: a thread that calls the navigation service for the third
time has left it a client of the wrong type, which no other thread repairs.

**ElevatorLink.** What `TypeOK` says of the line cannot be kept without saying whose frames
may be there. `Inv` types the line by the holder of the lock (`LineInv`): its parts are
addressed to the holder, or late, stale, another robot's. With at most one thread between
`Begin` and `Return` (`LockInv`), a thread finds no other's answer (`CallsInv`).
`SteadyInv` follows the line of a call that found it silent: its parts come in pairs.
`OwnLine` adds that they are that call's own, if no other robot's request came in between.

**M20Link.** `Inv` adds to `TypeOK` three facts. `ConnectionInv`: unless two handlers raced,
at most one is connecting, the receive thread does not exist before it is through, each of
its steps knows what it left in `sockfd_`, and a socket with a receive thread is not given
back before the end. The last conjunct makes `OnlyRacingConnectsTerminate` inductive: who
finds a socket never gets to the threads. `ChargeInv`: the last charge state is unknown or
that of a delivered packet. `WaitInv`: a handler under way has not answered, and one that
waits does so for one of the two charge commands.

`DeliveredIsArrived` needs a second invariant, `BytesInv`, over the first. `PacketsInv`: the
packets lie in the stream as their headers say, in order, and every sync word begins one or
lies inside one. It is kept because two items sent one after the other make no sync word
across their border (`SyncInConcat`): a packet begins with 235, 145, of which a sync word
that began before would need the second half there, and noise begins with no byte of it
(`NoiseAssumption`). `StreamInv`: the buffer and what is on the way continue the stream where
it was left; nothing is sent before there is a connection. `TakenInv`: the packets in front
of the buffer are delivered, the others begin in it or behind it. What `Discard` drops then
holds no beginning of a packet, the last three bytes being kept; a sync word in front of the
buffer is that of the next packet (`NextPacket`), although a payload may contain one.

### Liveness

Each theorem of liveness has the form `FairSpec /\ []GuardsEnable => P`. From `WF_vars(A)`
a proof gets a step of `A` only where `A` is enabled, and for the prover `ENABLED` is a
word without a meaning. `GuardsEnable` is the part of the meaning that is needed: where the
variables have their types and a thread's guard holds, the thread has a step. It says nothing
of the program: it is true of every state, reachable or not, because each action whose guard
it is gives a value to every variable, and changes one. TLC, which computes `ENABLED`, agrees
wherever it checks `NoThreadStuck`.

`ThreadsGoOn` proves from it that `NoThreadStuck` is an invariant, for all values of the
constants: that the guards hold wherever the thread does not wait. What that takes of the
program are facts of the invariants: the index of an announced action is in its list, what is
left of an action under way is not empty, a schedule is compared with an instant that is not
ahead of the clock (`ClockInv`), and the socket in whose receive a request is owes one, is
closed or is gone. The rest of a liveness proof is that the thread is at such a place, that
its step leads on, and that no other thread undoes it (the premises of the rule WF1, put
together by `PTL`).

*Ranks.* A run of the executor is long, and a rank says how far it is from its end: each
step of the executor lowers it, no other thread raises it. `ExecRank` is for a terminated
executor (`TerminationWorks`): the flag is seen soon, the long part is the list of
schedules, looked through once more. `StopRank` is for a stopped one whose termination a
late upload may have taken back (`StopWorks`): it adds what is left of an action, for
`ExecuteSwitchMap` looks at `should_cancel_` only. `AskRank` with `ActsLeft` is for a run
that nothing disturbs (`AcceptedIsRun`): the actions left, then the place in the one under
way. There the polling of a navigation lowers nothing, and the strong fairness of
`NavLeave` ends it. `AskInv` says why the end of the run is enough: an upload not yet copied
is still flagged, or was just taken (`FreshInv`); who sleeps on it is about to be notified
(`NoLostUpload`); nothing is paused while the server thread goes on (`WaitInv`).

*Requests* (`RequestsSettle`). A request may be overtaken by others that came later, but
each takes its place once. `RoundsGoOn` proves, for any number of requests, that a round
of the server leaves fewer of those (`Left`, with their number by `FiniteSetTheorems`). A
round that does not end is one in a handler that never returns or at a silent camera: these
are states of `Wedged`, and no other step leads out of them.

*Relay and heartbeat.* `SubscriptionLasts` is a safety invariant: the subscription thread,
once it is through with its start, is on its way round or the relay is stopped. The heartbeat
thread of the Lite3 goes round three places.

*Limits.* To conclude from "each step lowers the rank" that the end comes takes induction
over the rank, about temporal formulas, which the prover cannot do; written out rank by
rank it can, up to a limit. So `TerminationWorks` and `StopWorks` assume tasks of at most
4 schedules (`FewSchedules`), `AcceptedIsRun` tasks of at most 8 actions (`FewActions`),
`RequestsSettle` at most 8 requests (`FewRequests`). The rank lemmas (`ExecFalls`,
`StopFalls`, `AskFalls`) use the limits only for its range. `ShortChains` is of another
kind: it limits chains to 4 actions, and forbids that one loads another, without which
`StopHangsOnlyIdle` and `AcceptedUploadRuns` are false (section 5).

*Without schedules.* `PauseTask` acts on a status `RUNNING`, and only
`ExecuteScheduledTask` reports that (`ExecReports`). If no task has schedules
(`Immediate`), nothing is ever paused, and the exceptions that the three properties make of
`PauseTask` go away, as does that of a schedule that holds the executor.

Not proved: `GuardsEnable`, for the reason above; and liveness beyond these limits, where
the runs cover nothing either, so that it remains open there.

### What never recovers

Some faults of section 5 are for good, and that is proved for every instance. Each of these
theorems is a state the code enters after an ordinary fault and a step-by-step argument that
nothing leaves it: the mutex that `PauseTask` keeps (`PauseFreezesStatus`), the REP socket that
owes an answer (`OwedAnswerIsTheLast`), the REQ socket that owes a receive
(`TimeoutSilencesApi`), the client of the wrong type (`NavStaysMistyped`), the lost connection
of the M20 (`LostIsForGood`). They hold by the invariants above: that the server thread alone
touches its socket and knows what it owes (`Hands`), and that no handler is between its question
for a link and the answer while there is one (`ConnectionInv`). `TimeoutSilencesApi` says in
addition what the operator is told: status true, for a request that never reached its service.

## 5. Observed, without a run of its own

Of tasks:

* An immediate task is executed without ever being reported `RUNNING`, so a pause of it
  does nothing and is answered "task paused" (`ImmediateNeverPaused`). Unless a scheduled
  task ran before and was terminated while it waited for its time: that leaves the status
  `RUNNING`, and a pause of the immediate task then stops the server thread and the
  executor, and with it any upload accepted meanwhile.
* Nothing ever reports `PAUSED`, so `ResumeTask` does nothing either
  (`NeverReportsPaused`).
* A chain that holds the switch to its own map nests into itself without end, and its loop
  looks only at `should_cancel_`: if an upload takes the termination of `Stop` back, `Stop`
  waits for it in vain.
* A task terminated inside a delay, a navigation or a chain ends `FAILED`, not `CANCELLED`.
* A looping scheduled task fires again every second of its minute: `last_run_date`, the
  guard against that, is written to the shared task and tested in the copy.
* A schedule of the old task that fires marks the table of the task uploaded meanwhile.
* A scheduled task that waits for its time keeps every later upload from running.
* An upload soon after a termination takes the termination back, and the old run goes on.
* A goal preempted by the operator is waited for until the hour is over.

Of requests and messages:

* `waitForExistence` without a timeout (`ex_client.cpp:558`): a service that goes down at
  the wrong moment stops the answers to all requests; so does a camera that is silent
  (both in `Wedged`).
* An action of a task whose parameter has the wrong type ends the process when it is
  reached: `param.value(...)` throws, and nothing in `ExecuteThread` catches (`Abort`).
* An exception that is not one of `json` leaves the REP socket between receive and send, and
  no request is answered any more (`OwedAnswerIsTheLast`).
* After one receive timeout of the recording or the mapping API its later requests are
  answered with status true and not sent (`TimeoutSilencesApi`).
* Only the first `MessageBase` of the process makes a publisher (`message_base.cpp:7`).
* A motion spins inside its handler, so another motion can begin in the middle of it.
* `HandleLite3Motion` names "nav, normal" in its error and accepts "flat" and "basic_std"
  (`ex_client.cpp:861`); a second "stand" makes a robot that stands sit down.

Of maps:

* After one restart of the navigation service, `change_map` is not reached again until the
  node restarts (`Recreated`, `NavStaysMistyped`).
* A service whose first call broke and whose second succeeded counts as failed.
* After a change in which one service failed, or two changes at once, localization and
  navigation have different maps; success is reported.
* `MapPath` may read the file while it is empty.

Of the robot's link and the elevator:

* The heartbeat is due every 100 s; the protocol document asks for one within 10 s
  without other messages, and the comment says that the thread is switched off.
* After the M20's connection is lost, nothing makes it again, although every request
  begins with the comment that the connection is ensured (`ex_client.cpp`, 确保已连接):
  `LostIsForGood`.
* A handler that finds another one between `socket()` and `::connect` takes the robot for
  connected, and its command fails.
* The packet number is counted up without a lock (`m20_controller.cpp:468`), and after a
  send that takes only part of a packet, which is reported as a failure (`:984`), the next
  packet goes out behind the part.
* After `basic_std` the height filter is still that of the motion before.
* The result of `setGait` is overwritten by that of the packet sent after it.
* `disconnect()` joins a thread that is in `recv`, before it closes the socket that would
  wake it: with a silent robot the destructor does not return.
* Floor 0 is sent as floor 127 (`lift_controller.py`, `target_floor - 1` in seven bits), and
  a floor is counted from 0 in a call and as the elevator sends it in an inquiry.
* An answer's checksum is computed over the robot's own group and number, so that the
  answer of another elevator fails it.
* A thread waits its turn on the line for as long as those before it, 13 s each.

## 6. Not modelled

What the runs reach of each component is in `PROJECT.json`. Left, and worth doing: the
composition of `TaskManager` with `RequestServer`: `Stop` of the first inside `Stop` of the
second, and the handlers of navigation that both call. Each models the other by what it may
do (`TaskManagerStopped`, `plain` and `blocking` requests). In `TaskManager` the parameters of
the actions have the types `ExecuteAction` reads, and the calls of an action answer.

Not modelled, and why:

* **The text of the M20's packets** and the nine requests that nobody in the node makes
  (light, music, sleep and the like): one call, one packet, no state but the number.
* **`Velocity`, `Relocalization`, `Link`**: each publishes one message or answers a
  constant; nothing they change is read again.
* **`Lite3Controller::disconnect`**: it runs in a destructor behind one that ends the
  process (`NoCleanExit`). `stopHeartbeat` and `setStatusCallback` have no caller.
* **The messages for `imu`, `odom` and `amcl_pose`**, `MessageManager::Start` and `Stop` by
  name, `StartServiceCallback`: compiled, never registered or called.
* **`AGVController`**: an empty class.
* **The vendored headers** (`json.h`, `zmq.hpp`, `zmq_addon.hpp`): third-party code, modelled
  by what the nodes use of it: an exception on what does not parse, sockets that take
  turns. They are five sixths of the lines under `src/`, so a share of all lines says little;
  the nodes themselves have about 5600, headers, scripts and interface files included.
* Formatting and logging, the conversion of poses, and functions nobody calls
  (`set_target_elevator`, `control_rear_door`, `ElevatorControl.close`).
