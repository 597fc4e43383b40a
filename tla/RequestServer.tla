---------------------------- MODULE RequestServer ----------------------------
(***************************************************************************)
(* The life of the bridge node and its request server: BridgeX::Run and    *)
(* Stop, ExClient::Start, Stop and ServerThread (ex_client.cpp), and the   *)
(* request sockets of the recording, the mapping and the camera service    *)
(* (map/bag_recording_api.cpp, map/mapping_api.cpp, cam/camera.cpp).       *)
(*                                                                         *)
(*   main  starts and stops everything and runs the destructors;           *)
(*   srv   ServerThread, which takes a request from the REP socket, does   *)
(*         it and sends the answer;                                        *)
(*   the operators, who may stop waiting for an answer, and the services,  *)
(*   which may answer, refuse, do it without an answer, or never answer.   *)
(*                                                                         *)
(* A "blocking" request stands for the handlers that may never return:     *)
(* TaskPause and TaskResume, which lock status_mutex_ twice (TaskManager), *)
(* and MapChange and M20Motion, which call ROS services without a time     *)
(* limit; M20Motion may also end the process in racing connects (M20Link,  *)
(* Lite3Link).  A "plain" one stands for every other handler that needs    *)
(* none of the three services, a "garbled" one for the bytes that are not  *)
(* JSON and whose parse error cannot be packed into JSON either.           *)
(***************************************************************************)
EXTENDS Naturals

CONSTANTS
    Services,     \* the services the operators use
    MaxRequests,  \* bound: requests of a behaviour
    NoAnswer      \* no answer yet

Apis == {"bag", "mapping", "camera"}

ASSUME ServicesAssumption == Services \subseteq Apis
ASSUME MaxRequestsAssumption == MaxRequests \in Nat

Requests == 1..MaxRequests
Locals == {"plain", "blocking", "garbled"}   \* no service of these three
Kinds == Apis \cup Locals

\* What a request is answered: the status, and the request whose reply from
\* a service is the text of the message (0: no reply of a service).
Answers == [ok : BOOLEAN, from : {0} \cup Requests]

ASSUME NoAnswerAssumption == NoAnswer \notin Answers

VARIABLES
    main,       \* where the main thread is
    isRunning,  \* ExClient::is_running_
    relay,      \* the message relay has a thread in its sub_threads_
    program,    \* how the process ended
    srv,        \* where ServerThread is
    cur,        \* the request it took last, 0 for none
    result,     \* the answer it is going to send
    rep,        \* the state of the REP socket
    sock,       \* the REQ socket of each service, "null" when reset
    ready,      \* is_initialized_ / connected_ of each service
    kind,       \* what each request asks for, "unsent" before it is sent
    inbox,      \* sent, and not taken by ServerThread
    waiting,    \* the operator still waits for the answer
    answer,     \* what ServerThread answered
    atService,  \* on the way to its service
    replies,    \* replies of a service on their way back
    performed   \* done by a service

mainVars  == <<main, isRunning, relay, program>>
srvVars   == <<srv, cur, result, rep>>
apiVars   == <<sock, ready>>
operators == <<kind, inbox, waiting, answer>>
services  == <<atService, replies, performed>>
vars      == <<mainVars, srvVars, apiVars, operators, services>>

MainPcs == {"boot", "init", "starting", "run", "noServer", "tmStop", "bag",
            "mapping", "wait", "destroy"}
SrvPcs == {"unborn", "top", "recv", "process", "apiCheck", "apiSend",
           "apiRecv", "reply", "exited"}

\* ServerThread is between the receive and the send.
Taken == {"process", "apiCheck", "apiSend", "apiRecv", "reply"}

\* The type invariant.
TypeOK ==
    /\ main \in MainPcs /\ isRunning \in BOOLEAN /\ relay \in BOOLEAN
    /\ program \in {"running", "segfault", "terminated", "aborted", "ended"}
    /\ srv \in SrvPcs
    /\ cur \in {0} \cup Requests
    /\ result \in Answers \cup {NoAnswer}
    /\ rep \in {"none", "recv", "send", "closed"}
    /\ sock \in [Apis -> {"send", "recv", "closed", "null"}]
    /\ ready \in [Apis -> BOOLEAN]
    /\ kind \in [Requests -> Kinds \cup {"unsent"}]
    /\ inbox \subseteq Requests /\ waiting \subseteq Requests
    /\ answer \in [Requests -> Answers \cup {NoAnswer}]
    /\ atService \subseteq Requests
    /\ replies \subseteq Requests /\ performed \subseteq Requests

Init ==
    /\ main = "boot" /\ isRunning = FALSE /\ relay = FALSE
    /\ program = "running"
    /\ srv = "unborn" /\ cur = 0 /\ result = NoAnswer /\ rep = "none"
    /\ sock = [a \in Apis |-> "send"] /\ ready = [a \in Apis |-> TRUE]
    /\ kind = [r \in Requests |-> "unsent"]
    /\ inbox = {} /\ waiting = {}
    /\ answer = [r \in Requests |-> NoAnswer]
    /\ atService = {} /\ replies = {} /\ performed = {}

-----------------------------------------------------------------------------
(* main: BridgeX::Run, ExClient::Start.                                    *)

\* manager_->StartAll(): Init starts the thread of the message relay.
StartAll ==
    /\ main = "boot"
    /\ relay' = TRUE
    /\ main' = "init"
    /\ UNCHANGED <<isRunning, program, srvVars, apiVars, operators, services>>

\* InitZMQ binds the REP socket; a port in use makes Start return false, and
\* Run goes on without looking.
InitZMQ ==
    /\ main = "init"
    /\ \/ rep' = "recv" /\ isRunning' = TRUE /\ main' = "starting"
       \/ rep' = rep /\ UNCHANGED isRunning /\ main' = "noServer"
    /\ UNCHANGED <<relay, program, srv, cur, result, apiVars, operators,
                   services>>

\* The saved map has been loaded, by service calls without a time limit; then
\* the server thread is started.
StartServer ==
    /\ main = "starting"
    /\ srv' = "top"
    /\ main' = "run"
    /\ UNCHANGED <<isRunning, relay, program, cur, result, rep, apiVars,
                   operators, services>>

-----------------------------------------------------------------------------
(* main: BridgeX::Stop, ExClient::Stop and the destructors.                *)

\* A signal.  Without a server Stop returns at once: is_running_ is false.
Stop ==
    /\ \/ main = "run" /\ main' = "tmStop"
       \/ main = "noServer" /\ main' = "destroy"
    /\ isRunning' = FALSE
    /\ UNCHANGED <<relay, program, srvVars, apiVars, operators, services>>

\* TaskManager::Stop has returned (it may hang: see TaskManager).
TaskManagerStopped ==
    /\ main = "tmStop"
    /\ main' = "bag"
    /\ UNCHANGED <<isRunning, relay, program, srvVars, apiVars, operators,
                   services>>

InCall(a) == srv = "apiRecv" /\ kind[cur] = a

\* To close a socket another thread is in is undefined: the process dies or
\* the call fails.
ClosedUnder(inUse) ==
    program' \in IF inUse THEN {"running", "segfault"} ELSE {"running"}

\* Stop of an API: socket_->close(), socket_.reset(), is_initialized_ = false.
CloseApi(a) ==
    /\ main = a /\ sock[a] \in {"send", "recv"}
    /\ sock' = [sock EXCEPT ![a] = "closed"]
    /\ ClosedUnder(InCall(a))
    /\ UNCHANGED <<main, isRunning, relay, srvVars, ready, operators, services>>

ResetApi(a) ==
    /\ main = a /\ sock[a] = "closed"
    /\ sock' = [sock EXCEPT ![a] = "null"]
    /\ UNCHANGED <<mainVars, srvVars, ready, operators, services>>

UnsetApi(a) ==
    /\ main = a /\ sock[a] = "null"
    /\ ready' = [ready EXCEPT ![a] = FALSE]
    /\ main' = IF a = "bag" THEN "mapping" ELSE "wait"
    /\ UNCHANGED <<isRunning, relay, program, srvVars, sock, operators,
                   services>>

StopApi == \E a \in {"bag", "mapping"} : CloseApi(a) \/ ResetApi(a) \/ UnsetApi(a)

\* joinable() says nothing about the thread having ended: a second is waited
\* for in any case, the thread is detached, CleanupZMQ closes its socket.
CleanupZMQ ==
    /\ main = "wait"
    /\ rep' = "closed"
    /\ ClosedUnder(srv = "recv")
    /\ main' = "destroy"
    /\ UNCHANGED <<isRunning, relay, srv, cur, result, apiVars, operators,
                   services>>

\* Mutant: the APIs' Stop leaves a socket alone that it has already reset.
DestroyGuarded ==
    /\ main = "destroy"
    /\ program' = IF relay THEN "terminated" ELSE "ended"
    /\ UNCHANGED <<main, isRunning, relay, srvVars, apiVars, operators,
                   services>>

\* ~MappingApi stops the API a second time, through the null socket_; the
\* destructor of a relay has a joinable thread in its vector.
Destroy ==
    /\ main = "destroy"
    /\ program' = IF sock["mapping"] = "null" THEN "segfault"
                     ELSE IF relay THEN "terminated" ELSE "ended"
    /\ UNCHANGED <<main, isRunning, relay, srvVars, apiVars, operators,
                   services>>

-----------------------------------------------------------------------------
(* srv: ServerThread and ProcessRequest.                                   *)

SrvTop ==
    /\ srv = "top"
    /\ srv' = IF isRunning THEN "recv" ELSE "exited"
    /\ UNCHANGED <<mainVars, cur, result, rep, apiVars, operators, services>>

\* recv: out of turn on a socket that owes an answer, or closed, it throws a
\* zmq::error_t that the loop catches; else it waits a second for a request.
RecvFails ==
    /\ srv = "recv" /\ (rep # "recv" \/ inbox = {})
    /\ srv' = "top"
    /\ UNCHANGED <<mainVars, cur, result, rep, apiVars, operators, services>>

\* Requests of different operators come in any order.
Receive(r) ==
    /\ srv = "recv" /\ rep = "recv" /\ r \in inbox
    /\ inbox' = inbox \ {r}
    /\ rep' = "send"
    /\ cur' = r
    /\ srv' = "process"
    /\ UNCHANGED <<mainVars, result, apiVars, kind, waiting, answer, services>>

LocalAnswer == [ok |-> TRUE, from |-> 0]

\* In a handler that may never return.
Blocked == srv = "process" /\ kind[cur] = "blocking"

\* std::terminate: two handlers connect to the robot at the same time, and
\* the later one assigns to a joinable thread, in the executor, a stair command
\* or the handler here; or an action of a task has a parameter of the wrong
\* type, which the executor does not catch.
Abort ==
    /\ main \in {"run", "tmStop"} \/ Blocked
    /\ program' = "aborted"
    /\ UNCHANGED <<main, isRunning, relay, srvVars, apiVars, operators,
                   services>>

\* Mutant: a request that cannot be answered gives the socket back.
ProcessSkipping ==
    /\ srv = "process"
    /\ \/ /\ kind[cur] \in {"plain", "blocking"}
          /\ srv' = "reply" /\ result' = LocalAnswer /\ rep' = rep
       \/ /\ kind[cur] = "garbled"
          /\ srv' = "top" /\ result' = result /\ rep' = "recv"
       \/ /\ kind[cur] \in Apis
          /\ srv' = "apiCheck" /\ UNCHANGED <<result, rep>>
    /\ UNCHANGED <<mainVars, cur, apiVars, operators, services>>

\* PackMsg throws inside the handler of the parse error, which leaves
\* ProcessRequest: the loop goes on with the answer still owed.
Process ==
    /\ srv = "process"
    /\ \/ /\ kind[cur] \in {"plain", "blocking"}
          /\ srv' = "reply" /\ result' = LocalAnswer
       \/ kind[cur] = "garbled" /\ srv' = "top" /\ UNCHANGED result
       \/ kind[cur] \in Apis /\ srv' = "apiCheck" /\ UNCHANGED result
    /\ UNCHANGED <<mainVars, cur, rep, apiVars, operators, services>>

\* The text of the recording and the mapping API goes into a message with
\* status true, an error like a reply; the camera's handlers say false.
Failure == [ok |-> kind[cur] # "camera", from |-> 0]

Return(outcome) == srv' = "reply" /\ result' = outcome

ApiCheck ==
    /\ srv = "apiCheck"
    /\ IF ready[kind[cur]]
          THEN srv' = "apiSend" /\ UNCHANGED result
          ELSE Return(Failure)
    /\ UNCHANGED <<mainVars, cur, rep, apiVars, operators, services>>

\* send: in turn, or the error of a socket that owes a receive or is closed.
ApiSend ==
    /\ srv = "apiSend" /\ sock[kind[cur]] # "null"
    /\ IF sock[kind[cur]] = "send"
          THEN /\ sock' = [sock EXCEPT ![kind[cur]] = "recv"]
               /\ atService' = atService \cup {cur}
               /\ srv' = "apiRecv"
               /\ UNCHANGED result
          ELSE Return(Failure) /\ UNCHANGED <<sock, atService>>
    /\ UNCHANGED <<mainVars, cur, rep, ready, operators, replies, performed>>

\* The reply of request r is what the socket delivers next.
ApiReply(r) ==
    /\ srv = "apiRecv" /\ sock[kind[cur]] = "recv"
    /\ r \in replies /\ kind[r] = kind[cur]
    /\ replies' = replies \ {r}
    /\ sock' = [sock EXCEPT ![kind[cur]] = "send"]
    /\ Return([ok |-> kind[cur] # "camera" \/ r \in performed, from |-> r])
    /\ UNCHANGED <<mainVars, cur, rep, ready, operators, atService, performed>>

\* Mutant: a timeout makes the socket ready for the next request.
ApiTimeoutResets ==
    /\ srv = "apiRecv" /\ sock[kind[cur]] = "recv" /\ kind[cur] # "camera"
    /\ sock' = [sock EXCEPT ![kind[cur]] = "send"]
    /\ Return(Failure)
    /\ UNCHANGED <<mainVars, cur, rep, ready, operators, services>>

\* Mutant: no timeout is set, as for the camera.
ApiTimeoutUnset == FALSE

\* ZMQ_RCVTIMEO of the recording and the mapping API; the camera has none.
ApiTimeout ==
    /\ srv = "apiRecv" /\ sock[kind[cur]] = "recv" /\ kind[cur] # "camera"
    /\ Return(Failure)
    /\ UNCHANGED <<mainVars, cur, rep, apiVars, operators, services>>

\* The socket was closed under the call, or before it.
ApiRecvClosed ==
    /\ srv = "apiRecv" /\ sock[kind[cur]] = "closed"
    /\ Return(Failure)
    /\ UNCHANGED <<mainVars, cur, rep, apiVars, operators, services>>

\* socket_-> of a socket that Stop has reset since is_initialized_ was read.
ApiNull ==
    /\ srv \in {"apiSend", "apiRecv"} /\ sock[kind[cur]] = "null"
    /\ program' = "segfault"
    /\ UNCHANGED <<main, isRunning, relay, srvVars, apiVars, operators,
                   services>>

\* An answer to an operator who has gone is dropped by the socket.
Reply ==
    /\ srv = "reply"
    /\ IF rep = "send"
          THEN /\ rep' = "recv"
               /\ answer' = [answer EXCEPT ![cur] = result]
               /\ waiting' = waiting \ {cur}
          ELSE UNCHANGED <<rep, answer, waiting>>
    /\ srv' = "top"
    /\ UNCHANGED <<mainVars, cur, result, apiVars, kind, inbox, services>>

-----------------------------------------------------------------------------
(* The operators and the services.                                         *)

Ask(r, k) ==
    /\ kind[r] = "unsent" /\ \A s \in Requests : s < r => kind[s] # "unsent"
    /\ rep \in {"recv", "send"}
    /\ kind' = [kind EXCEPT ![r] = k]
    /\ inbox' = inbox \cup {r} /\ waiting' = waiting \cup {r}
    /\ UNCHANGED <<mainVars, srvVars, apiVars, answer, services>>

\* The operator's own timeout; the request stays where it is.
GiveUp(r) ==
    /\ r \in waiting
    /\ waiting' = waiting \ {r}
    /\ UNCHANGED <<mainVars, srvVars, apiVars, kind, inbox, answer, services>>

\* A service does the request or refuses it, and answers or never does.
Serve(r) ==
    /\ r \in atService
    /\ atService' = atService \ {r}
    /\ performed' \in {performed, performed \cup {r}}
    /\ replies' \in {replies, replies \cup {r}}
    /\ UNCHANGED <<mainVars, srvVars, apiVars, operators>>

-----------------------------------------------------------------------------
MainStep == StartAll \/ InitZMQ \/ StartServer \/ StopApi \/ CleanupZMQ \/ Destroy

SrvStep ==
    \/ SrvTop \/ RecvFails \/ Process \/ ApiCheck \/ ApiSend \/ ApiTimeout
    \/ ApiRecvClosed \/ ApiNull \/ Reply
    \/ \E r \in Requests : Receive(r) \/ ApiReply(r)

World ==
    \E r \in Requests :
       \/ \E k \in Services \cup Locals : Ask(r, k)
       \/ GiveUp(r)
       \/ Serve(r)

Next ==
    /\ program = "running"
    /\ MainStep \/ Stop \/ TaskManagerStopped \/ Abort \/ SrvStep \/ World

Spec == Init /\ [][Next]_vars

\* The two threads run, but nothing makes a call return that waits for a lock
\* or a service: a blocking handler, and the loading of the saved map.
MainRuns == program = "running" /\ main # "starting" /\ MainStep
SrvRuns == program = "running" /\ ~Blocked /\ SrvStep

\* A signal, the end of TaskManager::Stop, the operators and the services owe
\* nothing either.
FairSpec == Spec /\ WF_vars(MainRuns) /\ WF_vars(SrvRuns)

-----------------------------------------------------------------------------
(* Properties.                                                             *)

Answered(r) == answer[r] # NoAnswer

RepliesAreOwn == \A r \in Requests : Answered(r) => answer[r].from \in {0, r}

CameraOkIsDone ==
    \A r \in Requests : kind[r] = "camera" /\ Answered(r) /\ answer[r].ok =>
        r \in performed

\* After a receive timeout, a late reply of a service is never given as the
\* answer to a later request: the socket that still owes the receive refuses
\* every further send.  And a camera request that is answered with status
\* true was done by the camera.
AnswersAreOwn == RepliesAreOwn /\ CameraOkIsDone

\* For the same reason at most one request of the recording and one of the
\* mapping API can be done without ServerThread knowing of it.
Unreported(a) ==
    {r \in Requests : /\ kind[r] = a
                      /\ r \in atService \cup replies \cup performed
                      /\ Answered(r) /\ answer[r].from # r}

OneUnreportedPerApi ==
    \A a \in Apis : \A r, s \in Unreported(a) : r = s

\* The process never comes to the end of main: once requests were served,
\* stopping ends in the use of a null socket, and otherwise in the
\* destruction of a joinable thread.  Nothing it does with its own sockets
\* ends it before it is stopped; what may do so is an Abort, once the server
\* thread and the executor are there.
NoCleanExit ==
    program # "running" =>
        \/ program = "aborted" /\ srv # "unborn"
        \/ /\ ~isRunning
           /\ program = IF srv = "unborn" THEN "terminated" ELSE "segfault"

\* No answer will ever be sent if it stays so: the loop spins on a socket that
\* owes one; the camera's receive waits without a timeout; a handler, or the
\* change to the saved map before the server thread is started, waits for a
\* lock or a service.
Wedged ==
    \/ srv \in {"top", "recv"} /\ rep = "send"
    \/ /\ srv = "apiRecv" /\ kind[cur] = "camera"
       /\ \A r \in replies : kind[r] # "camera"
    \/ Blocked \/ main = "starting"

Over == ~isRunning \/ program # "running"

\* A request that is waited for is answered, unless the server is stopped or
\* dies, or one of the ways to wedge it has come to pass for good: no other
\* request keeps the server, and no order of requests starves one.
EveryRequestSettles ==
    \A r \in Requests :
        r \in waiting ~> (r \notin waiting \/ Over \/ []Wedged)

\* The threads that FairSpec lets run have a step to take.
MainCanStep == ENABLED <<MainRuns>>_vars
SrvCanStep == ENABLED <<SrvRuns>>_vars

\* A thread stands still only where it waits: main for the saved map, a signal
\* and TaskManager::Stop, ServerThread in a handler that may never return and
\* for the camera, whose receive has no timeout.
AtCamera == srv = "apiRecv" /\ kind[cur] = "camera" /\ sock["camera"] = "recv"

NoThreadStuck ==
    program = "running" =>
        /\ main \notin {"starting", "run", "noServer", "tmStop"} => MainCanStep
        /\ /\ srv \notin {"unborn", "exited"} /\ ~Blocked
           /\ AtCamera => \E r \in replies : kind[r] = "camera"
           => SrvCanStep

\* The server implements the discipline of a reply socket.
Phase ==
    [r \in Requests |->
        IF kind[r] = "unsent" THEN "unsent"
        ELSE IF r \in inbox THEN "queued"
        ELSE IF Answered(r) THEN "answered"
        ELSE IF r = cur /\ srv \in Taken THEN "taken"
        ELSE "lost"]

Discipline == INSTANCE RequestReply WITH phase <- Phase

RequestDiscipline == Discipline!Spec
==============================================================================
