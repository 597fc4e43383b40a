------------------------- MODULE RequestServerProofs -------------------------
(***************************************************************************)
(* Theorems about the request server, for every number of requests and     *)
(* every set of services.  Inv is the inductive invariant: what is in the  *)
(* hands of whom (Hands), what the REQ sockets still owe (Owing), what     *)
(* ServerThread is about to answer (Result), and how far the main thread   *)
(* is (Course).                                                            *)
(***************************************************************************)
EXTENDS RequestServer, FiniteSets, FiniteSetTheorems, TLAPS

Sent(r) == kind[r] # "unsent"

Reached == atService \cup replies \cup performed

\* Every request is with one party at a time, and the REP socket knows
\* whether an answer is owed.
Hands ==
    /\ \A r \in inbox : Sent(r) /\ ~Answered(r)
    /\ \A r \in Requests : Answered(r) => Sent(r)
    /\ srv \in Taken => /\ cur \in Requests /\ Sent(cur) /\ cur \notin inbox
                        /\ ~Answered(cur) /\ rep \in {"send", "closed"}
    /\ srv \in {"apiCheck", "apiSend", "apiRecv"} => kind[cur] \in Apis
    /\ \A r \in Requests : Sent(r) /\ r \notin inbox /\ ~Answered(r) =>
          rep = "closed" \/ (rep = "send" /\ r = cur)
    /\ \A r \in Requests : Sent(r) => rep # "none"

\* What a service has, or has had.
Fresh == /\ \A r \in Reached : kind[r] \in Apis /\ r \notin inbox
         /\ srv \in {"process", "apiCheck", "apiSend"} => cur \notin Reached
         /\ atService \cap replies = {}

\* A socket ready to send has nothing on its way; in a receive only the
\* request in hand can be.
Owing ==
    /\ \A r \in atService \cup replies : sock[kind[r]] # "send"
    /\ srv = "apiRecv" =>
          /\ sock[kind[cur]] # "send"
          /\ \A r \in atService \cup replies : kind[r] = kind[cur] => r = cur

Result ==
    /\ srv = "reply" => /\ result \in Answers
                        /\ result.from \in {0, cur}
                        /\ kind[cur] = "camera" /\ result.ok => cur \in performed

Course ==
    /\ srv = "unborn" => main \in {"boot", "init", "starting", "noServer", "destroy"}
    /\ main \in {"boot", "init", "starting", "noServer"} => srv = "unborn"
    /\ isRunning => main \in {"starting", "run"}
    /\ main \in {"boot", "init", "starting", "run", "noServer", "tmStop"} =>
          \A a \in Apis : sock[a] \in {"send", "recv"}
    /\ main \in {"wait", "destroy"} /\ srv # "unborn" => sock["mapping"] = "null"
    /\ srv = "unborn" => sock["mapping"] \in {"send", "recv"}
    /\ main \in {"boot", "init", "noServer"} => rep = "none"
    /\ main # "boot" => relay

Inv == TypeOK /\ Hands /\ Fresh /\ Owing /\ Result /\ Course /\ RepliesAreOwn
       /\ CameraOkIsDone

-----------------------------------------------------------------------------
LEMMA InvInit == Init => Inv
  BY NoAnswerAssumption
  DEF Init, Inv, TypeOK, Hands, Fresh, Owing, Result, Course, RepliesAreOwn,
      CameraOkIsDone, MainPcs, SrvPcs, Apis, Taken, Sent, Reached, Answered

\* What ServerThread may be about to answer.
LEMMA FailureFacts ==
  /\ Failure \in Answers /\ Failure.from = 0
  /\ kind[cur] = "camera" => Failure.ok = FALSE
  <1>1. (kind[cur] # "camera") \in BOOLEAN
    OBVIOUS
  <1>2. /\ Failure \in Answers
        /\ Failure.from = 0 /\ Failure.ok = (kind[cur] # "camera")
    BY <1>1, Zenon DEF Failure, Answers
  <1> QED
    BY <1>2

LEMMA LocalFacts == LocalAnswer \in Answers /\ LocalAnswer.from = 0
  BY DEF LocalAnswer, Answers

\* The main thread.
LEMMA MainInv ==
  ASSUME Inv, MainStep \/ Stop \/ TaskManagerStopped \/ Abort
  PROVE  Inv'
  <1> USE DEF Inv
  <1> USE DEF TypeOK, MainPcs, SrvPcs, Apis, Taken, Hands, Fresh, Owing,
      Result, Course, RepliesAreOwn, CameraOkIsDone, Sent, Reached, Answered,
      mainVars, srvVars, apiVars, operators, services
  <1>1. CASE StartAll
    BY <1>1 DEF StartAll
  <1>2. CASE InitZMQ
    <2>1. TypeOK'
      BY <1>2 DEF InitZMQ
    <2>2. Hands'
      BY <1>2 DEF InitZMQ
    <2>3. Fresh'
      BY <1>2 DEF InitZMQ
    <2>4. Owing'
      BY <1>2 DEF InitZMQ
    <2>5. Result'
      BY <1>2 DEF InitZMQ
    <2>6. Course'
      BY <1>2 DEF InitZMQ
    <2>7. RepliesAreOwn'
      BY <1>2 DEF InitZMQ
    <2>8. CameraOkIsDone'
      BY <1>2 DEF InitZMQ
    <2> QED
      BY <2>1, <2>2, <2>3, <2>4, <2>5, <2>6, <2>7, <2>8
  <1>3. CASE StartServer
    BY <1>3 DEF StartServer
  <1>4. CASE StopApi
    <2>1. TypeOK'
      <3>1. PICK a \in {"bag", "mapping"} : CloseApi(a) \/ ResetApi(a) \/ UnsetApi(a)
        BY <1>4 DEF StopApi
      <3>2. CASE CloseApi(a)
        BY <3>2 DEF CloseApi, ClosedUnder
      <3>3. CASE ResetApi(a)
        BY <3>3 DEF ResetApi
      <3>4. CASE UnsetApi(a)
        BY <3>4 DEF UnsetApi
      <3> QED
        BY <3>1, <3>2, <3>3, <3>4
    <2>2. Hands'
      BY <1>4 DEF StopApi, CloseApi, ResetApi, UnsetApi, ClosedUnder
    <2>3. Fresh'
      BY <1>4 DEF StopApi, CloseApi, ResetApi, UnsetApi, ClosedUnder
    <2>4. Owing'
      BY <1>4 DEF StopApi, CloseApi, ResetApi, UnsetApi, ClosedUnder
    <2>5. Result'
      BY <1>4 DEF StopApi, CloseApi, ResetApi, UnsetApi, ClosedUnder
    <2>6. Course'
      BY <1>4 DEF StopApi, CloseApi, ResetApi, UnsetApi, ClosedUnder
    <2>7. RepliesAreOwn'
      BY <1>4 DEF StopApi, CloseApi, ResetApi, UnsetApi, ClosedUnder
    <2>8. CameraOkIsDone'
      BY <1>4 DEF StopApi, CloseApi, ResetApi, UnsetApi, ClosedUnder
    <2> QED
      BY <2>1, <2>2, <2>3, <2>4, <2>5, <2>6, <2>7, <2>8
  <1>5. CASE CleanupZMQ
    BY <1>5 DEF CleanupZMQ, ClosedUnder
  <1>6. CASE Destroy
    BY <1>6 DEF Destroy
  <1>7. CASE Stop
    <2>1. TypeOK'
      BY <1>7 DEF Stop
    <2>2. Hands'
      BY <1>7 DEF Stop
    <2>3. Fresh'
      BY <1>7 DEF Stop
    <2>4. Owing'
      BY <1>7 DEF Stop
    <2>5. Result'
      BY <1>7 DEF Stop
    <2>6. Course'
      BY <1>7 DEF Stop
    <2>7. RepliesAreOwn'
      BY <1>7 DEF Stop
    <2>8. CameraOkIsDone'
      BY <1>7 DEF Stop
    <2> QED
      BY <2>1, <2>2, <2>3, <2>4, <2>5, <2>6, <2>7, <2>8
  <1>8. CASE TaskManagerStopped
    BY <1>8 DEF TaskManagerStopped
  <1>9. CASE Abort
    BY <1>9 DEF Abort
  <1> QED
    BY <1>1, <1>2, <1>3, <1>4, <1>5, <1>6, <1>7, <1>8, <1>9 DEF MainStep

\* ServerThread.
LEMMA SrvInv ==
  ASSUME Inv, SrvStep
  PROVE  Inv'
  <1> USE DEF Inv
  <1> USE DEF TypeOK, SrvPcs, Apis, Taken, Hands, Fresh, Owing,
      Result, Course, RepliesAreOwn, CameraOkIsDone, Sent, Reached, Answered,
      mainVars, srvVars, apiVars, operators, services
  <1>1. CASE SrvTop
    BY <1>1 DEF SrvTop
  <1>2. CASE RecvFails
    BY <1>2 DEF RecvFails
  <1>3. ASSUME NEW r \in Requests, Receive(r) PROVE Inv'
    BY <1>3 DEF Receive
  <1>4. CASE Process
    <2>1. TypeOK'
      BY <1>4, LocalFacts DEF Process
    <2>2. Hands'
      BY <1>4, LocalFacts DEF Process
    <2>3. Fresh'
      BY <1>4, LocalFacts DEF Process
    <2>4. Owing'
      BY <1>4, LocalFacts DEF Process
    <2>5. Result'
      <3>1. CASE srv' = "reply"
        <4>1. kind[cur] \in {"plain", "blocking"} /\ result' = LocalAnswer
          BY <1>4, <3>1 DEF Process
        <4>2. result' \in Answers /\ result'.from = 0
          BY <4>1, LocalFacts, Zenon
        <4> QED
          BY <1>4, <4>1, <4>2 DEF Process
      <3> QED
        BY <1>4, <3>1 DEF Process
    <2>6. Course'
      BY <1>4, LocalFacts DEF Process
    <2>7. RepliesAreOwn'
      BY <1>4, LocalFacts DEF Process
    <2>8. CameraOkIsDone'
      BY <1>4, LocalFacts DEF Process
    <2> QED
      BY <2>1, <2>2, <2>3, <2>4, <2>5, <2>6, <2>7, <2>8
  <1>5. CASE ApiCheck
    BY <1>5 DEF ApiCheck, Return, Failure, Answers
  <1>6. CASE ApiSend
    <2>1. TypeOK'
      BY <1>6, FailureFacts DEF ApiSend, Return
    <2>2. Hands'
      BY <1>6, FailureFacts DEF ApiSend, Return
    <2>3. Fresh'
      BY <1>6, FailureFacts DEF ApiSend, Return
    <2>4. Owing'
      BY <1>6, FailureFacts DEF ApiSend, Return
    <2>5. Result'
      BY <1>6, FailureFacts DEF ApiSend, Return
    <2>6. Course'
      BY <1>6, FailureFacts DEF ApiSend, Return
    <2>7. RepliesAreOwn'
      BY <1>6, FailureFacts DEF ApiSend, Return
    <2>8. CameraOkIsDone'
      BY <1>6, FailureFacts DEF ApiSend, Return
    <2> QED
      BY <2>1, <2>2, <2>3, <2>4, <2>5, <2>6, <2>7, <2>8
  <1>7. ASSUME NEW r \in Requests, ApiReply(r) PROVE Inv'
    BY <1>7 DEF ApiReply, Return, Answers
  <1>8. CASE ApiTimeout
    BY <1>8 DEF ApiTimeout, Return, Failure, Answers
  <1>9. CASE ApiRecvClosed
    BY <1>9 DEF ApiRecvClosed, Return, Failure, Answers
  <1>10. CASE ApiNull
    BY <1>10 DEF ApiNull
  <1>11. CASE Reply
    BY <1>11, NoAnswerAssumption DEF Reply
  <1> QED
    BY <1>1, <1>2, <1>3, <1>4, <1>5, <1>6, <1>7, <1>8, <1>9, <1>10, <1>11
    DEF SrvStep

\* The operators and the services.
LEMMA WorldInv ==
  ASSUME Inv, World
  PROVE  Inv'
  <1> USE DEF Inv
  <1> USE DEF TypeOK, Apis, Taken, Hands, Fresh, Owing, Kinds, Locals,
      Result, Course, RepliesAreOwn, CameraOkIsDone, Sent, Reached, Answered,
      mainVars, srvVars, apiVars, operators, services
  <1>1. ASSUME NEW r \in Requests, NEW k \in Services \cup Locals,
               Ask(r, k)
        PROVE  Inv'
    BY <1>1, ServicesAssumption DEF Ask
  <1>2. ASSUME NEW r \in Requests, GiveUp(r) PROVE Inv'
    BY <1>2 DEF GiveUp
  <1>3. ASSUME NEW r \in Requests, Serve(r) PROVE Inv'
    BY <1>3 DEF Serve
  <1> QED
    BY <1>1, <1>2, <1>3 DEF World

LEMMA InvNext ==
  ASSUME Inv, [Next]_vars
  PROVE  Inv'
  <1>1. CASE Next
    BY <1>1, MainInv, SrvInv, WorldInv DEF Next
  <1>2. CASE UNCHANGED vars
    BY <1>2
    DEF Inv, TypeOK, Hands, Fresh, Owing, Result, Course, RepliesAreOwn,
        CameraOkIsDone, Sent, Reached, Answered, vars, mainVars, srvVars,
        apiVars, operators, services
  <1> QED
    BY <1>1, <1>2

THEOREM Invariance == Spec => []Inv
  <1> QED
    BY InvInit, InvNext, PTL DEF Spec

\* Every variable of the node keeps its type.
THEOREM TypeCorrect == Spec => []TypeOK
  <1>1. Inv => TypeOK
    BY DEF Inv
  <1> QED
    BY <1>1, Invariance, PTL

\* A request is in the inbox, in the one hand of ServerThread, answered, or
\* lost with the answer that the REP socket still owes: see Hands.
THEOREM OneHand == Spec => []Hands
  <1>1. Inv => Hands
    BY DEF Inv
  <1> QED
    BY <1>1, Invariance, PTL

\* No operator is given the reply to another request, however late a service
\* answers, and a status true of the camera's handlers is true: see
\* AnswersAreOwn.
THEOREM NoStaleAnswer == Spec => []AnswersAreOwn
  <1>1. Inv => AnswersAreOwn
    BY DEF Inv, AnswersAreOwn
  <1> QED
    BY <1>1, Invariance, PTL

-----------------------------------------------------------------------------
(* The end of the process.                                                 *)

LEMMA ExitStep ==
  ASSUME Inv, NoCleanExit, [Next]_vars
  PROVE  NoCleanExit'
  <1> USE DEF NoCleanExit
  <1>1. CASE UNCHANGED vars
    BY <1>1 DEF vars, mainVars, srvVars
  <1> SUFFICES ASSUME Next, program' # "running" PROVE NoCleanExit'
    BY <1>1
  <1> USE DEF Inv, Course, TypeOK, Hands, Taken, mainVars, srvVars
  <1>2. CASE MainStep
    <2>1. CASE StopApi
      BY <2>1 DEF StopApi, CloseApi, ResetApi, UnsetApi, ClosedUnder, InCall, Next
    <2>2. CASE CleanupZMQ
      BY <2>2 DEF CleanupZMQ, ClosedUnder, Next
    <2>3. CASE Destroy
      BY <2>3 DEF Destroy
    <2> QED
      BY <1>2, <2>1, <2>2, <2>3 DEF MainStep, Next, StartAll, InitZMQ, StartServer
  <1>3. CASE Stop \/ TaskManagerStopped \/ World
    BY <1>3 DEF Next, Stop, TaskManagerStopped, Abort, World, Ask, GiveUp, Serve
  <1>4. CASE SrvStep
    <2>1. CASE ApiNull
      <3>1. kind[cur] \in Apis /\ sock[kind[cur]] = "null"
        BY <2>1 DEF ApiNull
      <3>2. ~isRunning
        BY <3>1
      <3> QED
        BY <2>1, <3>2 DEF ApiNull
    <2>2. CASE ~ApiNull
      <3>1. program' = program
        BY <1>4, <2>2
        DEF SrvStep, SrvTop, RecvFails, Process, ApiCheck, ApiSend, ApiTimeout,
            ApiRecvClosed, Reply, Receive, ApiReply
      <3> QED
        BY <3>1 DEF Next
    <2> QED
      BY <2>1, <2>2
  <1>5. CASE Abort
    BY <1>5 DEF Abort, Blocked
  <1> QED
    BY <1>2, <1>3, <1>4, <1>5 DEF Next

\* The process is never stopped in order, and its own sockets do not end it
\* before it is stopped: an Abort may, once the server thread is there.  See
\* NoCleanExit.
THEOREM NeverEndsInOrder == Spec => []NoCleanExit
  <1>1. Init => NoCleanExit
    BY DEF Init, NoCleanExit
  <1> QED
    BY <1>1, ExitStep, Invariance, PTL DEF Spec

-----------------------------------------------------------------------------
(* The requests a service knows of and ServerThread does not.              *)

\* Requests of a that a service has, or has had, and whose reply ServerThread
\* does not have, yet or for ever.
Owed(a) ==
    {r \in Requests :
        /\ kind[r] = a /\ r \in Reached
        /\ \/ Answered(r) /\ answer[r].from # r
           \/ r = cur /\ srv = "apiRecv"
           \/ r = cur /\ srv = "reply" /\ result.from # r}

Debts ==
    \A a \in Apis : \A r \in Owed(a) :
        sock[a] # "send" /\ \A s \in Owed(a) : r = s

LEMMA DebtsStep ==
  ASSUME Inv, Debts, [Next]_vars
  PROVE  Debts'
  <1> USE DEF Inv
  <1>1. CASE SrvStep
    <2> USE DEF Debts, Owed, TypeOK, Hands, Fresh, Owing, Result, Taken, Sent,
        Reached, Answered, mainVars, srvVars, apiVars, operators, services
    <2>1. CASE SrvTop \/ RecvFails \/ ApiNull
      BY <2>1 DEF SrvTop, RecvFails, ApiNull
    <2>2. CASE Process
      BY <2>2 DEF Process
    <2>3. CASE ApiCheck
      BY <2>3 DEF ApiCheck, Return
    <2>4. CASE ApiSend
      BY <2>4, FailureFacts DEF ApiSend, Return
    <2>5. CASE ApiTimeout
      BY <2>5, FailureFacts DEF ApiTimeout, Return
    <2>6. CASE ApiRecvClosed
      BY <2>6, FailureFacts DEF ApiRecvClosed, Return
    <2>7. CASE Reply
      BY <2>7 DEF Reply
    <2>8. ASSUME NEW r \in Requests, Receive(r) PROVE Debts'
      BY <2>8 DEF Receive
    <2>9. ASSUME NEW r \in Requests, ApiReply(r) PROVE Debts'
      BY <2>9 DEF ApiReply, Return
    <2> QED
      BY <1>1, <2>1, <2>2, <2>3, <2>4, <2>5, <2>6, <2>7, <2>8, <2>9 DEF SrvStep
  <1>2. CASE World
    <2> USE DEF Debts, Owed, TypeOK, Hands, Fresh, Taken, Sent, Reached,
        Answered, mainVars, srvVars, apiVars, operators, services
    <2>1. ASSUME NEW r \in Requests, NEW k \in Services \cup Locals,
                 Ask(r, k)
          PROVE  Debts'
      BY <2>1 DEF Ask
    <2>2. ASSUME NEW r \in Requests, GiveUp(r) PROVE Debts'
      BY <2>2 DEF GiveUp
    <2>3. ASSUME NEW r \in Requests, Serve(r) PROVE Debts'
      BY <2>3 DEF Serve
    <2> QED
      BY <1>2, <2>1, <2>2, <2>3 DEF World
  <1>3. CASE MainStep \/ Stop \/ TaskManagerStopped \/ Abort
    <2>1. UNCHANGED <<kind, answer, cur, result, services>>
      BY <1>3
      DEF MainStep, StartAll, InitZMQ, StartServer, StopApi, CloseApi, ResetApi,
          UnsetApi, CleanupZMQ, Destroy, Stop, TaskManagerStopped, Abort, srvVars,
          operators, services
    <2>2. srv' \in {srv, "top"}
      BY <1>3
      DEF MainStep, StartAll, InitZMQ, StartServer, StopApi, CloseApi, ResetApi,
          UnsetApi, CleanupZMQ, Destroy, Stop, TaskManagerStopped, Abort, srvVars
    <2>3. \A a \in Apis : sock'[a] = "send" => sock[a] = "send"
      BY <1>3
      DEF MainStep, StartAll, InitZMQ, StartServer, StopApi, CloseApi, ResetApi,
          UnsetApi, CleanupZMQ, Destroy, Stop, TaskManagerStopped, Abort, apiVars,
          TypeOK
    <2>4. \A a \in Apis : Owed(a)' \subseteq Owed(a)
      BY <2>1, <2>2 DEF Owed, Reached, Answered, services
    <2> QED
      BY <2>3, <2>4 DEF Debts
  <1>4. CASE UNCHANGED vars
    BY <1>4 DEF Debts, Owed, Reached, Answered, vars, srvVars, apiVars,
        operators, services
  <1> QED
    BY <1>1, <1>2, <1>3, <1>4 DEF Next

\* One request of an API at most is done without its operator hearing of it:
\* see OneUnreportedPerApi.
THEOREM FewUnreported == Spec => []OneUnreportedPerApi
  <1>1. Init => Debts
    BY DEF Init, Debts, Owed, Reached
  <1>2. Debts => OneUnreportedPerApi
    BY DEF Debts, Owed, OneUnreportedPerApi, Unreported, Reached
  <1> QED
    BY <1>1, <1>2, DebtsStep, Invariance, PTL DEF Spec

-----------------------------------------------------------------------------
(* The refinement: RequestReply with Phase for its variable.               *)

InHand(r) == r = cur /\ srv \in Taken

\* A step that changes the phase of no request.
LEMMA SamePhase ==
  ASSUME UNCHANGED <<kind, inbox, answer>>,
         \A r \in Requests : InHand(r)' <=> InHand(r)
  PROVE  Phase' = Phase
  BY DEF Phase, InHand, Answered

\* A step that moves one request.
LEMMA OneMoves ==
  ASSUME NEW r \in Requests, NEW to,
         \A s \in Requests \ {r} :
            /\ kind'[s] = kind[s] /\ answer'[s] = answer[s]
            /\ s \in inbox' <=> s \in inbox
            /\ InHand(s)' <=> InHand(s),
         Phase'[r] = to
  PROVE  Phase' = [Phase EXCEPT ![r] = to]
  BY DEF Phase, InHand, Answered

LEMMA ServerMaps ==
  ASSUME Inv, SrvStep
  PROVE  [Discipline!Next]_Phase
  <1> USE DEF Inv, TypeOK, Hands, Taken, Sent, mainVars, srvVars, apiVars,
      operators, services
  <1>1. CASE SrvTop \/ RecvFails \/ ApiNull
    BY <1>1, SamePhase DEF SrvTop, RecvFails, ApiNull, InHand
  <1>2. CASE ApiCheck \/ ApiSend \/ ApiTimeout \/ ApiRecvClosed
    BY <1>2, SamePhase
    DEF ApiCheck, ApiSend, ApiTimeout, ApiRecvClosed, Return, InHand
  <1>3. ASSUME NEW r \in Requests, ApiReply(r) PROVE Phase' = Phase
    BY <1>3, SamePhase DEF ApiReply, Return, InHand
  <1>4. ASSUME NEW r \in Requests, Receive(r) PROVE Discipline!Take(r)
    <2>1. \A s \in Requests : Phase[s] \notin {"taken", "lost"}
      BY <1>4 DEF Receive, Phase
    <2>2. Phase[r] = "queued"
      BY <1>4 DEF Receive, Phase
    <2>3. Phase'[r] = "taken"
      BY <1>4 DEF Receive, Phase, Answered
    <2>4. \A s \in Requests \ {r} :
             /\ kind'[s] = kind[s] /\ answer'[s] = answer[s]
             /\ s \in inbox' <=> s \in inbox
             /\ InHand(s)' <=> InHand(s)
      BY <1>4 DEF Receive, InHand
    <2>5. Phase' = [Phase EXCEPT ![r] = "taken"]
      BY <2>3, <2>4, OneMoves
    <2> QED
      BY <2>1, <2>2, <2>5 DEF Discipline!Take, Discipline!Move
  <1>5. CASE Process /\ kind[cur] # "garbled"
    BY <1>5, SamePhase DEF Process, InHand
  <1>6. CASE Process /\ kind[cur] = "garbled"
    <2>1. Phase[cur] = "taken" /\ Phase'[cur] = "lost"
      BY <1>6 DEF Process, Phase, Answered, Apis
    <2>2. \A s \in Requests \ {cur} :
             /\ kind'[s] = kind[s] /\ answer'[s] = answer[s]
             /\ s \in inbox' <=> s \in inbox
             /\ InHand(s)' <=> InHand(s)
      BY <1>6 DEF Process, InHand
    <2>3. Phase' = [Phase EXCEPT ![cur] = "lost"] /\ cur \in Requests
      BY <1>6, <2>1, <2>2, OneMoves DEF Process
    <2> QED
      BY <2>1, <2>3 DEF Discipline!Next, Discipline!Lose, Discipline!Move
  <1>7. CASE Reply
    <2> DEFINE to == IF rep = "send" THEN "answered" ELSE "lost"
    <2>1. Phase[cur] = "taken"
      BY <1>7 DEF Reply, Phase
    <2>2. Phase'[cur] = to
      BY <1>7, NoAnswerAssumption DEF Reply, Phase, Answered, Result
    <2>3. \A s \in Requests \ {cur} :
             /\ kind'[s] = kind[s] /\ answer'[s] = answer[s]
             /\ s \in inbox' <=> s \in inbox
             /\ InHand(s)' <=> InHand(s)
      BY <1>7 DEF Reply, InHand
    <2>4. Phase' = [Phase EXCEPT ![cur] = to] /\ cur \in Requests
      <3>1. cur \in Requests
        BY <1>7 DEF Reply
      <3> HIDE DEF to
      <3> QED
        BY <3>1, <2>2, <2>3, OneMoves
    <2> QED
      BY <2>1, <2>4
      DEF Discipline!Next, Discipline!Answer, Discipline!Lose, Discipline!Move
  <1> QED
    BY <1>1, <1>2, <1>3, <1>4, <1>5, <1>6, <1>7 DEF SrvStep, Discipline!Next

LEMMA StepMaps ==
  ASSUME Inv, [Next]_vars
  PROVE  [Discipline!Next]_Phase
  <1>1. CASE SrvStep
    BY <1>1, ServerMaps
  <1>2. CASE MainStep \/ Stop \/ TaskManagerStopped \/ Abort
    <2>1. /\ UNCHANGED <<kind, inbox, answer, cur>>
          /\ srv' = srv \/ (srv = "unborn" /\ srv' = "top")
      BY <1>2
      DEF MainStep, StartAll, InitZMQ, StartServer, StopApi, CloseApi, ResetApi,
          UnsetApi, CleanupZMQ, Destroy, Stop, TaskManagerStopped, Abort, srvVars,
          operators, Inv, Course
    <2> QED
      BY <2>1, SamePhase DEF InHand, Taken
  <1>3. ASSUME NEW r \in Requests, NEW k \in Services \cup Locals,
               Ask(r, k)
        PROVE  Discipline!Send(r)
    <2>1. Phase[r] = "unsent"
      BY <1>3 DEF Ask, Phase
    <2>2. Phase'[r] = "queued"
      BY <1>3, ServicesAssumption DEF Ask, Phase, Inv, TypeOK, Apis, Locals
    <2>3. \A s \in Requests \ {r} :
             /\ kind'[s] = kind[s] /\ answer'[s] = answer[s]
             /\ s \in inbox' <=> s \in inbox
             /\ InHand(s)' <=> InHand(s)
      BY <1>3 DEF Ask, InHand, Inv, TypeOK, srvVars
    <2>4. Phase' = [Phase EXCEPT ![r] = "queued"]
      BY <2>2, <2>3, OneMoves
    <2> QED
      BY <2>1, <2>4 DEF Discipline!Send, Discipline!Move
  <1>4. CASE \E r \in Requests : GiveUp(r) \/ Serve(r)
    BY <1>4, SamePhase DEF GiveUp, Serve, InHand, srvVars, operators
  <1>5. CASE UNCHANGED vars
    BY <1>5, SamePhase DEF vars, InHand, srvVars, operators
  <1> QED
    BY <1>1, <1>2, <1>3, <1>4, <1>5 DEF Next, World, Discipline!Next

\* The request server is a reply socket in the sense of RequestReply, whatever
\* its handlers, the services and the shutdown do: see RequestDiscipline.
THEOREM ServerIsDisciplined == Spec => RequestDiscipline
  <1>1. Init => Discipline!Init
    BY DEF Init, Discipline!Init, Phase
  <1> QED
    BY <1>1, StepMaps, Invariance, PTL
    DEF Spec, RequestDiscipline, Discipline!Spec

-----------------------------------------------------------------------------
(* No thread is stuck.  A guard says where a line of a thread can be       *)
(* executed, and the invariant that this is wherever the thread may be but *)
(* for the places where it waits.                                          *)

\* Every line of the main thread that does not wait can be executed.
MainGuard == main \in MainPcs \ {"starting", "run", "noServer", "tmStop"}

\* ServerThread: a send and a receive of the service of its request, a receive
\* only on a socket that owes one or is gone, that of the camera with a reply.
SrvGuard ==
    /\ srv \in SrvPcs \ {"unborn", "exited"} /\ ~Blocked
    /\ srv = "process" => cur \in Requests /\ kind[cur] \in Kinds
    /\ srv \in {"apiCheck", "apiSend", "apiRecv"} =>
          cur \in Requests /\ kind[cur] \in Apis
    /\ srv = "apiRecv" => sock[kind[cur]] # "send"
    /\ AtCamera => \E r \in replies : kind[r] = "camera"

\* Where the guard of a thread is true, its step is ENABLED: a step exists.
\* This is true of every state, reachable or not, as each action whose guard
\* it is gives every primed variable its value; only the prover does not know
\* what ENABLED means.
GuardsEnable ==
    TypeOK /\ program = "running" =>
        /\ MainGuard => MainCanStep
        /\ SrvGuard => SrvCanStep

LEMMA GuardsHold ==
  ASSUME Inv, program = "running"
  PROVE  /\ main \notin {"starting", "run", "noServer", "tmStop"} => MainGuard
         /\ /\ srv \notin {"unborn", "exited"} /\ ~Blocked
            /\ AtCamera => \E r \in replies : kind[r] = "camera"
            => SrvGuard
  BY DEF Inv, TypeOK, Hands, Owing, MainGuard, SrvGuard, Taken, Sent, Kinds,
     Locals, Apis

\* ServerThread and main are never stuck but where they wait: a request never
\* gets to the receive of a service whose socket has nothing to receive, which
\* would throw (see NoThreadStuck).
THEOREM ThreadsGoOn == Spec /\ []GuardsEnable => []NoThreadStuck
  <1>1. Inv /\ GuardsEnable => NoThreadStuck
    BY GuardsHold DEF Inv, GuardsEnable, NoThreadStuck
  <1> QED
    BY <1>1, Invariance, PTL

-----------------------------------------------------------------------------
(* What never recovers.  Two states that the code enters after an ordinary  *)
(* fault, and never leaves: the REP socket that owes an answer nobody will   *)
(* give, and the REQ socket that owes a receive nobody will make.            *)

\* The loop is back at its head, or stopped, with an answer still owed; or the
\* socket is gone.
AnswerOwed == rep = "closed" \/ (rep = "send" /\ srv \in {"top", "recv", "exited"})

LEMMA StaysOwed ==
  ASSUME Inv, AnswerOwed, [Next]_vars
  PROVE  AnswerOwed' /\ answer' = answer
  <1> USE DEF AnswerOwed, mainVars, srvVars, operators
  <1>1. CASE MainStep \/ Stop \/ TaskManagerStopped \/ Abort
    BY <1>1
    DEF Inv, Course, MainStep, StartAll, InitZMQ, StartServer, StopApi, CloseApi,
        ResetApi, UnsetApi, CleanupZMQ, Destroy, Stop, TaskManagerStopped, Abort
  <1>2. CASE SrvStep
    BY <1>2
    DEF SrvStep, SrvTop, RecvFails, Receive, Process, ApiCheck, ApiSend,
        ApiTimeout, ApiRecvClosed, ApiNull, ApiReply, Reply
  <1>3. CASE World
    BY <1>3 DEF World, Ask, GiveUp, Serve
  <1>4. CASE UNCHANGED vars
    BY <1>4 DEF vars
  <1> QED
    BY <1>1, <1>2, <1>3, <1>4 DEF Next

\* After a request that cannot be parsed (PackMsg throws in the handler of its
\* error), or any other exception that leaves the answer owed, no request is
\* ever answered again, whoever sends it: only a restart of the node helps.
THEOREM OwedAnswerIsTheLast ==
  ASSUME NEW r \in Requests
  PROVE  Spec => [](AnswerOwed /\ ~Answered(r) => []~Answered(r))
  <1>1. Inv /\ AnswerOwed /\ ~Answered(r) /\ [Next]_vars => (AnswerOwed /\ ~Answered(r))'
    BY StaysOwed DEF Answered
  <1> QED
    BY <1>1, Invariance, PTL DEF Spec

\* The socket of an API owes a receive that no call is making.
Silenced(a) == sock[a] # "send" /\ ~InCall(a)

\* Not taken by ServerThread yet.
ToCome(r) == kind[r] = "unsent" \/ r \in inbox

ReportedDone(r) == Answered(r) /\ answer[r].ok

\* An answer about a recording or a map has status true, an error's as well.
TextIsTrue ==
    /\ \A r \in Requests : kind[r] \in {"bag", "mapping"} /\ Answered(r)
                              => ReportedDone(r)
    /\ srv = "reply" /\ kind[cur] \in {"bag", "mapping"} => result.ok

LEMMA TextIsTrueNext ==
  ASSUME Inv, TextIsTrue, [Next]_vars
  PROVE  TextIsTrue'
  <1> USE DEF TextIsTrue, ReportedDone, Answered, mainVars, srvVars, apiVars,
      operators, services
  <1>1. CASE MainStep \/ Stop \/ TaskManagerStopped \/ Abort
    BY <1>1
    DEF MainStep, StartAll, InitZMQ, StartServer, StopApi, CloseApi,
        ResetApi, UnsetApi, CleanupZMQ, Destroy, Stop, TaskManagerStopped, Abort
  <1>2. CASE SrvStep
    <2>1. CASE Reply
      BY <2>1 DEF Reply, Inv, TypeOK, Hands, Taken
    <2>2. CASE Process \/ ApiCheck \/ ApiSend \/ ApiTimeout \/ ApiRecvClosed
      <3>1. kind[cur] \in {"bag", "mapping"} => Failure.ok
        BY Zenon DEF Failure
      <3>2. srv' = "reply" /\ kind[cur] \in {"bag", "mapping"} => result' = Failure
        BY <2>2 DEF Process, ApiCheck, ApiSend, ApiTimeout, ApiRecvClosed, Return
      <3> QED
        BY <2>2, <3>1, <3>2
        DEF Process, ApiCheck, ApiSend, ApiTimeout, ApiRecvClosed
    <2>3. ASSUME NEW r \in Requests, ApiReply(r) PROVE TextIsTrue'
      BY <2>3 DEF ApiReply, Return
    <2>4. CASE SrvTop \/ RecvFails \/ ApiNull \/ \E r \in Requests : Receive(r)
      BY <2>4 DEF SrvTop, RecvFails, ApiNull, Receive
    <2> QED
      BY <1>2, <2>1, <2>2, <2>3, <2>4 DEF SrvStep
  <1>3. CASE World
    BY <1>3 DEF World, Ask, GiveUp, Serve, Inv, TypeOK, Hands, Sent, Taken
  <1>4. CASE UNCHANGED vars
    BY <1>4 DEF vars
  <1> QED
    BY <1>1, <1>2, <1>3, <1>4 DEF Next

\* A request that never got to its service.
Kept(r, a) ==
    kind[r] = a =>
        /\ r \notin Reached
        /\ Answered(r) => answer[r].from = 0
        /\ srv = "reply" /\ cur = r => result.from = 0

LEMMA SilencedStays ==
  ASSUME Inv, NEW a \in Apis, NEW r \in Requests, Silenced(a), Kept(r, a),
         [Next]_vars
  PROVE  (Silenced(a) /\ Kept(r, a))'
  <1> USE DEF Silenced, Kept, InCall, Reached, Answered, mainVars, srvVars,
      apiVars, operators, services
  <1>1. CASE MainStep \/ Stop \/ TaskManagerStopped \/ Abort
    BY <1>1
    DEF Inv, TypeOK, Course, MainStep, StartAll, InitZMQ, StartServer, StopApi,
        CloseApi, ResetApi, UnsetApi, CleanupZMQ, Destroy, Stop,
        TaskManagerStopped, Abort
  <1>2. CASE SrvStep
    <2>1. CASE Reply
      BY <2>1 DEF Reply, Inv, TypeOK, Hands, Taken
    <2>2. CASE Process \/ ApiCheck \/ ApiTimeout \/ ApiRecvClosed
      BY <2>2 DEF Process, ApiCheck, ApiTimeout, ApiRecvClosed, Return,
         Failure, LocalAnswer, Inv, Hands
    <2>3. CASE ApiSend
      BY <2>3 DEF ApiSend, Return, Failure, Inv, TypeOK, Hands
    <2>4. ASSUME NEW s \in Requests, ApiReply(s) PROVE (Silenced(a) /\ Kept(r, a))'
      BY <2>4 DEF ApiReply, Return, Inv, TypeOK, Hands
    <2>5. CASE SrvTop \/ RecvFails \/ ApiNull \/ \E s \in Requests : Receive(s)
      BY <2>5 DEF SrvTop, RecvFails, ApiNull, Receive
    <2> QED
      BY <1>2, <2>1, <2>2, <2>3, <2>4, <2>5 DEF SrvStep
  <1>3. CASE World
    <2>1. ASSUME NEW s \in Requests, NEW k \in Services \cup Locals,
                 Ask(s, k)
          PROVE  (Silenced(a) /\ Kept(r, a))'
      <3>1. /\ kind[s] = "unsent" /\ kind' = [kind EXCEPT ![s] = k]
            /\ UNCHANGED <<srv, cur, result, sock, answer, atService, replies,
                           performed>>
        BY <2>1 DEF Ask
      <3>2. srv \in Taken => cur # s /\ cur \in Requests
        BY <3>1 DEF Inv, Hands, Sent
      <3>3. Silenced(a)'
        BY <3>1, <3>2 DEF Inv, TypeOK, Taken
      <3>4. s \notin Reached /\ ~Answered(s)
        BY <3>1 DEF Inv, Hands, Fresh, Sent, Apis
      <3> QED
        BY <3>1, <3>2, <3>3, <3>4 DEF Inv, TypeOK, Taken
    <2>2. CASE \E s \in Requests : GiveUp(s) \/ Serve(s)
      BY <2>2 DEF GiveUp, Serve
    <2> QED
      BY <1>3, <2>1, <2>2 DEF World
  <1>4. CASE UNCHANGED vars
    BY <1>4 DEF vars
  <1> QED
    BY <1>1, <1>2, <1>3, <1>4 DEF Next

\* After a receive timeout of the recording or the mapping API, no request that
\* ServerThread takes later gets to the service, and each that is answered is
\* answered with status true.
THEOREM TimeoutSilencesApi ==
  ASSUME NEW a \in {"bag", "mapping"}, NEW r \in Requests
  PROVE  Spec => [](Silenced(a) /\ ToCome(r)
                      => [](kind[r] = a => /\ r \notin Reached
                                           /\ Answered(r) => ReportedDone(r)))
  <1>1. Inv /\ Silenced(a) /\ ToCome(r) => Kept(r, a)
    BY DEF Inv, TypeOK, Apis, Hands, Fresh, ToCome, Kept, Reached, Taken, Sent, Answered
  <1>2. Inv /\ Silenced(a) /\ Kept(r, a) /\ [Next]_vars => (Silenced(a) /\ Kept(r, a))'
    BY SilencedStays DEF Apis
  <1>3. Kept(r, a) /\ TextIsTrue
          => (kind[r] = a => r \notin Reached /\ (Answered(r) => ReportedDone(r)))
    BY DEF Kept, TextIsTrue
  <1>4. Init => TextIsTrue
    BY DEF Init, TextIsTrue, Answered
  <1> QED
    BY <1>1, <1>2, <1>3, <1>4, TextIsTrueNext, Invariance, PTL DEF Spec

-----------------------------------------------------------------------------
(* Every request settles.  While the server runs, a request that is waited  *)
(* for is in the inbox, in hand, or lost for good.  What is in hand is done *)
(* with, or wedges the server; what is in the inbox may be overtaken, but   *)
(* only by the requests that are still Outstanding, and every round of      *)
(* ServerThread takes one of them.                                          *)

\* What the liveness adds to the invariant.
AliveInv ==
    /\ srv = "exited" => ~isRunning
    /\ rep = "closed" => ~isRunning
    /\ srv = "unborn" => rep # "send"
    /\ \A r \in waiting : Sent(r) /\ ~Answered(r)

LiveInv == Inv /\ NoCleanExit /\ AliveInv

LEMMA AliveStep ==
  ASSUME Inv, AliveInv, [Next]_vars
  PROVE  AliveInv'
  <1> USE DEF AliveInv, Sent, Answered, mainVars, srvVars, apiVars, operators,
      services
  <1>1. CASE MainStep \/ Stop \/ TaskManagerStopped \/ Abort
    BY <1>1
    DEF Inv, Course, Hands, MainStep, StartAll, InitZMQ, StartServer, StopApi,
        CloseApi, ResetApi, UnsetApi, CleanupZMQ, Destroy, Stop,
        TaskManagerStopped, Abort
  <1>2. CASE SrvStep
    <2>1. CASE Reply
      BY <2>1 DEF Reply, Inv, TypeOK, Hands, Taken
    <2>2. CASE ~Reply
      BY <1>2, <2>2
      DEF SrvStep, SrvTop, RecvFails, Process, ApiCheck, ApiSend, ApiTimeout,
          ApiRecvClosed, ApiNull, Receive, ApiReply, Return
    <2> QED
      BY <2>1, <2>2
  <1>3. CASE World
    <2>1. ASSUME NEW r \in Requests, NEW k \in Services \cup Locals,
                 Ask(r, k)
          PROVE  AliveInv'
      BY <2>1, ServicesAssumption DEF Ask, Apis, Locals, Inv, TypeOK, Hands
    <2>2. ASSUME NEW r \in Requests, GiveUp(r) \/ Serve(r) PROVE AliveInv'
      BY <2>2 DEF GiveUp, Serve
    <2> QED
      BY <1>3, <2>1, <2>2 DEF World
  <1>4. CASE UNCHANGED vars
    BY <1>4 DEF vars
  <1> QED
    BY <1>1, <1>2, <1>3, <1>4 DEF Next

LEMMA LiveInvariance == Spec => []LiveInv
  <1>1. Init => AliveInv /\ NoCleanExit
    BY DEF Init, AliveInv, NoCleanExit
  <1> QED
    BY <1>1, InvInit, InvNext, ExitStep, AliveStep, PTL DEF Spec, LiveInv

\* The requests that can still be taken from the inbox.
Outstanding == {r \in Requests : kind[r] = "unsent" \/ r \in inbox}
Left == Cardinality(Outstanding)

LEMMA LeftFacts ==
  ASSUME Inv
  PROVE  /\ IsFiniteSet(Outstanding)
         /\ Left \in Nat /\ Left <= MaxRequests
         /\ \A r \in inbox : Left # 0
  <1>1. IsFiniteSet(Requests) /\ Cardinality(Requests) = MaxRequests
    BY MaxRequestsAssumption, FS_Interval DEF Requests
  <1>2. Outstanding \subseteq Requests
    BY DEF Outstanding
  <1>3. IsFiniteSet(Outstanding) /\ Left <= MaxRequests
    BY <1>1, <1>2, FS_Subset DEF Left
  <1>4. Left \in Nat
    BY <1>3, FS_CardinalityType DEF Left
  <1>5. \A r \in inbox : r \in Outstanding
    BY DEF Outstanding, Inv, TypeOK
  <1>6. Left = 0 <=> Outstanding = {}
    BY <1>3, FS_EmptySet DEF Left
  <1> QED
    BY <1>3, <1>4, <1>5, <1>6

\* A request that is taken is one less.
LEMMA LeftFalls ==
  ASSUME Inv, NEW r \in Requests, Receive(r)
  PROVE  Left' < Left
  <1>1. r \in Outstanding /\ Outstanding' = Outstanding \ {r}
    BY DEF Receive, Outstanding, Inv, Hands, Sent
  <1>2. Cardinality(Outstanding \ {r}) = Cardinality(Outstanding) - 1
    BY <1>1, LeftFacts, FS_RemoveElement
  <1>3. Left' = Left - 1
    BY <1>1, <1>2 DEF Left
  <1> QED
    BY <1>3, LeftFacts

\* No other step changes them.
LEMMA LeftStays ==
  ASSUME Inv, [Next]_vars, \A r \in Requests : ~Receive(r)
  PROVE  Left' = Left
  <1> USE DEF mainVars, srvVars, apiVars, operators, services
  <1>1. CASE MainStep \/ Stop \/ TaskManagerStopped \/ Abort
    BY <1>1
    DEF Left, Outstanding, MainStep, StartAll, InitZMQ, StartServer, StopApi,
        CloseApi, ResetApi, UnsetApi, CleanupZMQ, Destroy, Stop,
        TaskManagerStopped, Abort
  <1>2. CASE SrvStep
    BY <1>2
    DEF Left, Outstanding, SrvStep, SrvTop, RecvFails, Process, ApiCheck,
        ApiSend, ApiTimeout, ApiRecvClosed, ApiNull, ApiReply, Reply, Return
  <1>3. CASE World
    <2>1. ASSUME NEW r \in Requests, NEW k \in Services \cup Locals,
                 Ask(r, k)
          PROVE  Outstanding' = Outstanding
      BY <2>1, ServicesAssumption DEF Ask, Apis, Locals, Outstanding, Inv, TypeOK
    <2>2. ASSUME NEW r \in Requests, GiveUp(r) \/ Serve(r)
          PROVE  Outstanding' = Outstanding
      BY <2>2 DEF GiveUp, Serve, Outstanding
    <2> QED
      BY <1>3, <2>1, <2>2 DEF World, Left
  <1>4. CASE UNCHANGED vars
    BY <1>4 DEF vars, Left, Outstanding
  <1> QED
    BY <1>1, <1>2, <1>3, <1>4 DEF Next

\* What ServerThread does not do itself leaves it alone, as long as the server
\* is not stopped; only Start makes it begin.
LEMMA OthersLeave ==
  ASSUME LiveInv, [Next]_vars, ~SrvStep, isRunning, isRunning'
  PROVE  /\ rep' = rep /\ cur' = cur
         /\ srv' = srv \/ (srv = "unborn" /\ srv' = "top")
         /\ inbox \subseteq inbox'
         /\ sock' = sock /\ replies \subseteq replies'
         /\ \A r \in Requests : Sent(r) => kind'[r] = kind[r]
         /\ Left' = Left
  <1> USE DEF mainVars, srvVars, apiVars, operators, services
  <1>1. Left' = Left
    BY LeftStays DEF LiveInv, SrvStep
  <1>2. CASE MainStep \/ Stop \/ TaskManagerStopped \/ Abort
    BY <1>1, <1>2
    DEF LiveInv, Inv, Course, MainStep, StartAll, InitZMQ, StartServer,
        StopApi, CloseApi, ResetApi, UnsetApi, CleanupZMQ, Destroy, Stop,
        TaskManagerStopped, Abort
  <1>3. ASSUME NEW r \in Requests, NEW k \in Services \cup Locals,
               Ask(r, k)
        PROVE  /\ UNCHANGED <<rep, cur, srv, sock, replies>>
               /\ inbox \subseteq inbox'
               /\ \A s \in Requests : Sent(s) => kind'[s] = kind[s]
    BY <1>3 DEF Ask, Sent, LiveInv, Inv, TypeOK
  <1>4. ASSUME NEW r \in Requests, GiveUp(r) \/ Serve(r)
        PROVE  /\ UNCHANGED <<rep, cur, srv, sock, inbox, kind>>
               /\ replies \subseteq replies'
    BY <1>4 DEF GiveUp, Serve
  <1>5. CASE World
    BY <1>1, <1>3, <1>4, <1>5 DEF World
  <1>6. CASE UNCHANGED vars
    BY <1>1, <1>6 DEF vars
  <1> QED
    BY <1>2, <1>5, <1>6 DEF Next

\* The request is waited for, and the server runs.
Waits(r) == r \in waiting /\ isRunning /\ program = "running"
Settled(r) == r \notin waiting \/ Over

\* ServerThread has n, or fewer, requests ahead of it and none in hand.
Open(r) == Waits(r) /\ rep = "recv"
OpenAt(r, n) == Open(r) /\ Left = n
OpenBelow(r, n) == Open(r) /\ Left < n

\* It has a request in hand, of this or another operator.
Hand(r, n) == Waits(r) /\ srv \in Taken /\ Left < n

\* It will answer no more.
Stuck(r) == Waits(r) /\ srv \in {"top", "recv"} /\ rep = "send"

LEMMA WaitsWhere ==
  ASSUME LiveInv, NEW r \in Requests, Waits(r)
  PROVE  /\ program = "running"
         /\ \/ Stuck(r)
            \/ srv \in Taken
            \/ rep = "recv" /\ srv \in {"unborn", "top", "recv"} /\ r \in inbox
  <1>1. r \notin inbox => rep = "closed" \/ rep = "send"
    BY DEF LiveInv, AliveInv, Inv, Hands, Waits
  <1>2. rep \in {"recv", "send"}
    BY DEF LiveInv, AliveInv, Inv, TypeOK, Hands, Waits
  <1>3. srv \in {"unborn", "top", "recv"} \cup Taken
    BY DEF LiveInv, AliveInv, Inv, TypeOK, SrvPcs, Taken, Waits
  <1>4. program = "running"
    BY DEF Waits
  <1> QED
    BY <1>1, <1>2, <1>3, <1>4 DEF LiveInv, AliveInv, Waits, Stuck

\* The round of ServerThread that takes a request.
TakesOne(r, n) == [](OpenAt(r, n) => <>(Hand(r, n) \/ Settled(r) \/ []Wedged))

LEMMA OpenSteps ==
  ASSUME NEW r \in Requests, NEW n \in Nat
  PROVE  FairSpec /\ []NoThreadStuck => TakesOne(r, n)
  <1> DEFINE At(pc) == OpenAt(r, n) /\ srv = pc
             Out == Hand(r, n) \/ Settled(r)
  <1>1. LiveInv /\ OpenAt(r, n) => At("unborn") \/ At("top") \/ At("recv")
    BY WaitsWhere DEF OpenAt, Open, Stuck, LiveInv, Inv, Hands, Taken
  <1>2. ASSUME LiveInv, OpenAt(r, n), [Next]_vars, ~SrvStep, ~Settled(r)'
        PROVE  OpenAt(r, n)' /\ (srv' = srv \/ (srv = "unborn" /\ srv' = "top"))
    BY <1>2, OthersLeave DEF OpenAt, Open, Waits, Settled, Over
  <1>3. ASSUME LiveInv, OpenAt(r, n), [Next]_vars, SrvStep, ~Settled(r)'
        PROVE  \/ srv = "top" /\ At("recv")'
               \/ srv = "recv" /\ Hand(r, n)'
    <2>1. /\ srv \in {"unborn", "top", "recv"} /\ r \in inbox
      BY <1>1, <1>3, WaitsWhere DEF OpenAt, Open, Stuck, LiveInv, Inv, Hands, Taken
    <2>2. SrvTop \/ \E s \in Requests : Receive(s)
      BY <1>3, <2>1
      DEF SrvStep, SrvTop, RecvFails, Process, ApiCheck, ApiSend, ApiTimeout,
          ApiRecvClosed, ApiNull, ApiReply, Reply, OpenAt, Open
    <2>3. CASE SrvTop
      <3>1. srv = "top" /\ srv' = "recv" /\ rep' = rep
        BY <2>3, <1>3 DEF SrvTop, OpenAt, Open, Waits
      <3>2. \A s \in Requests : ~Receive(s)
        BY <3>1 DEF Receive
      <3>3. Left' = Left
        BY <1>3, <3>2, LeftStays DEF LiveInv
      <3> QED
        BY <1>3, <3>1, <3>3 DEF OpenAt, Open, Waits, Settled, Over
    <2>4. ASSUME NEW s \in Requests, Receive(s) PROVE srv = "recv" /\ Hand(r, n)'
      <3>1. Left' < Left
        BY <1>3, <2>4, LeftFalls DEF LiveInv
      <3> QED
        BY <1>3, <2>4, <3>1 DEF Receive, OpenAt, Hand, Waits, Settled, Over, Taken
    <2> QED
      BY <2>2, <2>3, <2>4
  <1>4. LiveInv /\ At("unborn") /\ [Next]_vars => (At("unborn") \/ At("top") \/ Out)'
    BY <1>2, <1>3
  <1>5. LiveInv /\ At("top") /\ [Next]_vars => (At("top") \/ At("recv") \/ Out)'
    BY <1>2, <1>3
  <1>6. LiveInv /\ At("recv") /\ [Next]_vars => (At("recv") \/ Out)'
    BY <1>2, <1>3
  <1>7. LiveInv /\ At("unborn") => Wedged
    BY DEF OpenAt, Open, Waits, LiveInv, Inv, Course, Wedged
  <1>8. LiveInv /\ At("top") /\ <<SrvRuns>>_vars => (At("recv") \/ Out)'
    BY <1>3 DEF Next, SrvRuns
  <1>9. LiveInv /\ At("recv") /\ <<SrvRuns>>_vars => Out'
    BY <1>3 DEF Next, SrvRuns
  <1>10. LiveInv /\ OpenAt(r, n) => program = "running" /\ isRunning
    BY WaitsWhere DEF OpenAt, Open, Waits
  <1>11. LiveInv /\ (At("top") \/ At("recv")) => (NoThreadStuck => SrvCanStep)
    BY <1>10 DEF NoThreadStuck, AtCamera, Blocked
  <1> DEFINE U == At("unborn")
             T == At("top")
             V == At("recv")
  <1>12. Out => Hand(r, n) \/ Settled(r)
    OBVIOUS
  <1> HIDE DEF At, Out
  <1> QED
    BY <1>1, <1>4, <1>5, <1>6, <1>7, <1>8, <1>9, <1>11, <1>12,
       LiveInvariance, PTL
    DEF FairSpec, Spec, SrvCanStep, TakesOne

\* How far it is from the answer.
Place ==
    CASE srv = "process" -> 5 [] srv = "apiCheck" -> 4 [] srv = "apiSend" -> 3
      [] srv = "apiRecv" -> 2 [] OTHER -> 1

HandAt(r, n, p) == Hand(r, n) /\ Place = p
HandBelow(r, n, p) == Hand(r, n) /\ Place < p

\* ServerThread is done with it, for good or ill.
Through(r, n) == OpenBelow(r, n) \/ Stuck(r) \/ Settled(r)

\* It waits in a handler, or for a camera that has not answered.
Idle == Blocked \/ (AtCamera /\ \A s \in replies : kind[s] # "camera")

LEMMA HandStep ==
  ASSUME LiveInv, NEW r \in Requests, NEW n \in Nat, NEW p \in 1..5,
         HandAt(r, n, p), [Next]_vars, SrvStep, ~Through(r, n)'
  PROVE  HandBelow(r, n, p)'
  <1>1. Left' = Left
    BY LeftStays DEF LiveInv, HandAt, Hand, Receive, Taken
  <1>2. /\ Waits(r) /\ srv \in Taken /\ Place = p /\ Left < n
        /\ rep = "send" /\ Waits(r)'
    BY DEF HandAt, Hand, Through, Settled, Over, Waits, LiveInv, AliveInv, Inv,
       Hands
  <1>3. \/ srv' \in Taken /\ Place' < Place
        \/ srv' = "top" /\ rep' = rep
        \/ srv' = "top" /\ rep' = "recv"
        \/ ApiNull
    BY <1>2
    DEF SrvStep, SrvTop, RecvFails, Receive, Process, ApiCheck, ApiSend,
        ApiTimeout, ApiRecvClosed, ApiReply, Reply, Return, Place, Taken
  <1>4. ~ApiNull
    BY <1>2 DEF ApiNull, Waits, LiveInv, Inv, Hands, Course
  <1>5. ~(srv' = "top" /\ rep' = "recv") /\ ~(srv' = "top" /\ rep' = "send")
    BY <1>1, <1>2 DEF Through, OpenBelow, Open, Stuck
  <1> QED
    BY <1>1, <1>2, <1>3, <1>4, <1>5 DEF HandBelow, Hand

HandFalls(r, n, p) ==
    [](HandAt(r, n, p) => <>(HandBelow(r, n, p) \/ Through(r, n) \/ []Wedged))

LEMMA HandSteps ==
  ASSUME NEW r \in Requests, NEW n \in Nat, NEW p \in 1..5
  PROVE  FairSpec /\ []NoThreadStuck => HandFalls(r, n, p)
  <1> DEFINE Here == HandAt(r, n, p)
             Less == HandBelow(r, n, p) \/ Through(r, n)
  <1>1. ASSUME LiveInv, Here, [Next]_vars, ~SrvStep, ~Less'
        PROVE  Here' /\ (Idle' => Idle)
    <2>1. isRunning /\ isRunning' /\ srv \in Taken
      BY <1>1 DEF HandAt, Hand, Waits, Through, Settled, Over
    <2>2. /\ rep' = rep /\ cur' = cur /\ srv' = srv /\ Left' = Left
          /\ sock' = sock /\ replies \subseteq replies'
          /\ \A s \in Requests : Sent(s) => kind'[s] = kind[s]
      BY <1>1, <2>1, OthersLeave DEF Taken
    <2>3. Sent(cur) /\ cur \in Requests /\ \A s \in replies : Sent(s) /\ s \in Requests
      BY <2>1 , <1>1 DEF LiveInv, Inv, TypeOK, Hands, Fresh, Reached, Sent, Apis
    <2>4. Here'
      BY <1>1, <2>2 DEF HandAt, Hand, Waits, Through, Settled, Over, Place
    <2> QED
      BY <2>2, <2>3, <2>4 DEF Idle, AtCamera, Blocked
  <1>2. ASSUME LiveInv, Here, [Next]_vars, SrvStep PROVE Less'
    BY <1>2, HandStep
  <1>3. LiveInv /\ Here /\ [Next]_vars => (Here \/ Less)'
    BY <1>1, <1>2
  <1>4. LiveInv /\ Here /\ ~Idle /\ [Next]_vars
          => (Here /\ ~Idle)' \/ Less'
    BY <1>1, <1>2
  <1>5. LiveInv /\ Here /\ <<SrvRuns>>_vars => Less'
    BY <1>2 DEF Next, SrvRuns
  <1>6. LiveInv /\ Here /\ ~Idle => (NoThreadStuck => SrvCanStep)
    BY WaitsWhere DEF HandAt, Hand, Taken, NoThreadStuck, Idle, LiveInv,
       Inv, TypeOK
  <1>7. Idle => Wedged
    BY DEF Idle, AtCamera, Wedged
  <1>8. Less => HandBelow(r, n, p) \/ Through(r, n)
    OBVIOUS
  <1>9. Here <=> HandAt(r, n, p)
    OBVIOUS
  <1> HIDE DEF Here, Less
  <1> QED
    BY <1>3, <1>4, <1>5, <1>6, <1>7, <1>8, <1>9, LiveInvariance, PTL
    DEF FairSpec, Spec, SrvCanStep, HandFalls

\* A server that is stuck stays so until it is stopped.
LEMMA StuckStays ==
  ASSUME NEW r \in Requests
  PROVE  Spec => [](Stuck(r) => <>Settled(r) \/ []Wedged)
  <1>1. ASSUME LiveInv, Stuck(r), [Next]_vars, ~Settled(r)' PROVE Stuck(r)'
    <2>1. CASE SrvStep
      BY <1>1, <2>1
      DEF Stuck, Waits, Settled, Over, SrvStep, SrvTop, RecvFails, Receive, Process,
          ApiCheck, ApiSend, ApiTimeout, ApiRecvClosed, ApiNull, ApiReply, Reply
    <2>2. CASE ~SrvStep
      BY <1>1, <2>2, OthersLeave DEF Stuck, Waits, Settled, Over
    <2> QED
      BY <2>1, <2>2
  <1>2. LiveInv /\ Stuck(r) /\ [Next]_vars => (Stuck(r) \/ Settled(r))'
    BY <1>1
  <1>3. Stuck(r) => Wedged
    BY DEF Stuck, Wedged
  <1> QED
    BY <1>2, <1>3, LiveInvariance, PTL DEF Spec

\* The request in hand is done with, or wedges the server.
HandEnds(r, n) ==
    [](Hand(r, n) => <>(OpenBelow(r, n) \/ Settled(r) \/ []Wedged))

\* No request in hand keeps the server without wedging it, however many
\* requests there are and whatever the services do: ServerThread is free for
\* the next request, the request that is waited for is settled, or no answer
\* will ever be sent.
LEMMA HandIsFreed ==
  ASSUME NEW r \in Requests, NEW n \in Nat
  PROVE  FairSpec /\ []NoThreadStuck => HandEnds(r, n)
  <1>1. FairSpec /\ []NoThreadStuck
          => /\ HandFalls(r, n, 1) /\ HandFalls(r, n, 2) /\ HandFalls(r, n, 3)
             /\ HandFalls(r, n, 4) /\ HandFalls(r, n, 5)
    BY HandSteps
  <1>2. /\ Hand(r, n) => HandAt(r, n, 5) \/ HandBelow(r, n, 5)
        /\ HandBelow(r, n, 5) => HandAt(r, n, 4) \/ HandBelow(r, n, 4)
        /\ HandBelow(r, n, 4) => HandAt(r, n, 3) \/ HandBelow(r, n, 3)
        /\ HandBelow(r, n, 3) => HandAt(r, n, 2) \/ HandBelow(r, n, 2)
        /\ HandBelow(r, n, 2) => HandAt(r, n, 1)
    BY DEF HandAt, HandBelow, Place
  <1>3. ~HandBelow(r, n, 1)
    BY DEF HandBelow, Place
  <1>4. Through(r, n) => OpenBelow(r, n) \/ Stuck(r) \/ Settled(r)
    BY DEF Through
  <1> QED
    BY <1>1, <1>2, <1>3, <1>4, StuckStays, PTL DEF FairSpec, HandFalls, HandEnds

\* A round of ServerThread: fewer requests are ahead of r.
Round(r, n) ==
    [](OpenAt(r, n) => <>(OpenBelow(r, n) \/ Settled(r) \/ []Wedged))

\* While a request is waited for and the server is not stopped, dead or wedged
\* (see Wedged: a handler that never returns is one way), ServerThread takes
\* requests and is done with them: with n of them still to be taken, there are
\* fewer one round later.  It holds for any number of
\* requests, however often the one that is waited for is overtaken.
THEOREM RoundsGoOn ==
  ASSUME NEW r \in Requests, NEW n \in Nat
  PROVE  FairSpec /\ []GuardsEnable => Round(r, n)
  <1>1. FairSpec /\ []NoThreadStuck => TakesOne(r, n) /\ HandEnds(r, n)
    BY OpenSteps, HandIsFreed
  <1> QED
    BY <1>1, ThreadsGoOn, PTL DEF FairSpec, TakesOne, HandEnds, Round

\* The rounds are counted one by one in what follows, as induction over them
\* is beyond the prover.
MostRequests == 8
FewRequests == MaxRequests <= MostRequests

Settles(r) == r \in waiting ~> (r \notin waiting \/ Over \/ []Wedged)

LEMMA RequestSettles ==
  ASSUME FewRequests, NEW r \in Requests
  PROVE  FairSpec /\ []GuardsEnable => Settles(r)
  <1>1. FairSpec /\ []GuardsEnable
          => /\ Round(r, 1) /\ Round(r, 2) /\ Round(r, 3)
             /\ Round(r, 4) /\ Round(r, 5) /\ Round(r, 6)
             /\ Round(r, 7) /\ Round(r, 8)
    BY RoundsGoOn
  <1>2. FairSpec /\ []GuardsEnable => HandEnds(r, 9)
    <2>1. FairSpec /\ []NoThreadStuck => HandEnds(r, 9)
      BY HandIsFreed
    <2> QED
      BY <2>1, ThreadsGoOn, PTL DEF FairSpec
  <1>3. LiveInv
          => /\ OpenBelow(r, 9) => OpenAt(r, 8) \/ OpenBelow(r, 8)
             /\ OpenBelow(r, 8) => OpenAt(r, 7) \/ OpenBelow(r, 7)
             /\ OpenBelow(r, 7) => OpenAt(r, 6) \/ OpenBelow(r, 6)
             /\ OpenBelow(r, 6) => OpenAt(r, 5) \/ OpenBelow(r, 5)
             /\ OpenBelow(r, 5) => OpenAt(r, 4) \/ OpenBelow(r, 4)
             /\ OpenBelow(r, 4) => OpenAt(r, 3) \/ OpenBelow(r, 3)
             /\ OpenBelow(r, 3) => OpenAt(r, 2) \/ OpenBelow(r, 2)
             /\ OpenBelow(r, 2) => OpenAt(r, 1) \/ OpenBelow(r, 1)
             /\ ~OpenBelow(r, 1)
    <2> SUFFICES ASSUME LiveInv
                 PROVE  Left \in Nat /\ (Open(r) => Left # 0)
      BY DEF OpenAt, OpenBelow
    <2>1. Left \in Nat /\ (r \in inbox => Left # 0)
      BY LeftFacts DEF LiveInv
    <2>2. Open(r) => r \in inbox
      BY WaitsWhere DEF Open, Stuck, LiveInv, Inv, Hands
    <2> QED
      BY <2>1, <2>2
  <1>4. LiveInv /\ r \in waiting
          => Settled(r) \/ Stuck(r) \/ Hand(r, 9) \/ OpenBelow(r, 9)
    <2>1. LiveInv => Left < 9
      BY LeftFacts, MaxRequestsAssumption DEF LiveInv, FewRequests, MostRequests
    <2> QED
      BY <2>1, WaitsWhere DEF Settled, Over, Waits, Hand, OpenBelow, Open
  <1>5. Settled(r) => r \notin waiting \/ Over
    BY DEF Settled
  <1> QED
    BY <1>1, <1>2, <1>3, <1>4, <1>5, StuckStays, LiveInvariance, PTL
    DEF FairSpec, Round, HandEnds, Settles

\* A request that is waited for is answered, unless its operator gives up, the
\* server is stopped or dies, or it is wedged for good, in a handler that never
\* returns, at the camera or on a socket that owes an answer
\* (EveryRequestSettles): for any services and up to MostRequests requests.
THEOREM RequestsSettle ==
  ASSUME FewRequests
  PROVE  FairSpec /\ []GuardsEnable => EveryRequestSettles
  <1>1. \A r \in Requests : FairSpec /\ []GuardsEnable => Settles(r)
    BY RequestSettles
  <1> QED
    BY <1>1 DEF EveryRequestSettles, Settles

==============================================================================
