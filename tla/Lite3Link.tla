------------------------------ MODULE Lite3Link ------------------------------
(***************************************************************************)
(* The link to a Lite3 robot: HandleLite3Motion (ex_client.cpp) and        *)
(* Lite3Controller (lite3_controller.cpp).  The server and the executor of *)
(* the task manager may both be in the handler; the controller has no      *)
(* mutex.  "stand" and "sit" are one command that changes the posture, and *)
(* no datagram is acknowledged.                                            *)
(*                                                                         *)
(* External: the robot and the network.  disconnect runs in a destructor   *)
(* that the process does not live to see (RequestServer), so neither       *)
(* connected_ nor running_ is ever taken back.                             *)
(***************************************************************************)
EXTENDS Naturals, Sequences, SequencesExt

CONSTANTS
    Handlers,      \* the threads that run HandleLite3Motion
    MaxCommands    \* bound: motions asked for

ASSUME MaxCommandsAssumption == MaxCommands \in Nat

Postures == {"stand", "sit"}
Modes == {"flat", "basic_std"}
Motions == Postures \cup Modes \cup {"unknown"}
Datagrams == Modes \cup {"standSit"}

VARIABLES
    pc,         \* of each handler, the line it is at
    motion,     \* of each handler, its motionType
    asked,      \* motions asked for
    sockfd,     \* "-1" or "open": which socket makes no difference over UDP
    connected,  \* connected_
    running,    \* running_
    receiver,   \* receiveThread_: "none" or, joinable, "running"
    heart,      \* the detached heartbeat thread
    beats,      \* history: changes with each heartbeat sent
    program,    \* "running" or "terminated"
    net,        \* the datagrams on their way, in the order they were sent
    posture,    \* of the robot
    mode,       \* of the robot
    wanted,     \* history: what the last successful answers said of both
    astray,     \* history: the kinds of datagram that failed in some way
    raced       \* history: two handlers were connecting at once

link == <<sockfd, connected, running>>
threads == <<receiver, heart, beats>>
robot == <<posture, mode>>
outside == <<net, robot, wanted, astray>>
vars == <<pc, motion, asked, link, threads, program, outside, raced>>

\* In connect, behind its question whether there is a link.
Connecting == {"socket", "connected", "running", "receive", "heart"}

\* The type invariant.
TypeOK ==
    /\ pc \in [Handlers -> {"idle", "check", "connect", "send"} \cup Connecting]
    /\ motion \in [Handlers -> Motions]
    /\ asked \in 0..MaxCommands
    /\ sockfd \in {"-1", "open"}
    /\ connected \in BOOLEAN /\ running \in BOOLEAN
    /\ receiver \in {"none", "running"}
    /\ heart \in {"none", "check", "send", "ended"}
    /\ beats \in 0..1
    /\ program \in {"running", "terminated"}
    /\ net \in Seq(Datagrams)
    /\ posture \in Postures /\ mode \in Modes
    /\ wanted \in [posture : Postures, mode : Modes]
    /\ astray \subseteq {"posture", "mode"}
    /\ raced \in BOOLEAN

Init ==
    /\ pc = [h \in Handlers |-> "idle"]
    /\ motion = [h \in Handlers |-> "unknown"]
    /\ asked = 0
    /\ sockfd = "-1" /\ connected = FALSE /\ running = FALSE
    /\ receiver = "none" /\ heart = "none" /\ beats = 0
    /\ program = "running"
    /\ net = <<>>
    /\ posture \in Postures /\ mode \in Modes
    /\ wanted = [posture |-> posture, mode |-> mode]
    /\ astray = {}
    /\ raced = FALSE

isConnected == connected /\ sockfd # "-1"

Go(h, line) == pc' = [pc EXCEPT ![h] = line]

-----------------------------------------------------------------------------
(* HandleLite3Motion and connect.                                          *)

Ask(h, m) ==
    /\ pc[h] = "idle" /\ asked < MaxCommands
    /\ asked' = asked + 1
    /\ motion' = [motion EXCEPT ![h] = m]
    /\ Go(h, "check")
    /\ UNCHANGED <<link, threads, program, outside, raced>>

Check(h) ==
    /\ pc[h] = "check"
    /\ Go(h, IF isConnected THEN "send" ELSE "connect")
    /\ UNCHANGED <<motion, asked, link, threads, program, outside, raced>>

Connect(h) ==
    /\ pc[h] = "connect"
    /\ Go(h, IF isConnected THEN "send" ELSE "socket")
    /\ raced' = (raced \/ (~isConnected /\ \E g \in Handlers : pc[g] \in Connecting))
    /\ UNCHANGED <<motion, asked, link, threads, program, outside>>

\* A socket, or none: the motion is answered with status false.  An address
\* that does not parse has the same outcome each time.
Socket(h) ==
    /\ pc[h] = "socket"
    /\ \/ sockfd' = "open" /\ Go(h, "connected")
       \/ sockfd' = "-1" /\ Go(h, "idle")
    /\ UNCHANGED <<motion, asked, connected, running, threads, program,
                   outside, raced>>

\* Mutant: the flag is forgotten.
SetConnectedNot(h) ==
    /\ pc[h] = "connected"
    /\ Go(h, "running")
    /\ UNCHANGED <<motion, asked, link, threads, program, outside, raced>>

SetConnected(h) ==
    /\ pc[h] = "connected"
    /\ connected' = TRUE
    /\ Go(h, "running")
    /\ UNCHANGED <<motion, asked, sockfd, running, threads, program, outside,
                   raced>>

\* Mutant: the flag is forgotten.
SetRunningNot(h) ==
    /\ pc[h] = "running"
    /\ Go(h, "receive")
    /\ UNCHANGED <<motion, asked, link, threads, program, outside, raced>>

SetRunning(h) ==
    /\ pc[h] = "running"
    /\ running' = TRUE
    /\ Go(h, "receive")
    /\ UNCHANGED <<motion, asked, sockfd, connected, threads, program, outside,
                   raced>>

\* Mutant: it waits for the old thread, whose running_ nobody clears.
StartReceiverWaits(h) ==
    /\ pc[h] = "receive" /\ receiver = "none"
    /\ receiver' = "running"
    /\ Go(h, "heart")
    /\ UNCHANGED <<motion, asked, link, heart, beats, program, outside, raced>>

\* receiveThread_ = std::thread(...): assigning to a joinable thread
\* terminates the program.
StartReceiver(h) ==
    /\ pc[h] = "receive"
    /\ IF receiver = "none"
       THEN receiver' = "running" /\ UNCHANGED program
       ELSE program' = "terminated" /\ UNCHANGED receiver
    /\ Go(h, "heart")
    /\ UNCHANGED <<motion, asked, link, heart, beats, outside, raced>>

\* startHeartbeat.
StartHeart(h) ==
    /\ pc[h] = "heart"
    /\ heart' = "check"
    /\ Go(h, "send")
    /\ UNCHANGED <<motion, asked, link, receiver, beats, program, outside, raced>>

\* The datagram of a motion.
Code(m) == IF m \in Postures THEN "standSit" ELSE m

\* What a successful answer says of the robot; to ask for the posture the
\* robot has gets it out of step.
Believe(m) ==
    IF m \in Postures
    THEN /\ wanted' = [wanted EXCEPT !.posture = m]
         /\ astray' = IF m = wanted.posture THEN astray \cup {"posture"} ELSE astray
    ELSE wanted' = [wanted EXCEPT !.mode = m] /\ UNCHANGED astray

\* Mutant: sendPacket returns true when there is no link.
SendAnswersOk(h) ==
    /\ pc[h] = "send"
    /\ IF motion[h] # "unknown"
       THEN /\ Believe(motion[h])
            /\ net' = IF isConnected THEN Append(net, Code(motion[h])) ELSE net
       ELSE UNCHANGED <<net, wanted, astray>>
    /\ Go(h, "idle")
    /\ UNCHANGED <<motion, asked, link, threads, program, robot, raced>>

\* sendPacket, and the answer.  Without a link, or when sendto fails, the
\* status is false.
Send(h) ==
    /\ pc[h] = "send"
    /\ \/ /\ motion[h] # "unknown" /\ isConnected
          /\ Believe(motion[h])
          /\ net' = Append(net, Code(motion[h]))
       \/ UNCHANGED <<net, wanted, astray>>
    /\ Go(h, "idle")
    /\ UNCHANGED <<motion, asked, link, threads, program, robot, raced>>

-----------------------------------------------------------------------------
(* The heartbeat.  The receive thread has no callback to hand to what it   *)
(* receives, and running_ stays set, so it only is there.                  *)

HeartCheck ==
    /\ heart = "check"
    /\ heart' = IF running THEN "send" ELSE "ended"
    /\ UNCHANGED <<pc, motion, asked, link, receiver, beats, program, outside,
                   raced>>

\* sendHeartbeat; without a link it is only logged.  Whether sendto takes
\* it is not looked at.
HeartBeat ==
    /\ heart = "send"
    /\ beats' = IF isConnected THEN 1 - beats ELSE beats
    /\ heart' = "check"
    /\ UNCHANGED <<pc, motion, asked, link, receiver, program, outside, raced>>

-----------------------------------------------------------------------------
(* The network and the robot.                                              *)

KindOf(d) == IF d = "standSit" THEN "posture" ELSE "mode"

Obey(d) ==
    IF d = "standSit"
    THEN posture' = (IF posture = "stand" THEN "sit" ELSE "stand") /\ UNCHANGED mode
    ELSE mode' = d /\ UNCHANGED posture

\* A datagram may overtake another, which matters to the modes only.
Arrive(i) ==
    /\ i \in DOMAIN net
    /\ Obey(net[i])
    /\ net' = RemoveAt(net, i)
    /\ astray' = IF KindOf(net[i]) = "mode" /\ \E j \in 1..(i - 1) : KindOf(net[j]) = "mode"
                 THEN astray \cup {"mode"} ELSE astray
    /\ UNCHANGED <<pc, motion, asked, link, threads, program, wanted, raced>>

Lose(i) ==
    /\ i \in DOMAIN net
    /\ net' = RemoveAt(net, i)
    /\ astray' = astray \cup {KindOf(net[i])}
    /\ UNCHANGED <<pc, motion, asked, link, threads, program, robot, wanted, raced>>

-----------------------------------------------------------------------------
HandlerStep(h) ==
    \/ Check(h) \/ Connect(h) \/ Socket(h) \/ SetConnected(h) \/ SetRunning(h)
    \/ StartReceiver(h) \/ StartHeart(h) \/ Send(h)

HeartStep == HeartCheck \/ HeartBeat

Next ==
    /\ program = "running"
    /\ \/ \E h \in Handlers : HandlerStep(h) \/ \E m \in Motions : Ask(h, m)
       \/ HeartStep
       \/ \E i \in DOMAIN net : Arrive(i) \/ Lose(i)

Spec == Init /\ [][Next]_vars

\* The threads run; nothing is assumed of the network.
HandlerRuns(h) == WF_vars(program = "running" /\ HandlerStep(h))
HeartRuns == WF_vars(program = "running" /\ HeartStep)

FairSpec ==
    /\ Spec
    /\ \A h \in Handlers : HandlerRuns(h)
    /\ HeartRuns

-----------------------------------------------------------------------------
\* Nothing of this kind is on its way.
Arrived(kind) == \A i \in DOMAIN net : KindOf(net[i]) # kind

\* What the operator was told of the robot is true of it once the datagrams
\* have arrived: the posture unless one was lost or the posture was asked
\* for that it had, in whatever order two handlers sent; the mode unless one
\* was lost or overtaken (lite3_controller.h:40, ex_client.cpp:846-857).
AnswersAreTrue ==
    /\ "posture" \notin astray /\ Arrived("posture") => posture = wanted.posture
    /\ "mode" \notin astray /\ Arrived("mode") => mode = wanted.mode

\* The program is terminated only if the server and the executor were in
\* connect at once (lite3_controller.cpp:57).
OnlyRacingConnectsTerminate == program = "terminated" => raced

\* Once there is a link the robot gets heartbeats for as long as the socket
\* lasts, which only a racing connect replaces by none (lite3_controller.cpp:152).
BeatFollows(b) ==
    (isConnected /\ beats = b) ~>
        (beats # b \/ program = "terminated" \/ (raced /\ sockfd = "-1"))
HeartbeatsGoOn == \A b \in 0..1 : BeatFollows(b)

\* No thread is stuck at a line: whatever the others do, a handler that has a
\* motion in hand and the heartbeat until it has ended can take a step
\* (lite3_controller.cpp:20-78 has no lock to wait for).
HandlerCanStep(h) == ENABLED <<program = "running" /\ HandlerStep(h)>>_vars
HeartCanStep == ENABLED <<program = "running" /\ HeartStep>>_vars

NoThreadStuck ==
    program = "running" =>
        /\ \A h \in Handlers : pc[h] # "idle" => HandlerCanStep(h)
        /\ heart \in {"check", "send"} => HeartCanStep

=============================================================================
