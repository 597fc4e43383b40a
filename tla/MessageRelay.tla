---------------------------- MODULE MessageRelay ----------------------------
(***************************************************************************)
(* The relay of velocity commands: MessageBase (zmq/message_base.cpp) with *)
(* CmdVelMessage (message/cmd_vel_message.cpp), the one message type that  *)
(* bridgex.cpp registers.                                                  *)
(*                                                                         *)
(*   main      BridgeX::Run: StartAll, spinOnce, StopAll;                  *)
(*   cb        RosCallback, run by main or by the request server, which    *)
(*             spins too while it waits in HandleM20Motion; roscpp runs    *)
(*             one callback of a subscription at a time;                   *)
(*   sub       the thread that SubFromZMQ starts and nothing joins.        *)
(*                                                                         *)
(* cb and sub share data_ without a lock and touch it field by field.  The *)
(* model keeps two of its fields, and of a value only who wrote it: a tag  *)
(* <<"ros", n>> or <<"zmq", n>> names the n-th message of that side.       *)
(***************************************************************************)
EXTENDS Naturals, Sequences

CONSTANTS
    MaxRos,   \* bound: messages delivered to RosCallback
    MaxZmq    \* bound: messages sent to the ZMQ subscription

ASSUME BoundsAssumption == MaxRos \in Nat /\ MaxZmq \in Nat

Fields == {"linear", "angular"}

\* FromJson, ToJson and the serialization take linear first.
First(fields) == IF "linear" \in fields THEN "linear" ELSE "angular"

Tags == ({"ros"} \X (1..MaxRos)) \cup ({"zmq"} \X (1..MaxZmq))
            \cup {<<"init", 0>>, <<"unread", 0>>}

Unread == [f \in Fields |-> <<"unread", 0>>]

\* What a message says of each field.  A "bad" field is not a number.
Bodies == [Fields -> {"absent", "good", "bad"}]

\* Another topic, another type, no type, or no JSON at all.
Foreign == [f \in Fields |-> "foreign"]

VARIABLES
    main,       \* where the main thread is
    isRunning,  \* is_running_
    zmq,        \* "down" when SetupZMQ failed and closed the context
    pub,        \* ros_pub_
    rosSub,     \* ros_sub_
    program,    \* "segfault" once a publish met the shutdown of ros_pub_
    data,       \* data_: the tag of each field
    cb,         \* where RosCallback is
    spinner,    \* the thread that runs it
    nRos,       \* the number of the message it was called for last
    cbTodo,     \* fields still to copy or to read
    cbOut,      \* the JSON it builds
    sub,        \* where the thread of SubFromZMQ is
    queue,      \* received by the socket
    nZmq,       \* messages sent to the subscription
    taken,      \* the number of the message it took last
    body,       \* that message
    subTodo,    \* fields still to apply or to serialize
    subOut,     \* what it publishes
    toZmq,      \* ROS messages that went out to ZMQ
    toRos,      \* ZMQ messages that went out to ROS
    cbSince,    \* history: the first ZMQ message that could meet this callback
    subSince    \* history: the first ROS message that could meet this apply

life  == <<main, isRunning, zmq, pub, rosSub>>
cbVars == <<cb, spinner, nRos, cbTodo, cbOut, toZmq, cbSince>>
subVars == <<sub, taken, body, subTodo, subOut, toRos, subSince>>
vars == <<life, program, data, cbVars, subVars, queue, nZmq>>

\* The type invariant.
TypeOK ==
    /\ main \in {"boot", "flag", "run", "stopPub", "stopSub", "stopped"}
    /\ isRunning \in BOOLEAN /\ zmq \in {"up", "down"}
    /\ pub \in {"none", "open", "shut"} /\ rosSub \in {"none", "open", "shut"}
    /\ program \in {"running", "segfault"}
    /\ data \in [Fields -> Tags]
    /\ cb \in {"idle", "copy", "check", "read", "send"}
    /\ spinner \in {"main", "server"}
    /\ nRos \in 0..MaxRos /\ cbTodo \subseteq Fields
    /\ cbOut \in [Fields -> Tags] /\ toZmq \subseteq 1..MaxRos
    /\ sub \in {"unborn", "connect", "top", "recv", "apply", "check",
                "publish", "read", "exited"}
    /\ queue \in Seq(Bodies \cup {Foreign}) /\ Len(queue) + taken <= nZmq
    /\ nZmq \in 0..MaxZmq /\ taken \in 0..MaxZmq
    /\ body \in Bodies \cup {Foreign} /\ subTodo \subseteq Fields
    /\ subOut \in [Fields -> Tags] /\ toRos \subseteq 1..MaxZmq
    /\ cbSince \in Nat /\ subSince \in Nat

\* The constructors; SetupZMQ may fail to bind.
Init ==
    /\ main = "boot" /\ isRunning = FALSE /\ zmq \in {"up", "down"}
    /\ pub = "none" /\ rosSub = "none" /\ program = "running"
    /\ data = [f \in Fields |-> <<"init", 0>>]
    /\ cb = "idle" /\ spinner = "main" /\ nRos = 0
    /\ cbTodo = {} /\ cbOut = Unread /\ toZmq = {} /\ cbSince = 0
    /\ sub = "unborn" /\ queue = <<>> /\ nZmq = 0 /\ taken = 0
    /\ body = Foreign /\ subTodo = {} /\ subOut = Unread
    /\ toRos = {} /\ subSince = 0

-----------------------------------------------------------------------------
(* Start and Stop, by the main thread.                                     *)

\* CmdVelMessage::Init: advertise, subscribe, SubFromZMQ.
MainInit ==
    /\ main = "boot"
    /\ main' = "flag"
    /\ pub' = "open" /\ rosSub' = "open" /\ sub' = "connect"
    /\ UNCHANGED <<isRunning, zmq, program, data, cbVars, taken, body, subTodo,
                   subOut, toRos, subSince, queue, nZmq>>

\* Only now: the thread may have looked at is_running_ already.
MainFlag ==
    /\ main = "flag"
    /\ main' = "run" /\ isRunning' = TRUE
    /\ UNCHANGED <<zmq, pub, rosSub, program, data, cbVars, subVars, queue,
                   nZmq>>

\* Stop; main is not inside spinOnce.
MainStop ==
    /\ main = "run" /\ ~ (cb # "idle" /\ spinner = "main")
    /\ main' = "stopPub" /\ isRunning' = FALSE
    /\ UNCHANGED <<zmq, pub, rosSub, program, data, cbVars, subVars, queue,
                   nZmq>>

\* ros_pub_.shutdown() waits for a publish that holds roscpp's lock.
MainStopPub ==
    /\ main = "stopPub" /\ sub # "read"
    /\ main' = "stopSub" /\ pub' = "shut"
    /\ UNCHANGED <<isRunning, zmq, rosSub, program, data, cbVars, subVars,
                   queue, nZmq>>

\* Mutant: nothing waits for a callback that is running.
MainStopSubAtOnce ==
    /\ main = "stopSub"
    /\ main' = "stopped" /\ rosSub' = "shut"
    /\ UNCHANGED <<isRunning, zmq, pub, program, data, cbVars, subVars, queue,
                   nZmq>>

\* ros_sub_.shutdown() waits for a callback that runs in another thread.
MainStopSub ==
    /\ main = "stopSub" /\ cb = "idle"
    /\ main' = "stopped" /\ rosSub' = "shut"
    /\ UNCHANGED <<isRunning, zmq, pub, program, data, cbVars, subVars, queue,
                   nZmq>>

-----------------------------------------------------------------------------
(* From ROS to ZMQ.                                                        *)

\* A thread that spins finds a message.
CbBegin(thread) ==
    /\ cb = "idle" /\ rosSub = "open" /\ nRos < MaxRos
    /\ \/ thread = "main" /\ main = "run"
       \/ thread = "server" /\ main \in {"run", "stopPub", "stopSub"}
    /\ cb' = "copy" /\ spinner' = thread /\ nRos' = nRos + 1
    /\ cbTodo' = Fields /\ cbOut' = Unread
    /\ cbSince' = IF sub = "apply" THEN taken ELSE taken + 1
    /\ UNCHANGED <<life, program, data, toZmq, subVars, queue, nZmq>>

\* Mutant: half a message is enough.
CbCopyHalf(f) ==
    /\ cb = "copy" /\ f \in cbTodo
    /\ data' = [data EXCEPT ![f] = <<"ros", nRos>>]
    /\ cbTodo' = {} /\ cb' = "check"
    /\ UNCHANGED <<life, program, spinner, nRos, cbOut, toZmq, cbSince,
                   subVars, queue, nZmq>>

\* data_ = *msg.
CbCopy(f) ==
    /\ cb = "copy" /\ f \in cbTodo
    /\ data' = [data EXCEPT ![f] = <<"ros", nRos>>]
    /\ cbTodo' = cbTodo \ {f}
    /\ cb' = IF cbTodo' = {} THEN "check" ELSE "copy"
    /\ UNCHANGED <<life, program, spinner, nRos, cbOut, toZmq, cbSince,
                   subVars, queue, nZmq>>

\* PublishToZMQ: if (!is_running_) return.
CbCheck ==
    /\ cb = "check"
    /\ IF isRunning THEN cb' = "read" /\ cbTodo' = Fields
                    ELSE cb' = "idle" /\ UNCHANGED cbTodo
    /\ UNCHANGED <<life, program, data, spinner, nRos, cbOut, toZmq, cbSince,
                   subVars, queue, nZmq>>

\* ToJson.
CbRead ==
    /\ cb = "read"
    /\ LET f == First(cbTodo) IN
        /\ cbOut' = [cbOut EXCEPT ![f] = data[f]]
        /\ cbTodo' = cbTodo \ {f}
        /\ cb' = IF cbTodo' = {} THEN "send" ELSE "read"
    /\ UNCHANGED <<life, program, data, spinner, nRos, toZmq, cbSince, subVars,
                   queue, nZmq>>

\* Mutant: without a socket the send waits for one.
CbSendWaits ==
    /\ cb = "send" /\ zmq = "up"
    /\ toZmq' = toZmq \cup {nRos}
    /\ cb' = "idle"
    /\ UNCHANGED <<life, program, data, spinner, nRos, cbTodo, cbOut, cbSince,
                   subVars, queue, nZmq>>

\* PubToZMQ; a closed socket throws, which is logged.
CbSend ==
    /\ cb = "send"
    /\ toZmq' = IF zmq = "up" THEN toZmq \cup {nRos} ELSE toZmq
    /\ cb' = "idle"
    /\ UNCHANGED <<life, program, data, spinner, nRos, cbTodo, cbOut, cbSince,
                   subVars, queue, nZmq>>

-----------------------------------------------------------------------------
(* From ZMQ to ROS.                                                        *)

\* A client publishes; without a subscription the message is lost.
Publish(b) ==
    /\ nZmq < MaxZmq
    /\ nZmq' = nZmq + 1
    /\ queue' = IF sub \in {"unborn", "connect", "exited"} THEN queue
                ELSE Append(queue, b)
    /\ UNCHANGED <<life, program, data, cbVars, subVars>>

\* The lambda's socket, on a context that may be closed.
SubConnect ==
    /\ sub = "connect"
    /\ sub' = IF zmq = "up" THEN "top" ELSE "exited"
    /\ UNCHANGED <<life, program, data, cbVars, taken, body, subTodo, subOut,
                   toRos, subSince, queue, nZmq>>

\* while (is_running_).
SubTop ==
    /\ sub = "top"
    /\ sub' = IF isRunning THEN "recv" ELSE "exited"
    /\ UNCHANGED <<life, program, data, cbVars, taken, body, subTodo, subOut,
                   toRos, subSince, queue, nZmq>>

\* recv has no timeout.  ReceiveFromZMQ drops what is not a cmd_vel.
SubRecv ==
    /\ sub = "recv" /\ queue # <<>>
    /\ body' = Head(queue) /\ queue' = Tail(queue) /\ taken' = taken + 1
    /\ subTodo' = {f \in Fields : body'[f] \in {"good", "bad"}}
    /\ sub' = IF body' = Foreign THEN "top"
              ELSE IF subTodo' = {} THEN "check" ELSE "apply"
    /\ subOut' = Unread
    /\ subSince' = IF cb = "copy" THEN nRos ELSE nRos + 1
    /\ UNCHANGED <<life, program, data, cbVars, toRos, nZmq>>

\* Mutant: a field that is 'else if' of the other.
SubApplyElse ==
    /\ sub = "apply"
    /\ LET f == First(subTodo) IN
        IF body[f] = "bad"
        THEN sub' = "top" /\ UNCHANGED <<data, subTodo>>
        ELSE /\ data' = [data EXCEPT ![f] = <<"zmq", taken>>]
             /\ subTodo' = {}
             /\ sub' = "check"
    /\ UNCHANGED <<life, program, cbVars, taken, body, subOut, toRos, subSince,
                   queue, nZmq>>

\* FromJson: a bad field throws, and those before it stay written.
SubApply ==
    /\ sub = "apply"
    /\ LET f == First(subTodo) IN
        IF body[f] = "bad"
        THEN sub' = "top" /\ UNCHANGED <<data, subTodo>>
        ELSE /\ data' = [data EXCEPT ![f] = <<"zmq", taken>>]
             /\ subTodo' = subTodo \ {f}
             /\ sub' = IF subTodo' = {} THEN "check" ELSE "apply"
    /\ UNCHANGED <<life, program, cbVars, taken, body, subOut, toRos, subSince,
                   queue, nZmq>>

\* Mutant: a command without every field is not passed on.
SubCheckFull ==
    /\ sub = "check"
    /\ sub' = IF isRunning /\ \A f \in Fields : body[f] = "good"
              THEN "publish" ELSE "top"
    /\ UNCHANGED <<life, program, data, cbVars, taken, body, subTodo, subOut,
                   toRos, subSince, queue, nZmq>>

\* PublishToROS: if (!is_running_) return.
SubCheck ==
    /\ sub = "check"
    /\ sub' = IF isRunning THEN "publish" ELSE "top"
    /\ UNCHANGED <<life, program, data, cbVars, taken, body, subTodo, subOut,
                   toRos, subSince, queue, nZmq>>

\* ros_pub_.publish.
SubPublish ==
    /\ sub = "publish" /\ pub = "open"
    /\ sub' = "read" /\ subTodo' = Fields
    /\ UNCHANGED <<life, program, data, cbVars, taken, body, subOut, toRos,
                   subSince, queue, nZmq>>

\* Stop was faster: the message is dropped, or the publish has gone past its
\* own check and uses a publisher that is no longer there.
SubPublishShut ==
    /\ sub = "publish" /\ pub = "shut"
    /\ sub' = "top"
    /\ program' \in {"running", "segfault"}
    /\ UNCHANGED <<life, data, cbVars, taken, body, subTodo, subOut, toRos,
                   subSince, queue, nZmq>>

\* The serialization inside publish.
SubRead ==
    /\ sub = "read"
    /\ LET f == First(subTodo) IN
        /\ subOut' = [subOut EXCEPT ![f] = data[f]]
        /\ subTodo' = subTodo \ {f}
    /\ sub' = IF subTodo' = {} THEN "top" ELSE "read"
    /\ toRos' = IF subTodo' = {} THEN toRos \cup {taken} ELSE toRos
    /\ UNCHANGED <<life, program, data, cbVars, taken, body, subSince, queue,
                   nZmq>>

-----------------------------------------------------------------------------
MainStep == MainInit \/ MainFlag \/ MainStopPub \/ MainStopSub
CbStep == (\E f \in Fields : CbCopy(f)) \/ CbCheck \/ CbRead \/ CbSend
SubStep == SubConnect \/ SubTop \/ SubRecv \/ SubApply \/ SubCheck
              \/ SubPublish \/ SubPublishShut \/ SubRead

Next ==
    /\ program = "running"
    /\ \/ MainStep \/ MainStop \/ CbStep \/ SubStep
       \/ \E thread \in {"main", "server"} : CbBegin(thread)
       \/ \E b \in Bodies \cup {Foreign} : Publish(b)

Spec == Init /\ [][Next]_vars

\* Each thread goes on once it has something to do.
FairSpec ==
    /\ Spec
    /\ WF_vars(program = "running" /\ MainStep)
    /\ WF_vars(program = "running" /\ CbStep)
    /\ WF_vars(program = "running" /\ SubStep)

-----------------------------------------------------------------------------
\* Written by this callback, or by a ZMQ message applied during it.
Fresh(tag) ==
    \/ tag = <<"ros", nRos>>
    \/ \E k \in cbSince..MaxZmq : tag = <<"zmq", k>>

\* What goes out to ZMQ for a ROS message never carries a field of an older
\* ROS message, nor of a command that was over when the callback began:
\* only a command that came while it ran may have written in between
\* (cmd_vel_message.cpp:76, data_ is not locked).
OutboundIsFresh == cb = "send" => \A f \in Fields : Fresh(cbOut[f])

\* Written by this message, or by a callback that overlapped it.
Own(tag) ==
    \/ tag = <<"zmq", taken>>
    \/ \E r \in subSince..MaxRos : tag = <<"ros", r>>

\* A command goes out to ROS with the fields it gave, whatever an earlier
\* one left in data_, the written half of a rejected one included; only a
\* ROS message that came meanwhile may replace one (cmd_vel_message.cpp:102).
InboundIsKept ==
    \A f \in Fields :
        body[f] = "good" /\ subOut[f] # <<"unread", 0>> => Own(subOut[f])

\* When Stop has returned nothing more goes out, although the thread of the
\* subscription is still there and may have passed its check of is_running_
\* before (message_base.cpp:109-111).
QuietAfterStop == [][main = "stopped" => UNCHANGED <<toZmq, toRos>>]_vars

\* The relay is stopped, was broken by Stop, or lost its subscription thread
\* because it started before the flag was set.
Halted == ~ isRunning \/ program # "running" \/ sub = "exited"

\* No message ends the subscription: its thread goes only when it sees
\* is_running_ false or has no context (message_base.cpp:77, :90).
SubEndsOnlyStopped ==
    [][sub # "exited" /\ sub' = "exited" => ~ isRunning \/ zmq = "down"]_vars

\* While the relay runs, the next message received is taken from the queue, a
\* good command goes out to ROS, whole or not, and a ROS message to ZMQ; and
\* no message ends that.
NextIsTaken(k) ==
    (taken = k /\ queue # <<>>) ~> (taken > k \/ Halted)
CommandGoesOut(k) ==
    (taken = k /\ sub = "apply" /\ \A f \in Fields : body[f] # "bad")
        ~> (k \in toRos \/ Halted)
MessageGoesOut(r) ==
    (nRos = r /\ cb # "idle")
        ~> (r \in toZmq \/ ~ isRunning \/ program # "running" \/ zmq = "down")

CommandsGoOut ==
    /\ SubEndsOnlyStopped
    /\ \A k \in 0..(MaxZmq - 1) : NextIsTaken(k)
    /\ \A k \in 1..MaxZmq : CommandGoesOut(k)
    /\ \A r \in 1..MaxRos : MessageGoesOut(r)

\* No thread waits for another but Stop: it waits for a publish and for a
\* callback that are running, and recv for a message (message_base.cpp:79).
MainCanStep == ENABLED <<program = "running" /\ MainStep>>_vars
CbCanStep == ENABLED <<program = "running" /\ CbStep>>_vars
SubCanStep == ENABLED <<program = "running" /\ SubStep>>_vars

NoThreadStuck ==
    program = "running" =>
        /\ \/ main \in {"boot", "flag"}
           \/ main = "stopPub" /\ sub # "read"
           \/ main = "stopSub" /\ cb = "idle"
           => MainCanStep
        /\ cb # "idle" => CbCanStep
        /\ sub \notin {"unborn", "exited"} /\ (sub = "recv" => queue # <<>>)
              => SubCanStep

=============================================================================
