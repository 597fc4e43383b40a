------------------------------- MODULE M20Link -------------------------------
(***************************************************************************)
(* The TCP link to the M20 robot: ExClient::HandleM20Motion, by whichever  *)
(* thread calls it, and M20Controller: connect and disconnect, the thread  *)
(* that cuts the stream of bytes into packets and keeps the last status,   *)
(* and the commands that wait for a charge state in it.                    *)
(*                                                                         *)
(* A handler is the server thread, the task manager's thread, or the       *)
(* callback of stair_motion, which runs in main or in a thread that spins. *)
(*                                                                         *)
(* External: TCP, which delivers the bytes in order and in any portions,   *)
(* and the robot, which sends packets and may send other bytes.            *)
(***************************************************************************)
EXTENDS Integers, Sequences

CONSTANTS
    Handlers,  \* the threads that handle motion requests
    Payloads,  \* the contents of the packets the robot sends
    Noise,     \* what else it sends
    MaxItems   \* bound: packets and noise sent

Byte == 0..255
Sync == <<235, 145, 235, 144>>
HeaderLength == 16

\* The code of CMD_STATUS_BASIC; a payload that begins with it is followed by
\* ChargeState.  The text of the JSON is left out.
Status == 6
ChargeStates == 0..5

\* Mutant: the status begins as zeros.
Zero == 0

\* The charge state before the first status.
Unknown == -1

ASSUME PayloadsAssumption ==
    \A p \in Payloads :
        /\ p \in Seq(Byte) /\ Len(p) < 65536
        /\ p # <<>> /\ p[1] = Status => Len(p) = 2 /\ p[2] \in ChargeStates

\* A packet of the protocol with the payload p.
Packet(p) ==
    Sync \o <<Len(p) % 256, Len(p) \div 256>> \o <<0, 0, 1>>
         \o <<0, 0, 0, 0, 0, 0, 0>> \o p

Packets == {Packet(p) : p \in Payloads}

IsSync(b, i) == i + 3 <= Len(b) /\ SubSeq(b, i, i + 3) = Sync

\* Noise holds no sync word and does not begin in the middle of one.
ASSUME NoiseAssumption ==
    \A n \in Noise :
        /\ n \in Seq(Byte) /\ n # <<>>
        /\ \A i \in DOMAIN Sync : n[1] # Sync[i]
        /\ \A i \in 1..Len(n) : ~IsSync(n, i)
ASSUME BoundAssumption == MaxItems \in Nat

\* What HandleM20Motion does for a request, by what it sends: one packet; two
\* packets; one and a wait for the charge state it asks for.  clear_charge
\* waits as stop_charge does.
Commands == {"move", "gait", "start_charge", "stop_charge"}
Awaited == [c \in {"start_charge", "stop_charge"} |->
                IF c = "start_charge" THEN 2 ELSE 0]

VARIABLES
    pc,        \* where a handler is
    cmd,       \* the command it waits for
    reply,     \* its last answer
    link,      \* the socket sockfd_: see Links
    running,   \* running_
    receiver,  \* where the receive thread is; "unborn" is not joinable
    main,      \* the destructor: "run", "join" the threads, "closed"
    wire,      \* bytes the robot has sent and the receiver has not received
    buffer,    \* the receive thread's buffer
    charge,    \* basicStatus_.charge
    items,     \* history: packets and noise that the robot has sent,
    stream,    \* history: all their bytes,
    packets,   \* history: and where in them each packet is
    arrived,   \* how many bytes of it were received
    delivered, \* the packets that the receive thread has taken
    raced,     \* two handlers were connecting at the same time
    crashed    \* std::terminate

handlers == <<pc, cmd, reply>>
threads  == <<running, receiver, main>>
parsing  == <<buffer, charge, delivered>>
sent     == <<items, stream, packets>>
vars == <<handlers, threads, link, wire, parsing, sent, arrived, raced, crashed>>

\* No socket; a socket without a connection; a connection; one that broke.
Links == {"none", "made", "connected", "lost"}

Pcs == {"idle", "connect", "socket", "dial", "start", "send", "send2", "wait"}

\* The type invariant.
TypeOK ==
    /\ pc \in [Handlers -> Pcs]
    /\ cmd \in [Handlers -> Commands]
    /\ reply \in [Handlers -> {"none", "ok", "failed"}]
    /\ link \in Links
    /\ running \in BOOLEAN
    /\ receiver \in {"unborn", "top", "recv", "parse", "exited"}
    /\ main \in {"run", "join", "closed"}
    /\ wire \in Seq(Byte) /\ buffer \in Seq(Byte)
    /\ charge \in ChargeStates \cup {Unknown}
    /\ items \in 0..MaxItems /\ stream \in Seq(Byte)
    /\ packets \in Seq([first : Nat, last : Nat])
    /\ arrived \in Nat
    /\ delivered \in Seq(Seq(Byte))
    /\ raced \in BOOLEAN /\ crashed \in BOOLEAN

Init ==
    /\ pc = [h \in Handlers |-> "idle"]
    /\ cmd = [h \in Handlers |-> "move"]
    /\ reply = [h \in Handlers |-> "none"]
    /\ link = "none" /\ running = FALSE
    /\ receiver = "unborn" /\ main = "run"
    /\ wire = <<>> /\ buffer = <<>> /\ charge = Unknown
    /\ items = 0 /\ stream = <<>> /\ packets = <<>> /\ arrived = 0 /\ delivered = <<>>
    /\ raced = FALSE /\ crashed = FALSE

-----------------------------------------------------------------------------
(* A request and the connection.                                           *)

Goto(h, p) == pc' = [pc EXCEPT ![h] = p]

Answer(h, r) ==
    /\ Goto(h, "idle")
    /\ cmd' = [cmd EXCEPT ![h] = "move"]
    /\ reply' = [reply EXCEPT ![h] = r]

\* HandleM20Motion asks isConnected().
Request(h) ==
    /\ main = "run" /\ pc[h] = "idle"
    /\ Goto(h, IF link = "none" THEN "connect" ELSE "send")
    /\ reply' = [reply EXCEPT ![h] = "none"]
    /\ UNCHANGED <<cmd, threads, link, wire, parsing, sent, arrived, raced,
                   crashed>>

Connecting(h) == pc[h] \in {"socket", "dial", "start"}

\* connect() asks again.
Connect(h) ==
    /\ pc[h] = "connect"
    /\ Goto(h, IF link = "none" THEN "socket" ELSE "send")
    /\ raced' = (raced \/ (link = "none" /\ \E u \in Handlers : Connecting(u)))
    /\ UNCHANGED <<cmd, reply, threads, link, wire, parsing, sent, arrived,
                   crashed>>

\* socket() overwrites sockfd_, and isConnected() is true from here on.
OpenSocket(h) ==
    /\ pc[h] = "socket"
    /\ \/ link' = "made" /\ Goto(h, "dial") /\ UNCHANGED <<cmd, reply>>
       \/ link' = "none" /\ Answer(h, "failed")
    /\ wire' = <<>>
    /\ UNCHANGED <<threads, parsing, sent, arrived, raced, crashed>>

\* ::connect on sockfd_: it fails on a socket that is already connected or
\* closed, and a failure closes whatever sockfd_ is.
Dial(h) ==
    /\ pc[h] = "dial"
    /\ \/ /\ link = "made" /\ link' = "connected"
          /\ Goto(h, "start")
          /\ UNCHANGED <<cmd, reply, wire>>
       \/ link' = "none" /\ wire' = <<>> /\ Answer(h, "failed")
    /\ UNCHANGED <<threads, parsing, sent, arrived, raced, crashed>>

\* The threads are started; to assign to a joinable thread ends the program.
StartThreads(h) ==
    /\ pc[h] = "start"
    /\ running' = TRUE
    /\ IF receiver = "unborn"
          THEN receiver' = "top" /\ Goto(h, "send") /\ UNCHANGED crashed
          ELSE crashed' = TRUE /\ UNCHANGED <<receiver, pc>>
    /\ UNCHANGED <<cmd, reply, main, link, wire, parsing, sent, arrived, raced>>

-----------------------------------------------------------------------------
(* The commands.                                                           *)

\* sendPacket: a packet may go out only in part, which is a failure, and a send
\* on a broken connection may still succeed.
Outcomes == {ok \in BOOLEAN : ok => link \in {"connected", "lost"}}

Result(ok) == IF ok THEN "ok" ELSE "failed"

\* An unknown command, or an axis command out of range, is not sent.
Refuse(h) ==
    /\ pc[h] = "send"
    /\ Answer(h, "failed")
    /\ UNCHANGED <<threads, link, wire, parsing, sent, arrived, raced, crashed>>

\* The command is looked at and its first packet sent.  Whether setGait
\* succeeded is overwritten by what the second packet does.
Send(h, c) ==
    /\ pc[h] = "send"
    /\ \E ok \in Outcomes :
         \/ c = "gait" /\ Goto(h, "send2") /\ UNCHANGED <<cmd, reply>>
         \/ /\ c \in DOMAIN Awaited /\ ok
            /\ Goto(h, "wait") /\ cmd' = [cmd EXCEPT ![h] = c] /\ UNCHANGED reply
         \/ /\ c = "move" \/ (c \in DOMAIN Awaited /\ ~ok)
            /\ Answer(h, Result(ok))
    /\ UNCHANGED <<threads, link, wire, parsing, sent, arrived, raced, crashed>>

SendSecond(h) ==
    /\ pc[h] = "send2"
    /\ \E ok \in Outcomes : Answer(h, Result(ok))
    /\ UNCHANGED <<threads, link, wire, parsing, sent, arrived, raced, crashed>>

\* waitForEnterCharge, waitForExitCharge: the state, whenever it came, ...
Wait(h) ==
    /\ pc[h] = "wait" /\ charge = Awaited[cmd[h]]
    /\ Answer(h, "ok")
    /\ UNCHANGED <<threads, link, wire, parsing, sent, arrived, raced, crashed>>

\* ... or the end of the time.
WaitTimeout(h) ==
    /\ pc[h] = "wait"
    /\ Answer(h, "failed")
    /\ UNCHANGED <<threads, link, wire, parsing, sent, arrived, raced, crashed>>

-----------------------------------------------------------------------------
(* The receive thread.                                                     *)

Loop ==
    /\ receiver = "top"
    /\ receiver' = IF running THEN "recv" ELSE "exited"
    /\ UNCHANGED <<handlers, running, main, link, wire, parsing, sent, arrived,
                   raced, crashed>>

\* recv returns any portion of what is there.
Receive ==
    /\ receiver = "recv" /\ link \in {"connected", "lost"}
    /\ \E n \in 1..Len(wire) :
         /\ buffer' = buffer \o SubSeq(wire, 1, n)
         /\ wire' = SubSeq(wire, n + 1, Len(wire))
         /\ arrived' = arrived + n
    /\ receiver' = "parse"
    /\ UNCHANGED <<handlers, running, main, link, charge, delivered, sent, raced,
                   crashed>>

\* Mutant: a connection that broke is given up, for the next one to be made.
RecvFailsCloses ==
    /\ receiver = "recv" /\ link # "connected" /\ wire = <<>>
    /\ receiver' = IF running THEN "top" ELSE "exited"
    /\ link' = "none"
    /\ UNCHANGED <<handlers, running, main, wire, parsing, sent, arrived, raced,
                   crashed>>

\* recv has nothing and never will: again after 10 ms, without reconnecting.
RecvFails ==
    /\ receiver = "recv" /\ link # "connected" /\ wire = <<>>
    /\ receiver' = IF running THEN "top" ELSE "exited"
    /\ UNCHANGED <<handlers, running, main, link, wire, parsing, sent, arrived,
                   raced, crashed>>

\* Mutant: without a sync word the whole buffer is dropped.
StopsAtEnd(b, k) ==
    /\ k = Len(b) \/ IsSync(b, k + 1)
    /\ \A i \in 1..k : ~IsSync(b, i)

\* The search for the sync word stops after k bytes: in front of the first one,
\* or three bytes before the end.
StopsAt(b, k) ==
    /\ k = Len(b) - 3 \/ IsSync(b, k + 1)
    /\ \A i \in 1..k : ~IsSync(b, i)

PacketLength(b) == HeaderLength + b[5] + 256 * b[6]

Parsing == receiver = "parse" /\ Len(buffer) >= HeaderLength

\* What is in front of the sync word is dropped.
Discard ==
    /\ Parsing
    /\ \E k \in 1..Len(buffer) :
         /\ StopsAt(buffer, k)
         /\ buffer' = SubSeq(buffer, k + 1, Len(buffer))
    /\ UNCHANGED <<handlers, threads, link, wire, charge, delivered, sent,
                   arrived, raced, crashed>>

Payload(packet) == SubSeq(packet, HeaderLength + 1, Len(packet))

\* A packet with a basic status; any other, and one that does not parse, is
\* passed over.
IsStatus(packet) == \E c \in ChargeStates : Payload(packet) = <<Status, c>>

\* Mutant: the state is read one byte early.
ChargeBefore(packet) == packet[HeaderLength + 1]

ChargeOf(packet) == packet[HeaderLength + 2]

\* A whole packet: a basic status replaces the last one.
Deliver ==
    /\ Parsing /\ StopsAt(buffer, 0) /\ PacketLength(buffer) <= Len(buffer)
    /\ LET packet == SubSeq(buffer, 1, PacketLength(buffer)) IN
         /\ delivered' = Append(delivered, packet)
         /\ charge' = IF IsStatus(packet) THEN ChargeOf(packet) ELSE charge
    /\ buffer' = SubSeq(buffer, PacketLength(buffer) + 1, Len(buffer))
    /\ UNCHANGED <<handlers, threads, link, wire, sent, arrived, raced, crashed>>

\* The rest is kept for the next portion.
Keep ==
    /\ receiver = "parse"
    /\ \/ Len(buffer) < HeaderLength
       \/ Parsing /\ StopsAt(buffer, 0) /\ PacketLength(buffer) > Len(buffer)
    /\ receiver' = "top"
    /\ UNCHANGED <<handlers, running, main, link, wire, parsing, sent, arrived,
                   raced, crashed>>

-----------------------------------------------------------------------------
(* disconnect(), which only the destructor calls.  It runs in main; that a *)
(* detached server thread may still be in a handler then is left out.      *)

Disconnect ==
    /\ main = "run" /\ \A h \in Handlers : pc[h] = "idle"
    /\ main' = "join" /\ running' = FALSE
    /\ UNCHANGED <<handlers, receiver, link, wire, parsing, sent, arrived, raced,
                   crashed>>

\* The receive thread is joined: recv has no timeout.
Close ==
    /\ main = "join" /\ receiver \in {"unborn", "exited"}
    /\ main' = "closed" /\ link' = "none" /\ wire' = <<>>
    /\ UNCHANGED <<handlers, running, receiver, parsing, sent, arrived, raced,
                   crashed>>

-----------------------------------------------------------------------------
(* The robot.                                                              *)

Report(item) ==
    /\ link = "connected" /\ items < MaxItems
    /\ items' = items + 1
    /\ wire' = wire \o item /\ stream' = stream \o item
    /\ packets' = IF item \in Packets
                  THEN Append(packets, [first |-> Len(stream) + 1,
                                        last |-> Len(stream) + Len(item)])
                  ELSE packets
    /\ UNCHANGED <<handlers, threads, link, parsing, arrived, raced, crashed>>

\* The connection breaks, with or without what is on its way.
Lose ==
    /\ link = "connected" /\ link' = "lost"
    /\ wire' \in {wire, <<>>}
    /\ UNCHANGED <<handlers, threads, parsing, sent, arrived, raced, crashed>>

Handle(h) ==
    \/ Connect(h) \/ OpenSocket(h) \/ Dial(h) \/ StartThreads(h)
    \/ Refuse(h) \/ SendSecond(h) \/ Wait(h) \/ WaitTimeout(h)
    \/ \E c \in Commands : Send(h, c)

ReceiveThread == Loop \/ Receive \/ RecvFails \/ Discard \/ Deliver \/ Keep

Next ==
    /\ ~crashed
    /\ \/ \E h \in Handlers : Request(h) \/ Handle(h)
       \/ ReceiveThread \/ Disconnect \/ Close \/ Lose
       \/ \E item \in Packets \cup Noise : Report(item)

Spec == Init /\ [][Next]_vars
-----------------------------------------------------------------------------
(* Properties.                                                             *)

\* However the stream is cut and whatever is between the packets, the receive
\* thread takes every packet that has arrived as a whole, once and in order,
\* before it waits again: unless the stream itself is mixed of two connections.
DeliveredIsArrived ==
    receiver # "parse" /\ ~raced =>
        /\ Len(delivered) <= Len(packets)
        /\ \A i \in 1..Len(packets) :
              i <= Len(delivered) <=> packets[i].last <= arrived
        /\ \A i \in 1..Len(delivered) :
              delivered[i] = SubSeq(stream, packets[i].first, packets[i].last)

\* The receive thread is never assigned while it exists unless two handlers
\* were connecting at once: a link that was lost, or a handler that comes
\* after one that failed, does not get there.
OnlyRacingConnectsTerminate == crashed => raced

\* A charge command succeeds only if the robot has reported the state that it
\* waits for: not on a status that never came, a part of one or a default.
\* The report may be older than the command.
ChargeWasReported ==
    [][\A h \in Handlers :
         pc[h] = "wait" /\ reply'[h] = "ok" =>
            \E i \in DOMAIN delivered :
                Payload(delivered[i]) = <<Status, Awaited[cmd[h]]>>]_vars
=============================================================================
