---------------------------- MODULE ElevatorLink ----------------------------
(***************************************************************************)
(* The serial line to the elevator: lift_comm/src/elevator_control.py and  *)
(* the three services of lift_controller.py on top of it.                  *)
(*                                                                         *)
(* rospy runs every service call in a thread of its own and                *)
(* ElevatorControl starts one more for the heartbeat; all of them come to  *)
(* _send_and_recv, which holds an RLock for a whole exchange.  The other   *)
(* end, external to the repository, is the elevator's interface: it takes  *)
(* the requests in order, may ignore one, may answer after the caller has  *)
(* given up, and its frames arrive in parts.                               *)
(*                                                                         *)
(* A frame is a record.  What it is worth to the caller is told by its     *)
(* "to": the thread whose running call it answers, "late" when that call   *)
(* is over, "other" for a frame meant for another robot.  Only the         *)
(* properties look at it beyond the robot ID a real frame carries.         *)
(***************************************************************************)
EXTENDS Naturals, Sequences

CONSTANTS
    Handlers,    \* threads that serve /lift/call, state_inquiry and hodor
    RobotId,     \* the robot's number on the line, 0..255
    LineBound,   \* bound: parts of frames between the elevator and a caller
    Strangers    \* the elevator answers other robots too

\* A thread is not a word the model uses for something else.
ASSUME HandlersAssumption ==
    Handlers \cap {"heartbeat", "late", "stale", "other", "none"} = {}

ASSUME LineAssumption ==
    RobotId \in 0..255 /\ LineBound \in Nat /\ Strangers \in BOOLEAN

Threads == Handlers \cup {"heartbeat"}

\* The services call register_floor, query_status and control_front_door.
ServiceCommands == {"register", "query", "door"}
Commands == ServiceCommands \cup {"heartbeat"}

\* The thread a frame answers; "late": its call is over; "stale": it was in
\* the port when the call began; "other": another robot's.
Addressees == Threads \cup {"late", "stale", "other"}

Requests == [to : Addressees, cmd : Commands]

\* A frame reaches the port in two parts.  The rest of it is told when it is
\* read: whether noise spoilt it, whether its first part happens to end in
\* 0x03, and what its data says (Data).
Parts == [to : Addressees, cmd : Commands, tail : BOOLEAN]

\* The data of a frame that answers c: "short", less than the service looks at
\* (three bytes for a floor, five for a status), or long enough; for a floor,
\* with the confirmation or without it.
Contents == {"short", "yes", "no"}
Data(c) == CASE c = "register" -> Contents
             [] c = "heartbeat" -> {"yes"}
             [] OTHER -> {"short", "yes"}

\* What a call returned.
Replies == [to : Threads \cup {"late", "stale"}, says : Contents]

None == [to |-> "none", says |-> "short"]

VARIABLES
    pc,        \* where a thread is in its call
    cmd,       \* the command of its last call
    resp,      \* the parts it has read
    reply,     \* what its last call returned
    lock,      \* the thread that holds _lock, if any
    due,       \* 100 s have passed since _last_heartbeat
    rx,        \* the input buffer of the port
    todo,      \* the requests the elevator has not looked at yet
    sending,   \* the frame of which it has sent the first part, if any
    steady     \* threads whose line was silent when their request went out

calls == <<pc, cmd, resp, reply>>
line  == <<rx, todo, sending>>
vars  == <<calls, lock, due, line, steady>>

\* The type invariant.
TypeOK ==
    /\ pc \in [Threads -> {"idle", "lock", "write", "read"}]
    /\ cmd \in [Threads -> Commands]
    /\ resp \in [Threads -> Seq(Parts)]
    /\ reply \in [Threads -> Replies \cup {None}]
    /\ lock \in {{}} \cup {{t} : t \in Threads}
    /\ due \in BOOLEAN
    /\ rx \in Seq(Parts) /\ todo \in Seq(Requests) /\ sending \in Seq(Requests)
    /\ steady \subseteq Threads

Init ==
    /\ pc = [t \in Threads |-> "idle"]
    /\ cmd = [t \in Threads |-> "heartbeat"]
    /\ resp = [t \in Threads |-> <<>>]
    /\ reply = [t \in Threads |-> None]
    /\ lock = {} /\ due = FALSE
    /\ rx = <<>> /\ todo = <<>> /\ sending = <<>>
    /\ steady = {}

-----------------------------------------------------------------------------
(* A call.                                                                 *)

\* handle_call, handle_state_inquiry, handle_hodor.
Serve(t, c) ==
    /\ pc[t] = "idle" /\ t \in Handlers
    /\ pc' = [pc EXCEPT ![t] = "lock"]
    /\ cmd' = [cmd EXCEPT ![t] = c]
    /\ reply' = [reply EXCEPT ![t] = None]
    /\ UNCHANGED <<resp, lock, due, line, steady>>

\* _heartbeat_loop, which tries again each second until it is answered.
Heartbeat ==
    /\ pc["heartbeat"] = "idle" /\ due
    /\ pc' = [pc EXCEPT !["heartbeat"] = "lock"]
    /\ reply' = [reply EXCEPT !["heartbeat"] = None]
    /\ UNCHANGED <<cmd, resp, lock, due, line, steady>>

\* What is addressed to one of "from", readdressed.
Readdress(items, from, to) ==
    [i \in DOMAIN items |->
        IF items[i].to \in from THEN [items[i] EXCEPT !.to = to] ELSE items[i]]

\* Mutant: the exchanges of two threads mix.
BeginUnlocked(t) ==
    /\ pc[t] = "lock"
    /\ rx' = <<>>
    /\ pc' = [pc EXCEPT ![t] = "write"]
    /\ UNCHANGED <<cmd, resp, reply, lock, due, todo, sending, steady>>

\* Mutant: the lock does not exclude.
BeginShared(t) ==
    /\ pc[t] = "lock"
    /\ lock' = lock \cup {t}
    /\ rx' = <<>>
    /\ pc' = [pc EXCEPT ![t] = "write"]
    /\ UNCHANGED <<cmd, resp, reply, due, todo, sending, steady>>

\* Mutant: what is left in the port stays there.
BeginWithoutReset(t) ==
    /\ pc[t] = "lock" /\ lock = {}
    /\ lock' = {t}
    /\ rx' = Readdress(rx, Threads \cup {"late"}, "stale")
    /\ pc' = [pc EXCEPT ![t] = "write"]
    /\ UNCHANGED <<cmd, resp, reply, due, todo, sending, steady>>

\* with self._lock: reset_input_buffer().
Begin(t) ==
    /\ pc[t] = "lock" /\ lock = {}
    /\ lock' = {t}
    /\ rx' = <<>>
    /\ pc' = [pc EXCEPT ![t] = "write"]
    /\ UNCHANGED <<cmd, resp, reply, due, todo, sending, steady>>

TodoBound == 2   \* bound: the elevator drops what it cannot queue

Silent == rx = <<>> /\ todo = <<>> /\ sending = <<>>

\* ser.write(packet); a late part may have come since the reset.
Write(t) ==
    /\ pc[t] = "write"
    /\ todo' = IF Len(todo) < TodoBound
                  THEN Append(todo, [to |-> t, cmd |-> cmd[t]]) ELSE todo
    /\ steady' = IF Silent THEN steady \cup {t} ELSE steady
    /\ pc' = [pc EXCEPT ![t] = "read"]
    /\ UNCHANGED <<cmd, resp, reply, lock, due, rx, sending>>

\* What the service answers: success, or a status at all.  register_floor
\* looks at bit 0 of resp[1], which is the robot ID.
Success(c, r) ==
    CASE c = "register"  -> r.says # "short" /\ RobotId % 2 = 1
      [] c = "heartbeat" -> r # None
      [] OTHER           -> r.says # "short"

Return(t, r) ==
    /\ pc' = [pc EXCEPT ![t] = "idle"]
    /\ resp' = [resp EXCEPT ![t] = <<>>]
    /\ reply' = [reply EXCEPT ![t] = r]
    /\ lock' = lock \ {t}
    /\ due' = (due /\ ~(t = "heartbeat" /\ Success("heartbeat", r)))
    /\ todo' = Readdress(todo, {t}, "late")
    /\ sending' = Readdress(sending, {t}, "late")
    /\ steady' = steady \ {t}
    /\ UNCHANGED cmd

\* A buffer is looked at if it begins with 0xAA 0x55 and ends in 0x03; the
\* length byte is that of its first frame.
Complete(parts) == Len(parts) = 2 /\ ~parts[1].tail /\ parts[2].tail
Overlong(parts, etx) ==
    Len(parts) > 2 /\ ~parts[1].tail /\ (parts[Len(parts)].tail \/ etx)

\* The command and the robot ID of a frame.
Expected(t, frame) == frame.cmd = cmd[t] /\ frame.to # "other"

Keep(t, parts) ==
    /\ resp' = [resp EXCEPT ![t] = parts]
    /\ UNCHANGED <<pc, cmd, reply, lock, due, todo, sending, steady>>

Read(t) ==
    /\ pc[t] = "read" /\ rx # <<>>
    /\ \E etx, intact \in BOOLEAN, says \in Data(cmd[t]) :
         LET parts == resp[t] \o rx IN
            CASE Complete(parts) /\ intact /\ Expected(t, parts[1]) ->
                    Return(t, [to |-> parts[1].to, says |-> says])
              [] Complete(parts) /\ ~(intact /\ Expected(t, parts[1])) ->
                    Keep(t, <<>>)
              [] Overlong(parts, etx) -> Keep(t, <<>>)
              [] OTHER -> Keep(t, parts)
    /\ rx' = <<>>

\* No answer in 13 s, 3 s for a heartbeat.
Timeout(t) ==
    /\ pc[t] = "read"
    /\ rx' = Readdress(rx, {t}, "late")
    /\ Return(t, None)

\* An exception of the port is caught.
SerialError(t) ==
    /\ pc[t] \in {"write", "read"}
    /\ rx' = Readdress(rx, {t}, "late")
    /\ Return(t, None)

-----------------------------------------------------------------------------
(* The elevator, the other robots and the time.                            *)

Ignore ==
    /\ todo # <<>>
    /\ todo' = Tail(todo)
    /\ UNCHANGED <<calls, lock, due, rx, sending, steady>>

Part(request, tail) ==
    [to |-> request.to, cmd |-> request.cmd, tail |-> tail]

Room == \A t \in Threads : Len(resp[t]) + Len(rx) < LineBound

SendFirst ==
    /\ todo # <<>> /\ sending = <<>> /\ Room
    /\ sending' = <<Head(todo)>>
    /\ rx' = Append(rx, Part(Head(todo), FALSE))
    /\ todo' = Tail(todo)
    /\ UNCHANGED <<calls, lock, due, steady>>

SendRest ==
    /\ sending # <<>> /\ Room
    /\ rx' = Append(rx, Part(sending[1], TRUE))
    /\ sending' = <<>>
    /\ UNCHANGED <<calls, lock, due, todo, steady>>

\* Another robot's request, whose answer this one will hear.
Stranger ==
    /\ Strangers /\ Len(todo) < TodoBound
    /\ todo' = Append(todo, [to |-> "other", cmd |-> "query"])
    /\ steady' = {}
    /\ UNCHANGED <<calls, lock, due, rx, sending>>

HeartbeatDue ==
    /\ ~due
    /\ due' = TRUE
    /\ UNCHANGED <<calls, lock, line, steady>>

-----------------------------------------------------------------------------
Step(t) == Begin(t) \/ Write(t) \/ Read(t) \/ Timeout(t) \/ SerialError(t)

Elevator == Ignore \/ SendFirst \/ SendRest \/ Stranger

Next ==
    \/ \E t \in Handlers, c \in ServiceCommands : Serve(t, c)
    \/ Heartbeat \/ HeartbeatDue
    \/ \E t \in Threads : Step(t)
    \/ Elevator

Spec == Init /\ [][Next]_vars

-----------------------------------------------------------------------------
(* Properties.                                                             *)

\* An accepted reply answers this very call, or came after it had taken the
\* lock and answers a call that had given up: never what was in the port
\* before, never the call of another thread still waiting for its own.
AcceptedIsOwnOrLate ==
    \A t \in Threads : reply[t] # None => reply[t].to \in {t, "late"}

\* A call that finds the line silent never loses its place in the stream: what
\* it has read always begins with the first part of a frame.
SilentLineStaysInStep ==
    \A t \in steady : resp[t] # <<>> => ~resp[t][1].tail

-----------------------------------------------------------------------------
(* What the protocol says, and the code does not.                          *)

\* "confirmation of the 0x03 command, 1 for success": /lift/call succeeds
\* only if the elevator confirmed the floor.
CallSucceedsIfConfirmed ==
    \A t \in Handlers :
        pc[t] = "idle" /\ cmd[t] = "register" /\ Success("register", reply[t])
            => reply[t].says = "yes"
=============================================================================
