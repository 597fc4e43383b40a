-------------------------- MODULE ElevatorLinkProofs --------------------------
(***************************************************************************)
(* Theorems about the serial line to the elevator, for every number of     *)
(* threads and whatever the line does.  Inv is the inductive invariant:    *)
(* who holds the lock, and to whom the frames on their way are addressed - *)
(* the holder of the lock, a call that is over, or another robot.  Steady  *)
(* adds what is on a line that was silent when the request went out.       *)
(***************************************************************************)
EXTENDS ElevatorLink, SequenceTheorems, TLAPS

\* What is on its way while the threads of l exchange.
PartsFor(l) == [to : {"late", "other"} \cup l, cmd : Commands, tail : BOOLEAN]
RequestsFor(l) == [to : {"late", "other"} \cup l, cmd : Commands]

OwnOrLate(t) == [to : {t, "late"}, says : Contents]

LockInv ==
    /\ pc \in [Threads -> {"idle", "lock", "write", "read"}]
    /\ lock \in {{}} \cup {{t} : t \in Threads}
    /\ \A t \in Threads : pc[t] \in {"write", "read"} <=> lock = {t}

CallsInv ==
    /\ cmd \in [Threads -> Commands]
    /\ resp \in [Threads -> Seq(PartsFor(lock))]
    /\ \A t \in Threads : resp[t] # <<>> => pc[t] = "read"
    /\ reply \in [Threads -> Replies \cup {None}]
    /\ \A t \in Threads : reply[t] \in OwnOrLate(t) \cup {None}

LineInv ==
    /\ rx \in Seq(PartsFor(lock))
    /\ todo \in Seq(RequestsFor(lock))
    /\ sending \in Seq(RequestsFor(lock))

\* The one frame on a line that was silent: requested, under way, sent.
SteadyInv ==
    /\ steady \subseteq Threads
    /\ \A t \in steady :
         /\ pc[t] = "read"
         /\ Len(todo) <= 1
         /\ todo # <<>> => sending = <<>> /\ rx = <<>> /\ resp[t] = <<>>
         /\ sending # <<>> =>
              \/ resp[t] = <<>> /\ Len(rx) = 1 /\ ~rx[1].tail
              \/ Len(resp[t]) = 1 /\ rx = <<>> /\ ~resp[t][1].tail
         /\ todo = <<>> /\ sending = <<>> =>
              \/ resp[t] = <<>> /\ rx = <<>>
              \/ resp[t] = <<>> /\ Len(rx) = 2 /\ ~rx[1].tail /\ rx[2].tail
              \/ /\ Len(resp[t]) = 1 /\ ~resp[t][1].tail
                 /\ Len(rx) = 1 /\ rx[1].tail

Inv == LockInv /\ CallsInv /\ LineInv /\ SteadyInv /\ due \in BOOLEAN

-----------------------------------------------------------------------------
(* What is on its way.                                                     *)

\* The end of a call leaves its frames to nobody.
LEMMA ReaddressParts ==
  ASSUME NEW t \in Threads, NEW items \in Seq(PartsFor({t}))
  PROVE  Readdress(items, {t}, "late") \in Seq(PartsFor({}))
  <1> DEFINE e(i) == IF items[i].to \in {t}
                        THEN [items[i] EXCEPT !.to = "late"] ELSE items[i]
  <1>1. Len(items) \in Nat /\ DOMAIN items = 1..Len(items)
    BY LenProperties
  <1>2. \A i \in 1..Len(items) : e(i) \in PartsFor({})
    <2> TAKE i \in 1..Len(items)
    <2>1. items[i] \in PartsFor({t})
      BY ElementOfSeq
    <2> QED
      BY <2>1 DEF PartsFor
  <1>3. [i \in 1..Len(items) |-> e(i)] \in Seq(PartsFor({}))
    <2> HIDE DEF e
    <2> QED
      BY <1>1, <1>2, IsASeq
  <1> QED
    BY <1>1, <1>3 DEF Readdress

LEMMA ReaddressRequests ==
  ASSUME NEW t \in Threads, NEW items \in Seq(RequestsFor({t}))
  PROVE  Readdress(items, {t}, "late") \in Seq(RequestsFor({}))
  <1> DEFINE e(i) == IF items[i].to \in {t}
                        THEN [items[i] EXCEPT !.to = "late"] ELSE items[i]
  <1>1. Len(items) \in Nat /\ DOMAIN items = 1..Len(items)
    BY LenProperties
  <1>2. \A i \in 1..Len(items) : e(i) \in RequestsFor({})
    <2> TAKE i \in 1..Len(items)
    <2>1. items[i] \in RequestsFor({t})
      BY ElementOfSeq
    <2> QED
      BY <2>1 DEF RequestsFor
  <1>3. [i \in 1..Len(items) |-> e(i)] \in Seq(RequestsFor({}))
    <2> HIDE DEF e
    <2> QED
      BY <1>1, <1>2, IsASeq
  <1> QED
    BY <1>1, <1>3 DEF Readdress

\* What is addressed to nobody may be on the line of any call.
LEMMA Wider ==
  ASSUME NEW l
  PROVE  /\ \A s \in Seq(PartsFor({})) : s \in Seq(PartsFor(l))
         /\ \A s \in Seq(RequestsFor({})) : s \in Seq(RequestsFor(l))
  <1>1. PartsFor({}) \subseteq PartsFor(l) /\ RequestsFor({}) \subseteq RequestsFor(l)
    BY DEF PartsFor, RequestsFor
  <1> QED
    BY <1>1, SeqMonotonic

LEMMA LineTypes ==
  ASSUME LockInv
  PROVE  /\ \A s \in Seq(PartsFor(lock)) : s \in Seq(Parts)
         /\ \A s \in Seq(RequestsFor(lock)) : s \in Seq(Requests)
  <1>1. lock \subseteq Threads
    BY DEF LockInv
  <1>2. /\ PartsFor(lock) \subseteq Parts
        /\ RequestsFor(lock) \subseteq Requests
    BY <1>1 DEF PartsFor, RequestsFor, Parts, Requests, Addressees
  <1> QED
    BY <1>2, SeqMonotonic

-----------------------------------------------------------------------------
LEMMA InvInit == Init => Inv
  <1> SUFFICES ASSUME Init PROVE Inv
    OBVIOUS
  <1>1. LockInv
    BY DEF Init, LockInv
  <1>2. /\ <<>> \in Seq(PartsFor(lock)) /\ <<>> \in Seq(RequestsFor(lock))
    BY EmptySeq
  <1>3. CallsInv
    BY <1>2 DEF Init, CallsInv, Commands
  <1>4. LineInv /\ due \in BOOLEAN
    BY <1>2 DEF Init, LineInv
  <1>5. SteadyInv
    BY DEF Init, SteadyInv
  <1> QED
    BY <1>1, <1>3, <1>4, <1>5 DEF Inv

\* A thread asks for the lock.
LEMMA AskInv ==
  ASSUME Inv, Heartbeat \/ \E t \in Handlers, c \in ServiceCommands : Serve(t, c)
  PROVE  Inv'
  <1>1. PICK t \in Threads, c \in Commands :
           /\ pc[t] = "idle" /\ pc' = [pc EXCEPT ![t] = "lock"]
           /\ cmd' = cmd \/ cmd' = [cmd EXCEPT ![t] = c]
           /\ reply' = [reply EXCEPT ![t] = None]
           /\ UNCHANGED <<resp, lock, due, line, steady>>
    BY DEF Heartbeat, Serve, Threads, Commands
  <1>2. LockInv'
    BY <1>1 DEF Inv, LockInv
  <1>3. CallsInv'
    <2>1. cmd' \in [Threads -> Commands]
      BY <1>1 DEF Inv, CallsInv
    <2>2. /\ resp' \in [Threads -> Seq(PartsFor(lock'))]
          /\ \A u \in Threads : resp'[u] # <<>> => pc'[u] = "read"
      BY <1>1 DEF Inv, LockInv, CallsInv
    <2>3. /\ reply' \in [Threads -> Replies \cup {None}]
          /\ \A u \in Threads : reply'[u] \in OwnOrLate(u) \cup {None}
      <3> HIDE DEF None
      <3> QED
        BY <1>1 DEF Inv, CallsInv
    <2> QED
      BY <2>1, <2>2, <2>3 DEF CallsInv
  <1>4. LineInv'
    BY <1>1 DEF Inv, LineInv, line
  <1>5. SteadyInv'
    BY <1>1 DEF Inv, LockInv, SteadyInv, line
  <1> QED
    BY <1>1, <1>2, <1>3, <1>4, <1>5 DEF Inv

LEMMA BeginInv == ASSUME Inv, NEW t \in Threads, Begin(t) PROVE Inv'
  <1> USE DEF Begin
  <1>1. LockInv'
    BY DEF Inv, LockInv
  <1>2. steady = {}
    BY DEF Inv, LockInv, SteadyInv
  <1>3. \A s \in Seq(PartsFor(lock)) : s \in Seq(PartsFor(lock'))
    BY Wider
  <1>4. CallsInv'
    BY <1>3 DEF Inv, LockInv, CallsInv
  <1>5. LineInv'
    <2>1. todo \in Seq(RequestsFor(lock')) /\ sending \in Seq(RequestsFor(lock'))
      BY Wider DEF Inv, LineInv
    <2>2. <<>> \in Seq(PartsFor(lock'))
      BY EmptySeq
    <2> QED
      BY <2>1, <2>2 DEF LineInv
  <1>6. SteadyInv'
    BY <1>2 DEF SteadyInv
  <1> QED
    BY <1>1, <1>4, <1>5, <1>6 DEF Inv

LEMMA WriteInv == ASSUME Inv, NEW t \in Threads, Write(t) PROVE Inv'
  <1> USE DEF Write
  <1>1. LockInv' /\ lock = {t} /\ resp[t] = <<>>
    BY DEF Inv, LockInv, CallsInv
  <1>2. CallsInv'
    BY DEF Inv, LockInv, CallsInv
  <1>3. todo \in Seq(RequestsFor(lock)) /\ Len(todo) \in Nat
    BY DEF Inv, LineInv
  <1>4. [to |-> t, cmd |-> cmd[t]] \in RequestsFor(lock)
    BY <1>1 DEF RequestsFor, Inv, CallsInv
  <1>5. todo' \in Seq(RequestsFor(lock))
    BY <1>3, <1>4
  <1>6. LineInv'
    BY <1>5 DEF Inv, LineInv
  <1>7. steady = {}
    BY <1>1 DEF Inv, LockInv, SteadyInv
  <1>8. CASE Silent
    <2>1. Len(todo') = 1 /\ todo' # <<>>
      BY <1>3, <1>4, <1>8 DEF Silent, TodoBound
    <2>2. steady' = {t} /\ pc'[t] = "read"
      BY <1>7, <1>8 DEF Inv, LockInv
    <2> QED
      BY <1>1, <1>2, <1>6, <1>8, <2>1, <2>2 DEF Inv, SteadyInv, Silent
  <1>9. CASE ~Silent
    BY <1>1, <1>2, <1>6, <1>7, <1>9 DEF Inv, SteadyInv
  <1> QED
    BY <1>8, <1>9

\* A call returns, with nothing or with a reply of its own or a late one.
LEMMA ReturnInv ==
  ASSUME Inv, NEW t \in Threads, pc[t] \in {"write", "read"},
         NEW r \in OwnOrLate(t) \cup {None}, Return(t, r),
         rx' \in Seq(PartsFor({}))
  PROVE  Inv'
  <1> USE DEF Return
  <1>1. lock = {t} /\ lock' = {}
    BY DEF Inv, LockInv
  <1>2. LockInv'
    BY <1>1 DEF Inv, LockInv
  <1>3. r \in Replies \cup {None}
    BY DEF OwnOrLate, Replies
  <1>4. \A u \in Threads : resp'[u] = <<>>
    BY <1>1 DEF Inv, LockInv, CallsInv
  <1>5. resp' \in [Threads -> Seq(PartsFor({}))]
    <2>1. <<>> \in Seq(PartsFor({}))
      BY EmptySeq
    <2>2. DOMAIN resp' = Threads /\ resp' = [u \in Threads |-> resp'[u]]
      BY DEF Inv, CallsInv
    <2> QED
      BY <1>4, <2>1, <2>2
  <1>6. CallsInv'
    BY <1>1, <1>3, <1>4, <1>5 DEF Inv, CallsInv
  <1>7. LineInv'
    BY <1>1, ReaddressRequests DEF Inv, LineInv
  <1>8. steady' = {}
    BY <1>1 DEF Inv, LockInv, SteadyInv
  <1>9. SteadyInv' /\ due' \in BOOLEAN
    BY <1>8 DEF SteadyInv, Inv
  <1> QED
    BY <1>2, <1>6, <1>7, <1>9 DEF Inv

LEMMA GiveUpInv ==
  ASSUME Inv, NEW t \in Threads, Timeout(t) \/ SerialError(t)
  PROVE  Inv'
  <1>1. /\ pc[t] \in {"write", "read"} /\ Return(t, None)
        /\ rx' = Readdress(rx, {t}, "late")
    BY DEF Timeout, SerialError
  <1>2. rx \in Seq(PartsFor({t}))
    BY <1>1 DEF Inv, LockInv, LineInv
  <1>3. rx' \in Seq(PartsFor({}))
    BY <1>1, <1>2, ReaddressParts
  <1> QED
    BY <1>1, <1>3, ReturnInv

\* What the thread has read, with what has come since.
LEMMA Stream ==
  ASSUME Inv, NEW t \in Threads, pc[t] = "read"
  PROVE  /\ lock = {t}
         /\ resp[t] \in Seq(PartsFor({t})) /\ rx \in Seq(PartsFor({t}))
         /\ resp[t] \o rx \in Seq(PartsFor({t}))
         /\ Len(resp[t]) \in Nat /\ Len(rx) \in Nat
         /\ Len(resp[t] \o rx) = Len(resp[t]) + Len(rx)
         /\ \A i \in 1..(Len(resp[t]) + Len(rx)) :
               (resp[t] \o rx)[i] = IF i <= Len(resp[t]) THEN resp[t][i]
                                    ELSE rx[i - Len(resp[t])]
  <1>1. lock = {t}
    BY DEF Inv, LockInv
  <1>2. resp[t] \in Seq(PartsFor({t})) /\ rx \in Seq(PartsFor({t}))
    BY <1>1 DEF Inv, CallsInv, LineInv
  <1> QED
    BY <1>1, <1>2, ConcatProperties, LenProperties

\* The thread goes on reading, with the parts it keeps.
LEMMA KeepInv ==
  ASSUME Inv, NEW t \in Threads, pc[t] = "read", rx # <<>>, rx' = <<>>,
         NEW parts, Keep(t, parts),
         \/ parts = <<>> /\ Len(resp[t] \o rx) >= 2
         \/ /\ parts = resp[t] \o rx
            /\ ~Complete(parts)
  PROVE  Inv'
  <1> USE DEF Keep
  <1>1. lock = {t} /\ lock' = lock
    BY Stream
  <1>2. LockInv'
    BY DEF Inv, LockInv
  <1>3. parts \in Seq(PartsFor(lock)) /\ <<>> \in Seq(PartsFor(lock))
    <2>1. <<>> \in Seq(PartsFor(lock)) /\ resp[t] \o rx \in Seq(PartsFor(lock))
      BY <1>1, Stream, EmptySeq
    <2> QED
      BY <2>1
  <1>4. CallsInv'
    BY <1>3 DEF Inv, CallsInv
  <1>5. LineInv'
    BY <1>3 DEF Inv, LineInv
  <1>6. SteadyInv'
    <2> SUFFICES ASSUME t \in steady PROVE SteadyInv'
      BY <1>1 DEF Inv, LockInv, SteadyInv
    <2>1. steady = {t}
      BY <1>1 DEF Inv, LockInv, SteadyInv
    <2>2. todo = <<>>
      BY DEF Inv, SteadyInv
    <2>3. resp'[t] = parts
      BY DEF Inv, CallsInv
    <2>4. CASE sending # <<>>
      <3>1. resp[t] = <<>> /\ Len(rx) = 1 /\ ~rx[1].tail
        BY <2>4, Stream, EmptySeq DEF Inv, SteadyInv
      <3>2. Len(resp[t]) = 0
        BY <3>1
      <3>3. Len(resp[t] \o rx) = 1 /\ (resp[t] \o rx)[1] = rx[1]
        BY <3>1, <3>2, Stream
      <3>4. parts = resp[t] \o rx
        BY <3>3
      <3>5. Len(parts) = 1 /\ ~parts[1].tail
        BY <3>1, <3>3, <3>4
      <3> QED
        BY <1>2, <2>1, <2>2, <2>3, <2>4, <3>5 DEF SteadyInv, LockInv, Inv
    <2>5. CASE sending = <<>>
      <3>1. parts = <<>>
        <4> SUFFICES ASSUME parts = resp[t] \o rx, ~Complete(parts) PROVE FALSE
          OBVIOUS
        <4>1. CASE resp[t] = <<>> /\ Len(rx) = 2 /\ ~rx[1].tail /\ rx[2].tail
          <5>1. Len(resp[t]) = 0
            BY <4>1
          <5>2. Len(parts) = 2 /\ parts[1] = rx[1] /\ parts[2] = rx[2]
            BY <4>1, <5>1, Stream
          <5> QED
            BY <4>1, <5>2 DEF Complete
        <4>2. CASE /\ Len(resp[t]) = 1 /\ ~resp[t][1].tail
                   /\ Len(rx) = 1 /\ rx[1].tail
          <5>1. Len(parts) = 2 /\ parts[1] = resp[t][1] /\ parts[2] = rx[1]
            BY <4>2, Stream
          <5> QED
            BY <4>2, <5>1 DEF Complete
        <4> QED
          BY <2>2, <2>5, <4>1, <4>2 DEF Inv, SteadyInv
      <3> QED
        BY <1>2, <2>1, <2>2, <2>3, <2>5, <3>1 DEF SteadyInv, LockInv, Inv
    <2> QED
      BY <2>4, <2>5
  <1> QED
    BY <1>2, <1>4, <1>5, <1>6 DEF Inv

LEMMA ReadInv == ASSUME Inv, NEW t \in Threads, Read(t) PROVE Inv'
  <1> DEFINE parts == resp[t] \o rx
  <1>1. pc[t] = "read" /\ rx # <<>> /\ rx' = <<>>
    BY DEF Read
  <1>2. PICK etx, intact \in BOOLEAN, says \in Data(cmd[t]) :
           \/ /\ Complete(parts) /\ intact /\ Expected(t, parts[1])
              /\ Return(t, [to |-> parts[1].to, says |-> says])
           \/ Complete(parts) /\ Keep(t, <<>>)
           \/ Overlong(parts, etx) /\ Keep(t, <<>>)
           \/ ~Complete(parts) /\ Keep(t, parts)
    BY DEF Read
  <1>3. parts \in Seq(PartsFor({t}))
    BY <1>1, Stream
  <1>4. CASE Complete(parts) /\ Expected(t, parts[1])
             /\ Return(t, [to |-> parts[1].to, says |-> says])
    <2>1. parts[1] \in PartsFor({t})
      BY <1>3, <1>4 DEF Complete
    <2>2. [to |-> parts[1].to, says |-> says] \in OwnOrLate(t)
      <3>1. says \in Contents
        BY <1>2 DEF Data, Contents
      <3>2. parts[1].to \in {t, "late"}
        BY <1>4, <2>1 DEF PartsFor, Expected
      <3> QED
        BY <3>1, <3>2 DEF OwnOrLate
    <2>3. <<>> \in Seq(PartsFor({}))
      BY EmptySeq
    <2> QED
      BY <1>1, <1>4, <2>2, <2>3, ReturnInv
  <1>5. CASE (Complete(parts) \/ Overlong(parts, etx)) /\ Keep(t, <<>>)
    <2>1. Len(parts) >= 2
      BY <1>3, <1>5 DEF Complete, Overlong
    <2> QED
      BY <1>1, <1>5, <2>1, KeepInv
  <1>6. CASE ~Complete(parts) /\ Keep(t, parts)
    BY <1>1, <1>6, KeepInv
  <1> QED
    BY <1>2, <1>4, <1>5, <1>6

-----------------------------------------------------------------------------
(* The other end.                                                          *)

LEMMA OtherEndInv ==
  ASSUME Inv, Elevator \/ HeartbeatDue
  PROVE  Inv'
  <1>1. LockInv' /\ CallsInv'
    BY DEF Elevator, HeartbeatDue, Ignore, SendFirst, SendRest, Stranger, Inv,
           LockInv, CallsInv, calls
  <1>2. /\ rx \in Seq(PartsFor(lock)) /\ todo \in Seq(RequestsFor(lock))
        /\ sending \in Seq(RequestsFor(lock))
    BY DEF Inv, LineInv
  <1>3. \A q \in RequestsFor(lock), b \in BOOLEAN : Part(q, b) \in PartsFor(lock)
    BY DEF Part, RequestsFor, PartsFor
  <1>4. CASE HeartbeatDue
    BY <1>1, <1>4 DEF HeartbeatDue, Inv, LineInv, SteadyInv, calls, line
  <1>5. CASE Ignore
    <2>1. todo' \in Seq(RequestsFor(lock)) /\ Len(todo') = Len(todo) - 1
      BY <1>2, <1>5, HeadTailProperties DEF Ignore
    <2>2. LineInv'
      BY <1>5, <2>1 DEF Ignore, Inv, LineInv
    <2>3. SteadyInv'
      BY <1>5, <2>1, EmptySeq DEF Ignore, Inv, SteadyInv, calls
    <2> QED
      BY <1>1, <1>5, <2>2, <2>3 DEF Ignore, Inv
  <1>6. CASE SendFirst
    <2>1. /\ Head(todo) \in RequestsFor(lock)
          /\ Tail(todo) \in Seq(RequestsFor(lock))
          /\ Len(Tail(todo)) = Len(todo) - 1
      BY <1>2, <1>6, HeadTailProperties DEF SendFirst
    <2>2. <<Head(todo)>> \in Seq(RequestsFor(lock))
      BY <2>1
    <2>3. Part(Head(todo), FALSE) \in PartsFor(lock)
      BY <1>3, <2>1
    <2>4. LineInv'
      <3>1. Append(rx, Part(Head(todo), FALSE)) \in Seq(PartsFor(lock))
        BY <1>2, <2>3, AppendProperties
      <3> QED
        BY <1>6, <2>1, <2>2, <3>1 DEF SendFirst, LineInv
    <2>5. SteadyInv'
      <3> SUFFICES ASSUME NEW t \in steady PROVE SteadyInv'
        BY <1>6 DEF SendFirst, Inv, SteadyInv
      <3>1. /\ pc[t] = "read" /\ resp[t] = <<>> /\ rx = <<>>
            /\ Len(todo) <= 1 /\ todo # <<>>
        BY <1>6 DEF SendFirst, Inv, SteadyInv
      <3>4. todo' = <<>> /\ Len(todo') = 0 /\ sending' # <<>>
        <4>1. todo' = Tail(todo) /\ sending' = <<Head(todo)>>
          BY <1>6 DEF SendFirst
        <4>2. Len(todo) \in Nat
          BY <1>2
        <4>3. Len(todo') = 0
          BY <3>1, <4>1, <4>2, <2>1, LenProperties
        <4> QED
          BY <2>1, <4>1, <4>3, EmptySeq
      <3>2. Len(rx') = 1 /\ ~rx'[1].tail
        BY <1>6, <3>1 DEF SendFirst, Part
      <3>3. steady = {t}
        BY <3>1 DEF Inv, LockInv, SteadyInv
      <3> QED
        <4>1. pc' = pc /\ resp' = resp /\ steady' = {t}
          BY <1>6, <3>3 DEF SendFirst, calls
        <4>2. t \in Threads
          BY DEF Inv, SteadyInv
        <4> QED
          BY <3>1, <3>2, <3>4, <4>1, <4>2 DEF SteadyInv
    <2> QED
      BY <1>1, <1>6, <2>4, <2>5 DEF SendFirst, Inv
  <1>7. CASE SendRest
    <2>1. sending[1] \in RequestsFor(lock)
      BY <1>2, <1>7, EmptySeq, LenProperties, ElementOfSeq DEF SendRest
    <2>2. Part(sending[1], TRUE) \in PartsFor(lock)
      BY <1>3, <2>1
    <2>3. LineInv'
      <3>1. Append(rx, Part(sending[1], TRUE)) \in Seq(PartsFor(lock))
        BY <1>2, <2>2, AppendProperties
      <3>2. <<>> \in Seq(RequestsFor(lock))
        BY EmptySeq
      <3> QED
        BY <1>2, <1>7, <3>1, <3>2 DEF SendRest, LineInv
    <2>4. SteadyInv'
      <3> SUFFICES ASSUME NEW t \in steady PROVE SteadyInv'
        BY <1>7 DEF SendRest, Inv, SteadyInv
      <3>1. /\ pc[t] = "read" /\ todo = <<>> /\ sending' = <<>>
            /\ \/ resp[t] = <<>> /\ Len(rx) = 1 /\ ~rx[1].tail
               \/ Len(resp[t]) = 1 /\ rx = <<>> /\ ~resp[t][1].tail
        BY <1>7 DEF SendRest, Inv, SteadyInv
      <3>2. /\ Len(rx') = Len(rx) + 1 /\ rx'[Len(rx) + 1].tail
            /\ \A i \in 1..Len(rx) : rx'[i] = rx[i]
        BY <1>2, <1>7 DEF SendRest, Part
      <3>3. steady = {t}
        BY <3>1 DEF Inv, LockInv, SteadyInv
      <3>4. CASE resp[t] = <<>> /\ Len(rx) = 1 /\ ~rx[1].tail
        <4>1. Len(rx') = 2 /\ ~rx'[1].tail /\ rx'[2].tail
          BY <3>2, <3>4
        <4> QED
          BY <1>7, <3>1, <3>3, <3>4, <4>1 DEF SendRest, SteadyInv, Inv, calls
      <3>5. CASE Len(resp[t]) = 1 /\ rx = <<>> /\ ~resp[t][1].tail
        <4>1. Len(rx') = 1 /\ rx'[1].tail
          BY <3>2, <3>5
        <4> QED
          BY <1>7, <3>1, <3>3, <3>5, <4>1 DEF SendRest, SteadyInv, Inv, calls
      <3> QED
        BY <3>1, <3>4, <3>5
    <2> QED
      BY <1>1, <1>7, <2>3, <2>4 DEF SendRest, Inv
  <1>8. CASE Stranger
    <2>1. [to |-> "other", cmd |-> "query"] \in RequestsFor(lock)
      BY DEF RequestsFor, Commands, ServiceCommands
    <2>2. todo' \in Seq(RequestsFor(lock))
      BY <1>2, <1>8, <2>1 DEF Stranger
    <2> QED
      BY <1>1, <1>2, <1>8, <2>2 DEF Stranger, Inv, LineInv, SteadyInv
  <1> QED
    BY <1>4, <1>5, <1>6, <1>7, <1>8 DEF Elevator

LEMMA InvNext == Inv /\ [Next]_vars => Inv'
  <1> SUFFICES ASSUME Inv, [Next]_vars PROVE Inv'
    OBVIOUS
  <1>1. CASE Heartbeat \/ \E t \in Handlers, c \in ServiceCommands : Serve(t, c)
    BY <1>1, AskInv
  <1>2. CASE \E t \in Threads : Step(t)
    BY <1>2, BeginInv, WriteInv, ReadInv, GiveUpInv DEF Step
  <1>3. CASE Elevator \/ HeartbeatDue
    BY <1>3, OtherEndInv
  <1>4. CASE UNCHANGED vars
    BY <1>4 DEF vars, calls, line, Inv, LockInv, CallsInv, LineInv, SteadyInv
  <1> QED
    BY <1>1, <1>2, <1>3, <1>4 DEF Next

-----------------------------------------------------------------------------
\* The inductive invariant holds.
THEOREM ElevatorLinkInvariant == Spec => []Inv
  BY InvInit, InvNext, PTL DEF Spec

\* Type correctness, for any number of threads; the lock has one holder at most.
THEOREM ElevatorLinkTypes == Spec => []TypeOK
  <1>1. Inv => TypeOK
    <2> SUFFICES ASSUME Inv PROVE TypeOK
      OBVIOUS
    <2>1. /\ rx \in Seq(Parts) /\ todo \in Seq(Requests)
          /\ sending \in Seq(Requests)
          /\ \A t \in Threads : resp[t] \in Seq(Parts)
      BY LineTypes DEF Inv, LineInv, CallsInv
    <2>2. resp \in [Threads -> Seq(Parts)]
      BY <2>1 DEF Inv, CallsInv
    <2> QED
      BY <2>1, <2>2 DEF Inv, LockInv, CallsInv, SteadyInv, TypeOK
  <1> QED
    BY <1>1, ElevatorLinkInvariant, PTL

\* One exchange at a time: a thread writes or reads only while it holds the
\* lock, and no two do (elevator_control.py:96-153).
THEOREM OneExchange ==
  Spec => [](\A t, u \in Threads :
                pc[t] \in {"write", "read"} /\ pc[u] \in {"write", "read"} => t = u)
  <1>1. Inv => \A t, u \in Threads :
                  pc[t] \in {"write", "read"} /\ pc[u] \in {"write", "read"} => t = u
    BY DEF Inv, LockInv
  <1> QED
    BY <1>1, ElevatorLinkInvariant, PTL

\* No call accepts a frame that was in the port before it, or that answers
\* another thread that still waits: for any number of threads.
THEOREM RepliesAreOwnOrLate == Spec => []AcceptedIsOwnOrLate
  <1>1. Inv => AcceptedIsOwnOrLate
    BY DEF Inv, CallsInv, OwnOrLate, AcceptedIsOwnOrLate
  <1> QED
    BY <1>1, ElevatorLinkInvariant, PTL

\* On a line that was silent when the request went out, what has been read
\* always begins with the first part of a frame.
THEOREM SilentLineInStep == Spec => []SilentLineStaysInStep
  <1>1. Inv => SilentLineStaysInStep
    <2> SUFFICES ASSUME Inv, NEW t \in steady, resp[t] # <<>>
                 PROVE  ~resp[t][1].tail
      BY DEF SilentLineStaysInStep
    <2> QED
      BY DEF Inv, SteadyInv
  <1> QED
    BY <1>1, ElevatorLinkInvariant, PTL
-----------------------------------------------------------------------------
(* What a silent line is worth: RepliesAreOwnOrLate without the late ones.  *)

OwnParts(t) == [to : {t}, cmd : Commands, tail : BOOLEAN]
OwnRequests(t) == [to : {t}, cmd : Commands]

\* The line of a call that found it silent bears the frames of that call only.
OwnLine ==
    \A t \in steady :
        /\ todo \in Seq(OwnRequests(t)) /\ sending \in Seq(OwnRequests(t))
        /\ rx \in Seq(OwnParts(t)) /\ resp[t] \in Seq(OwnParts(t))

\* One call at most is on the line.
LEMMA OneSteady ==
  ASSUME Inv, NEW t \in steady
  PROVE  t \in Threads /\ lock = {t} /\ pc[t] = "read" /\ steady = {t}
  BY DEF Inv, LockInv, SteadyInv

LEMMA OwnWrite ==
  ASSUME Inv, NEW t \in Threads, Write(t)
  PROVE  OwnLine'
  <1> SUFFICES ASSUME NEW u \in steady'
               PROVE  /\ todo' \in Seq(OwnRequests(u)) /\ sending' \in Seq(OwnRequests(u))
                      /\ rx' \in Seq(OwnParts(u)) /\ resp'[u] \in Seq(OwnParts(u))
    BY DEF OwnLine
  <1>1. pc[t] = "write" /\ lock = {t} /\ resp[t] = <<>> /\ cmd[t] \in Commands
    BY DEF Write, Inv, LockInv, CallsInv
  <1>2. steady = {}
    BY <1>1, OneSteady
  <1>3. Silent /\ u = t
    BY <1>2 DEF Write
  <1>4. todo' = Append(<<>>, [to |-> t, cmd |-> cmd[t]])
    BY <1>3 DEF Write, Silent, TodoBound
  <1>5. [to |-> t, cmd |-> cmd[t]] \in OwnRequests(t)
    BY <1>1 DEF OwnRequests
  <1> QED
    <2>1. sending' = <<>> /\ rx' = <<>> /\ resp'[u] = <<>>
      BY <1>1, <1>3 DEF Write, Silent
    <2>2. todo' \in Seq(OwnRequests(u))
      BY <1>3, <1>4, <1>5, EmptySeq, AppendProperties
    <2> QED
      BY <2>1, <2>2, EmptySeq

\* A call returns, or reads on.
LEMMA OwnRead ==
  ASSUME Inv, OwnLine, NEW t \in Threads, Read(t)
  PROVE  /\ OwnLine'
         /\ t \in steady => reply'[t] \in {reply[t], None} \/ reply'[t].to = t
  <1> DEFINE parts == resp[t] \o rx
  <1>1. pc[t] = "read" /\ rx' = <<>> /\ reply \in [Threads -> Replies \cup {None}]
    BY DEF Read, Inv, CallsInv
  <1>2. PICK etx, intact \in BOOLEAN, says \in Data(cmd[t]) :
           \/ /\ Complete(parts) /\ intact /\ Expected(t, parts[1])
              /\ Return(t, [to |-> parts[1].to, says |-> says])
           \/ Keep(t, <<>>)
           \/ Keep(t, parts)
    BY DEF Read
  <1>3. steady \subseteq {t}
    <2>1. lock = {t}
      BY <1>1 DEF Inv, LockInv
    <2> QED
      BY <2>1, OneSteady
  <1>4. t \in steady => parts \in Seq(OwnParts(t))
    BY ConcatProperties DEF OwnLine
  <1>5. CASE /\ Complete(parts)
             /\ Return(t, [to |-> parts[1].to, says |-> says])
    <2>1. steady' = {}
      BY <1>3, <1>5 DEF Return
    <2>2. t \in steady => parts[1] \in OwnParts(t)
      BY <1>4, <1>5 DEF Complete
    <2>3. reply'[t] = [to |-> parts[1].to, says |-> says]
      BY <1>1, <1>5 DEF Return
    <2>4. t \in steady => parts[1].to = t
      BY <2>2 DEF OwnParts
    <2>5. OwnLine'
      BY <2>1 DEF OwnLine
    <2>6. reply'[t].to = parts[1].to
      <3> DEFINE first == parts[1].to
      <3>1. reply'[t] = [to |-> first, says |-> says]
        BY <2>3
      <3> HIDE DEF first
      <3>2. reply'[t].to = first
        BY <3>1
      <3> QED
        BY <3>2 DEF first
    <2> QED
      BY <2>4, <2>5, <2>6
  <1>6. CASE Keep(t, <<>>) \/ Keep(t, parts)
    <2>1. /\ UNCHANGED <<todo, sending, steady, reply>>
          /\ resp' = [resp EXCEPT ![t] = <<>>] \/ resp' = [resp EXCEPT ![t] = parts]
      BY <1>6 DEF Keep
    <2>2. t \in steady => resp'[t] \in Seq(OwnParts(t))
      BY <1>4, <2>1, EmptySeq DEF Inv, CallsInv
    <2>3. OwnLine'
      BY <1>1, <1>3, <2>1, <2>2, EmptySeq DEF OwnLine
    <2> QED
      BY <2>1, <2>3
  <1> QED
    BY <1>2, <1>5, <1>6

LEMMA OwnNext ==
  ASSUME Inv, OwnLine, [Next]_vars
  PROVE  /\ OwnLine'
         /\ \A t \in steady : reply'[t] \in {reply[t], None} \/ reply'[t].to = t
  <1> DEFINE Own(t) == reply'[t] \in {reply[t], None} \/ reply'[t].to = t
  <1> SUFFICES OwnLine' /\ \A t \in steady : Own(t)
    OBVIOUS
  <1>a. /\ reply \in [Threads -> Replies \cup {None}]
        /\ resp \in [Threads -> Seq(PartsFor(lock))] /\ steady \subseteq Threads
    BY DEF Inv, CallsInv, SteadyInv
  <1>1. CASE Heartbeat \/ \E t \in Handlers, c \in ServiceCommands : Serve(t, c)
    BY <1>1, <1>a DEF Heartbeat, Serve, OwnLine, line, Threads
  <1>2. ASSUME NEW t \in Threads, Begin(t) PROVE OwnLine' /\ \A u \in steady : Own(u)
    <2>1. steady = {}
      BY <1>2, OneSteady DEF Begin
    <2> QED
      BY <1>2, <2>1 DEF Begin, OwnLine
  <1>3. ASSUME NEW t \in Threads, Write(t) PROVE OwnLine' /\ \A u \in steady : Own(u)
    BY <1>3, OwnWrite DEF Write
  <1>4. ASSUME NEW t \in Threads, Read(t) PROVE OwnLine' /\ \A u \in steady : Own(u)
    <2>1. \A u \in steady : u = t
      BY <1>4, OneSteady DEF Read, Inv, LockInv
    <2> QED
      BY <1>4, <2>1, OwnRead
  <1>5. ASSUME NEW t \in Threads, Timeout(t) \/ SerialError(t)
        PROVE  OwnLine' /\ \A u \in steady : Own(u)
    <2>1. Return(t, None) /\ lock = {t}
      BY <1>5 DEF Timeout, SerialError, Inv, LockInv
    <2>2. steady' = {}
      BY <2>1, OneSteady DEF Return
    <2> QED
      BY <1>a, <2>1, <2>2 DEF Return, OwnLine
  <1>6. CASE Elevator
    <2>1. UNCHANGED <<calls, lock, due>> /\ steady' \subseteq steady
      BY <1>6 DEF Elevator, Ignore, SendFirst, SendRest, Stranger
    <2>2. \A t \in steady : Own(t)
      BY <2>1 DEF calls
    <2>3. CASE Stranger
      BY <2>2, <2>3 DEF Stranger, OwnLine
    <2>4. CASE Ignore \/ SendFirst \/ SendRest
      <3> SUFFICES ASSUME NEW t \in steady
                   PROVE  /\ todo' \in Seq(OwnRequests(t))
                          /\ sending' \in Seq(OwnRequests(t))
                          /\ rx' \in Seq(OwnParts(t))
        BY <2>1, <2>2 DEF OwnLine, calls
      <3>1. /\ todo \in Seq(OwnRequests(t)) /\ sending \in Seq(OwnRequests(t))
            /\ rx \in Seq(OwnParts(t))
        BY DEF OwnLine
      <3>2. \A q \in OwnRequests(t), b \in BOOLEAN : Part(q, b) \in OwnParts(t)
        BY DEF OwnRequests, OwnParts, Part
      <3>3. CASE Ignore
        BY <3>1, <3>3 DEF Ignore
      <3>4. CASE SendFirst
        <4>1. Head(todo) \in OwnRequests(t) /\ Tail(todo) \in Seq(OwnRequests(t))
          BY <3>1, <3>4 DEF SendFirst
        <4>2. Part(Head(todo), FALSE) \in OwnParts(t)
          BY <3>2, <4>1
        <4>3. rx' \in Seq(OwnParts(t))
          BY <3>1, <3>4, <4>2, AppendProperties DEF SendFirst
        <4>4. <<Head(todo)>> \in Seq(OwnRequests(t))
          BY <4>1
        <4> QED
          BY <3>4, <4>1, <4>3, <4>4 DEF SendFirst
      <3>5. CASE SendRest
        <4>1. sending[1] \in OwnRequests(t)
          BY <3>1, <3>5 DEF SendRest
        <4>2. Part(sending[1], TRUE) \in OwnParts(t)
          BY <3>2, <4>1
        <4> QED
          BY <3>1, <3>5, <4>2, EmptySeq, AppendProperties DEF SendRest
      <3> QED
        BY <2>4, <3>3, <3>4, <3>5
    <2> QED
      BY <1>6, <2>3, <2>4 DEF Elevator
  <1>7. CASE HeartbeatDue \/ UNCHANGED vars
    BY <1>7 DEF HeartbeatDue, vars, calls, line, OwnLine
  <1> QED
    BY <1>1, <1>2, <1>3, <1>4, <1>5, <1>6, <1>7 DEF Next, Step

\* A call whose request went out on a silent line, and that heard no other
\* robot's, accepts only the answer to its own request: the late ones of
\* AcceptedIsOwnOrLate take a call before it that gave up with its frames still
\* under way.
THEOREM SilentLineAnswersOwn ==
  Spec => [][\A t \in steady : reply'[t] \in {reply[t], None}
                                  \/ reply'[t].to = t]_vars
  <1>1. Init => OwnLine
    BY DEF Init, OwnLine
  <1>2. Inv /\ OwnLine /\ [Next]_vars => OwnLine'
    BY OwnNext
  <1>3. Inv /\ OwnLine /\ [Next]_vars
          => [\A t \in steady : reply'[t] \in {reply[t], None}
                                   \/ reply'[t].to = t]_vars
    BY OwnNext
  <1> QED
    BY <1>1, <1>2, <1>3, ElevatorLinkInvariant, PTL DEF Spec
=============================================================================
