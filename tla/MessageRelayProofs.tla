------------------------- MODULE MessageRelayProofs -------------------------
(***************************************************************************)
(* Theorems about the relay of velocity commands, for every number of      *)
(* messages.  Inv is the inductive invariant: what a callback has secured  *)
(* so far (Outbound), what an inbound message has (Inbound), and what is   *)
(* still going on when Stop gets from one of its lines to the next         *)
(* (Stopping).                                                             *)
(***************************************************************************)
EXTENDS MessageRelay, TLAPS

\* The callback: the fields it has copied, and the fields it has read.
Outbound ==
    /\ cb # "idle" => nRos \in 1..MaxRos
    /\ cb \in {"copy", "read"} => cbTodo # {}
    /\ cb = "copy" => \A f \in Fields \ cbTodo : Fresh(data[f])
    /\ cb \in {"check", "read"} => \A f \in Fields : Fresh(data[f])
    /\ cb = "read" => \A f \in Fields \ cbTodo : Fresh(cbOut[f])
    /\ cb # "idle" => cbSince <= taken + 1
    /\ cb # "idle" /\ sub = "apply" => cbSince <= taken

\* The inbound message: the good fields it has applied, and those it has
\* serialized.
Inbound ==
    /\ sub \in {"apply", "check", "publish", "read"} => taken \in 1..MaxZmq
    /\ sub \in {"apply", "read"} => subTodo # {}
    /\ sub = "apply" =>
          \A f \in Fields \ subTodo : body[f] = "good" => Own(data[f])
    /\ sub \in {"check", "publish", "read"} =>
          \A f \in Fields : body[f] = "good" => Own(data[f])
    /\ subSince <= nRos + 1
    /\ cb = "copy" => subSince <= nRos

Stopping ==
    /\ pub = "shut" => sub # "read"
    /\ main \in {"stopSub", "stopped"} => pub = "shut"
    /\ rosSub = "shut" <=> main = "stopped"
    /\ main = "stopped" => cb = "idle"

Inv == TypeOK /\ Outbound /\ Inbound /\ Stopping /\ OutboundIsFresh
       /\ InboundIsKept

-----------------------------------------------------------------------------
LEMMA TagFacts ==
  /\ \A n \in 1..MaxRos : <<"ros", n>> \in Tags
  /\ \A n \in 1..MaxZmq : <<"zmq", n>> \in Tags
  /\ <<"init", 0>> \in Tags /\ <<"unread", 0>> \in Tags
  /\ Unread \in [Fields -> Tags]
  BY DEF Tags, Unread, Fields

LEMMA FirstIn == ASSUME NEW S \in SUBSET Fields, S # {} PROVE First(S) \in S
  BY DEF First, Fields

LEMMA InvInit == Init => Inv
  <1> SUFFICES ASSUME Init PROVE Inv
    OBVIOUS
  <1>1. data \in [Fields -> Tags] /\ cbOut \in [Fields -> Tags]
        /\ subOut \in [Fields -> Tags]
    BY TagFacts DEF Init
  <1>2. TypeOK
    <2>1. queue \in Seq(Bodies \cup {Foreign}) /\ Len(queue) = 0
      BY DEF Init
    <2>2. toZmq \subseteq 1..MaxRos /\ toRos \subseteq 1..MaxZmq
          /\ cbTodo \subseteq Fields /\ subTodo \subseteq Fields
      BY DEF Init
    <2>3. /\ nRos \in 0..MaxRos /\ nZmq \in 0..MaxZmq /\ taken \in 0..MaxZmq
          /\ Len(queue) + taken <= nZmq /\ cbSince \in Nat /\ subSince \in Nat
      BY <2>1, BoundsAssumption DEF Init
    <2>4. /\ zmq \in {"up", "down"} /\ body \in Bodies \cup {Foreign}
          /\ main = "boot" /\ isRunning \in BOOLEAN /\ pub = "none"
          /\ rosSub = "none" /\ program = "running" /\ cb = "idle"
          /\ spinner = "main" /\ sub = "unborn"
      BY DEF Init
    <2> QED
      BY <1>1, <2>1, <2>2, <2>3, <2>4 DEF TypeOK
  <1>3. Outbound /\ Stopping /\ OutboundIsFresh
    BY DEF Init, Outbound, Stopping, OutboundIsFresh
  <1>4. Inbound /\ InboundIsKept
    BY DEF Init, Inbound, InboundIsKept, Foreign
  <1> QED
    BY <1>2, <1>3, <1>4 DEF Inv

\* Start and Stop.
LEMMA MainInv ==
  ASSUME Inv, MainStep \/ MainStop
  PROVE  Inv'
  <1> USE DEF Inv, TypeOK, Outbound, Inbound, Stopping, OutboundIsFresh,
      InboundIsKept, Fresh, Own, life, cbVars, subVars
  <1>1. CASE MainInit
    BY <1>1 DEF MainInit
  <1>2. CASE MainFlag
    BY <1>2 DEF MainFlag
  <1>3. CASE MainStop
    <2>1. TypeOK'
      BY <1>3 DEF MainStop
    <2>2. Outbound'
      BY <1>3 DEF MainStop
    <2>3. Inbound'
      BY <1>3 DEF MainStop
    <2>4. Stopping'
      BY <1>3 DEF MainStop
    <2>5. OutboundIsFresh'
      BY <1>3 DEF MainStop
    <2>6. InboundIsKept'
      BY <1>3 DEF MainStop
    <2> QED
      BY <2>1, <2>2, <2>3, <2>4, <2>5, <2>6
  <1>4. CASE MainStopPub
    BY <1>4 DEF MainStopPub
  <1>5. CASE MainStopSub
    BY <1>5 DEF MainStopSub
  <1> QED
    BY <1>1, <1>2, <1>3, <1>4, <1>5 DEF MainStep

\* The callback.
LEMMA CallbackInv ==
  ASSUME Inv, CbStep \/ \E thread \in {"main", "server"} : CbBegin(thread)
  PROVE  Inv'
  <1> USE BoundsAssumption, TagFacts
      DEF Inv, TypeOK, Outbound, Inbound, Stopping, OutboundIsFresh,
      InboundIsKept, Fresh, Own, life, subVars
  <1>1. ASSUME NEW thread \in {"main", "server"}, CbBegin(thread) PROVE Inv'
    <2>1. TypeOK'
      BY <1>1 DEF CbBegin
    <2>2. Outbound'
      BY <1>1 DEF CbBegin, Fields
    <2>3. Inbound'
      BY <1>1 DEF CbBegin
    <2>4. Stopping'
      BY <1>1 DEF CbBegin
    <2>5. OutboundIsFresh'
      BY <1>1 DEF CbBegin
    <2>6. InboundIsKept'
      BY <1>1 DEF CbBegin
    <2> QED
      BY <2>1, <2>2, <2>3, <2>4, <2>5, <2>6
  <1>2. ASSUME NEW f \in Fields, CbCopy(f) PROVE Inv'
    BY <1>2 DEF CbCopy
  <1>3. CASE CbCheck
    <2>1. TypeOK'
      BY <1>3 DEF CbCheck
    <2>2. Outbound'
      BY <1>3 DEF CbCheck, Fields
    <2>3. Inbound'
      BY <1>3 DEF CbCheck
    <2>4. Stopping'
      BY <1>3 DEF CbCheck
    <2>5. OutboundIsFresh'
      BY <1>3 DEF CbCheck
    <2>6. InboundIsKept'
      BY <1>3 DEF CbCheck
    <2> QED
      BY <2>1, <2>2, <2>3, <2>4, <2>5, <2>6
  <1>4. CASE CbRead
    <2>1. TypeOK'
      BY <1>4, FirstIn DEF CbRead
    <2>2. Outbound'
      BY <1>4, FirstIn DEF CbRead
    <2>3. Inbound'
      BY <1>4, FirstIn DEF CbRead
    <2>4. Stopping'
      BY <1>4, FirstIn DEF CbRead
    <2>5. OutboundIsFresh'
      BY <1>4, FirstIn DEF CbRead
    <2>6. InboundIsKept'
      BY <1>4, FirstIn DEF CbRead
    <2> QED
      BY <2>1, <2>2, <2>3, <2>4, <2>5, <2>6
  <1>5. CASE CbSend
    BY <1>5 DEF CbSend
  <1> QED
    BY <1>1, <1>2, <1>3, <1>4, <1>5 DEF CbStep

\* The subscription thread, and the client that publishes to it.
LEMMA SubscriptionInv ==
  ASSUME Inv, SubStep \/ \E b \in Bodies \cup {Foreign} : Publish(b)
  PROVE  Inv'
  <1> USE BoundsAssumption, TagFacts
      DEF Inv, TypeOK, Outbound, Inbound, Stopping, OutboundIsFresh,
      InboundIsKept, Fresh, Own, life, cbVars
  <1>1. ASSUME NEW b \in Bodies \cup {Foreign}, Publish(b) PROVE Inv'
    BY <1>1 DEF Publish, subVars
  <1>2. CASE SubConnect
    BY <1>2 DEF SubConnect
  <1>3. CASE SubTop
    BY <1>3 DEF SubTop
  <1>4. CASE SubRecv
    <2>1. TypeOK'
      BY <1>4 DEF SubRecv
    <2>2. Outbound'
      BY <1>4 DEF SubRecv
    <2>3. Inbound'
      BY <1>4 DEF SubRecv
    <2>4. Stopping'
      BY <1>4 DEF SubRecv
    <2>5. OutboundIsFresh'
      BY <1>4 DEF SubRecv
    <2>6. InboundIsKept'
      BY <1>4 DEF SubRecv, Unread
    <2> QED
      BY <2>1, <2>2, <2>3, <2>4, <2>5, <2>6
  <1>5. CASE SubApply
    <2>a. CASE body[First(subTodo)] = "bad"
      BY <1>5, <2>a DEF SubApply
    <2>b. CASE body[First(subTodo)] # "bad"
      <3> DEFINE f == First(subTodo)
      <3>1. /\ f \in subTodo /\ f \in Fields
            /\ data' = [data EXCEPT ![f] = <<"zmq", taken>>]
            /\ subTodo' = subTodo \ {f}
            /\ sub' = IF subTodo' = {} THEN "check" ELSE "apply"
            /\ UNCHANGED <<life, program, cbVars, taken, body, subOut, toRos,
                           subSince, queue, nZmq>>
        BY <1>5, <2>b, FirstIn DEF SubApply
      <3>2. taken \in 1..MaxZmq /\ sub = "apply"
        BY <1>5 DEF SubApply
      <3> HIDE DEF f
      <3>3. cb # "idle" => Fresh(data'[f])
        BY <3>1, <3>2
      <3>4. Own(data'[f])
        BY <3>1, <3>2
      <3>5. \A g \in Fields \ {f} : data'[g] = data[g]
        BY <3>1
      <3>6. TypeOK'
        BY <3>1, <3>2
      <3>7. Outbound'
        <4>1. cb = "copy" => \A g \in Fields \ cbTodo : Fresh(data'[g])
          BY <3>3, <3>5
        <4>2. cb \in {"check", "read"} => \A g \in Fields : Fresh(data'[g])
          BY <3>3, <3>5
        <4> QED
          BY <3>1, <3>2, <4>1, <4>2
      <3>8. Inbound'
        <4>1. \A g \in Fields \ subTodo' : body[g] = "good" => Own(data'[g])
          BY <3>1, <3>2, <3>4, <3>5
        <4> QED
          BY <3>1, <3>2, <4>1
      <3>9. Stopping' /\ OutboundIsFresh' /\ InboundIsKept'
        BY <3>1, <3>2
      <3> QED
        BY <3>6, <3>7, <3>8, <3>9
    <2> QED
      BY <2>a, <2>b
  <1>6. CASE SubCheck
    BY <1>6 DEF SubCheck
  <1>7. CASE SubPublish
    <2>1. TypeOK'
      BY <1>7 DEF SubPublish
    <2>2. Outbound'
      BY <1>7 DEF SubPublish
    <2>3. Inbound'
      BY <1>7 DEF SubPublish, Fields
    <2>4. Stopping'
      BY <1>7 DEF SubPublish
    <2>5. OutboundIsFresh'
      BY <1>7 DEF SubPublish
    <2>6. InboundIsKept'
      BY <1>7 DEF SubPublish
    <2> QED
      BY <2>1, <2>2, <2>3, <2>4, <2>5, <2>6
  <1>8. CASE SubPublishShut
    BY <1>8 DEF SubPublishShut
  <1>9. CASE SubRead
    BY <1>9, FirstIn DEF SubRead
  <1> QED
    BY <1>1, <1>2, <1>3, <1>4, <1>5, <1>6, <1>7, <1>8, <1>9 DEF SubStep

LEMMA InvNext == Inv /\ [Next]_vars => Inv'
  <1> SUFFICES ASSUME Inv, [Next]_vars PROVE Inv'
    OBVIOUS
  <1>1. CASE UNCHANGED vars
    BY <1>1
    DEF vars, life, cbVars, subVars, Inv, TypeOK, Outbound, Inbound, Stopping,
        OutboundIsFresh, InboundIsKept, Fresh, Own
  <1>2. CASE Next
    BY <1>2, MainInv, CallbackInv, SubscriptionInv DEF Next
  <1> QED
    BY <1>1, <1>2

\* Inv always holds.
THEOREM Invariance == Spec => []Inv
  BY InvInit, InvNext, PTL DEF Spec

\* The types, for every number of messages.
THEOREM TypeCorrect == Spec => []TypeOK
  <1>1. Inv => TypeOK
    BY DEF Inv
  <1> QED
    BY <1>1, Invariance, PTL

\* A message to ZMQ is made of its own callback's message and of commands
\* that came meanwhile (CmdVelMessage::RosCallback).
THEOREM OutboundFresh == Spec => []OutboundIsFresh
  <1>1. Inv => OutboundIsFresh
    BY DEF Inv
  <1> QED
    BY <1>1, Invariance, PTL

\* A command goes out to ROS with its own good fields, or with those of a
\* ROS message that came meanwhile (CmdVelMessage::ReceiveFromZMQ).
THEOREM InboundKept == Spec => []InboundIsKept
  <1>1. Inv => InboundIsKept
    BY DEF Inv
  <1> QED
    BY <1>1, Invariance, PTL

\* Nothing goes out once Stop has returned (MessageBase::Stop).
THEOREM StoppedIsQuiet == Spec => QuietAfterStop
  <1>1. Inv /\ [Next]_vars => [main = "stopped" => UNCHANGED <<toZmq, toRos>>]_vars
    <2> SUFFICES ASSUME Inv, Next, main = "stopped"
                 PROVE  UNCHANGED <<toZmq, toRos>>
      OBVIOUS
    <2>1. cb = "idle" /\ sub # "read"
      BY DEF Inv, Stopping
    <2>2. CASE MainStep \/ MainStop
      BY <2>2 DEF MainStep, MainInit, MainFlag, MainStop, MainStopPub,
         MainStopSub, cbVars, subVars
    <2>3. CASE CbStep \/ \E thread \in {"main", "server"} : CbBegin(thread)
      BY <2>1, <2>3 DEF CbStep, CbCopy, CbCheck, CbRead, CbSend, CbBegin,
         subVars
    <2>4. CASE SubStep \/ \E b \in Bodies \cup {Foreign} : Publish(b)
      BY <2>1, <2>4 DEF SubStep, SubConnect, SubTop, SubRecv, SubApply,
         SubCheck, SubPublish, SubPublishShut, SubRead, Publish, cbVars, subVars
    <2> QED
      BY <2>2, <2>3, <2>4 DEF Next
  <1> QED
    BY <1>1, Invariance, PTL DEF Spec, QuietAfterStop

-----------------------------------------------------------------------------
(* What goes on while the relay runs.  Each of its threads is at a line    *)
(* that is so many steps from the end of what it does: its rank.           *)

\* What the flag and the publisher say of the main thread.
RunInv ==
    /\ isRunning <=> main = "run"
    /\ pub = "open" <=> main \in {"flag", "run", "stopPub"}
    /\ sub = "unborn" <=> main = "boot"
    /\ sub \in {"unborn", "connect"} => queue = <<>>

LEMMA RunInvariance == Spec => [](Inv /\ RunInv)
  <1>1. Init => RunInv
    BY DEF Init, RunInv
  <1>2. Inv /\ RunInv /\ [Next]_vars => RunInv'
    <2> SUFFICES ASSUME Inv, RunInv, [Next]_vars PROVE RunInv'
      OBVIOUS
    <2> USE DEF RunInv, Inv, TypeOK, life, cbVars, subVars
    <2>1. CASE MainStep \/ MainStop
      BY <2>1 DEF MainStep, MainInit, MainFlag, MainStop, MainStopPub, MainStopSub
    <2>2. CASE CbStep \/ \E thread \in {"main", "server"} : CbBegin(thread)
      BY <2>2 DEF CbStep, CbCopy, CbCheck, CbRead, CbSend, CbBegin
    <2>3. CASE SubStep
      BY <2>3 DEF SubStep, SubConnect, SubTop, SubRecv, SubApply, SubCheck,
         SubPublish, SubPublishShut, SubRead
    <2>4. CASE \E b \in Bodies \cup {Foreign} : Publish(b)
      BY <2>4 DEF Publish
    <2>5. CASE UNCHANGED vars
      BY <2>5 DEF vars
    <2> QED
      BY <2>1, <2>2, <2>3, <2>4, <2>5 DEF Next
  <1> QED
    BY <1>1, <1>2, InvInit, InvNext, PTL DEF Spec

\* Where a line of each thread can be executed: Stop waits for a publish and
\* for a callback, recv for a message, and whoever goes through the fields has
\* one left; a publish finds a publisher, open or shut.
MainGuard ==
    \/ main \in {"boot", "flag"}
    \/ main = "stopPub" /\ sub # "read"
    \/ main = "stopSub" /\ cb = "idle"

CbGuard == cb # "idle" /\ (cb \in {"copy", "read"} => cbTodo # {})

SubGuard ==
    /\ sub \notin {"unborn", "exited"}
    /\ sub = "recv" => queue # <<>>
    /\ sub \in {"apply", "read"} => subTodo # {}
    /\ sub = "publish" => pub # "none"

\* Where the guard of a thread is true, its step is ENABLED: a step exists.
\* This is true of every state, reachable or not, as each action whose guard
\* it is gives every primed variable its value; only the prover does not know
\* what ENABLED means.
GuardsEnable ==
    TypeOK /\ program = "running" =>
        /\ MainGuard => MainCanStep
        /\ CbGuard => CbCanStep
        /\ SubGuard => SubCanStep

\* No thread of the relay is stuck but where it waits: see NoThreadStuck.
THEOREM ThreadsGoOn == Spec /\ []GuardsEnable => []NoThreadStuck
  <1>1. ASSUME Inv, RunInv
        PROVE  /\ cb # "idle" => CbGuard
               /\ sub \notin {"unborn", "exited"} /\ (sub = "recv" => queue # <<>>)
                     => SubGuard
    <2>1. cb # "idle" => CbGuard
      BY <1>1 DEF Inv, Outbound, CbGuard
    <2>2. sub = "publish" => pub # "none"
      BY <1>1 DEF RunInv, Inv, TypeOK, Stopping
    <2> QED
      BY <1>1, <2>1, <2>2 DEF Inv, Inbound, SubGuard
  <1>2. Inv /\ RunInv /\ GuardsEnable => NoThreadStuck
    BY <1>1 DEF Inv, GuardsEnable, NoThreadStuck, MainGuard
  <1> QED
    BY <1>2, RunInvariance, PTL

LEMMA FieldsLeft ==
  ASSUME NEW S \in SUBSET Fields, NEW f \in S
  PROVE  /\ S = Fields => S \ {f} # {} /\ S \ {f} # Fields
         /\ S # Fields => S \ {f} = {}
  <1>1. PICK g \in Fields : g # f /\ Fields = {f, g}
    BY DEF Fields
  <1>2. ASSUME S = Fields PROVE g \in S \ {f} /\ f \notin S \ {f} /\ f \in Fields
    BY <1>1, <1>2
  <1>3. ASSUME S # Fields PROVE g \notin S
    BY <1>1, <1>3
  <1>4. S # Fields => S \ {f} = {}
    BY <1>1, <1>3
  <1> QED
    BY <1>2, <1>4

\* Steps from here to the next recv.
SubRank ==
    CASE sub = "recv" -> 0
      [] sub = "top" -> 1
      [] sub = "read" -> IF subTodo = Fields THEN 3 ELSE 2
      [] sub = "publish" -> 4
      [] sub = "check" -> 5
      [] sub = "apply" -> IF subTodo = Fields THEN 7 ELSE 6
      [] OTHER -> 8

\* At a line between the acceptance of a command and its publication.
InHand == sub \in {"apply", "check", "publish", "read"}
AllGood == \A f \in Fields : body[f] # "bad"

\* What a step of the subscription thread does while the relay runs.
SubGoesOn ==
    \/ sub = "recv" /\ taken' = taken + 1
    \/ /\ SubRank' < SubRank
       /\ UNCHANGED <<taken, body, queue>>
       /\ InHand /\ AllGood => InHand' \/ taken \in toRos'

\* What the steps of the others leave of it.
SubStays ==
    /\ UNCHANGED <<sub, taken, body, subTodo>>
    /\ queue # <<>> => queue' # <<>>

LEMMA SubMoves ==
  ASSUME Inv, RunInv, [Next]_vars, ~ Halted
  PROVE  /\ SubStep => SubGoesOn \/ Halted'
         /\ SubGoesOn \/ SubStays \/ Halted'
  <1> USE DEF Inv, TypeOK, Halted, life, cbVars, subVars
  <1>1. SubStep => SubGoesOn \/ Halted'
    <2>1. CASE SubConnect
      BY <2>1 DEF SubConnect, SubGoesOn, SubRank, InHand
    <2>2. CASE SubTop
      BY <2>2 DEF SubTop, SubGoesOn, SubRank, InHand
    <2>3. CASE SubRecv
      BY <2>3 DEF SubRecv, SubGoesOn
    <2>4. CASE SubApply
      <3>1. sub = "apply" /\ First(subTodo) \in subTodo
        BY <2>4, FirstIn DEF SubApply, Inbound
      <3>2. CASE body[First(subTodo)] = "bad"
        BY <2>4, <3>1, <3>2 DEF SubApply, SubGoesOn, SubRank, AllGood
      <3>3. CASE body[First(subTodo)] # "bad"
        <4>1. /\ subTodo' = subTodo \ {First(subTodo)}
              /\ sub' = IF subTodo' = {} THEN "check" ELSE "apply"
              /\ UNCHANGED <<taken, body, queue>>
          BY <2>4, <3>3 DEF SubApply
        <4>2. SubRank' < SubRank
          BY <3>1, <4>1, FieldsLeft DEF SubRank
        <4> QED
          BY <4>1, <4>2 DEF SubGoesOn, InHand
      <3> QED
        BY <3>2, <3>3
    <2>5. CASE SubCheck
      BY <2>5 DEF SubCheck, SubGoesOn, SubRank, InHand
    <2>6. CASE SubPublish
      BY <2>6 DEF SubPublish, SubGoesOn, SubRank, InHand
    <2>7. CASE SubPublishShut
      BY <2>7 DEF SubPublishShut, RunInv
    <2>8. CASE SubRead
      <3>1. /\ sub = "read" /\ First(subTodo) \in subTodo
            /\ subTodo' = subTodo \ {First(subTodo)}
            /\ sub' = IF subTodo' = {} THEN "top" ELSE "read"
            /\ toRos' = IF subTodo' = {} THEN toRos \cup {taken} ELSE toRos
            /\ UNCHANGED <<taken, body, queue>>
        BY <2>8, FirstIn DEF SubRead, Inbound
      <3>2. SubRank' < SubRank
        BY <3>1, FieldsLeft DEF SubRank
      <3> QED
        BY <3>1, <3>2 DEF SubGoesOn, InHand
    <2> QED
      BY <2>1, <2>2, <2>3, <2>4, <2>5, <2>6, <2>7, <2>8 DEF SubStep
  <1>2. CASE MainStep \/ MainStop
    BY <1>1, <1>2 DEF MainStep, MainInit, MainFlag, MainStop, MainStopPub, MainStopSub,
       SubStays, RunInv
  <1>3. CASE CbStep \/ \E thread \in {"main", "server"} : CbBegin(thread)
    BY <1>1, <1>3 DEF CbStep, CbCopy, CbCheck, CbRead, CbSend, CbBegin, SubStays
  <1>4. ASSUME NEW b \in Bodies \cup {Foreign}, Publish(b)
        PROVE  SubStays
    <2>1. Append(queue, b) # <<>>
      <3>1. Len(Append(queue, b)) = Len(queue) + 1 /\ Len(queue) \in Nat
        BY DEF Bodies
      <3> QED
        BY <3>1
    <2> QED
      BY <1>4, <2>1 DEF Publish, SubStays
  <1>5. CASE UNCHANGED vars
    BY <1>1, <1>5 DEF vars, SubStays
  <1> QED
    BY <1>1, <1>2, <1>3, <1>4, <1>5 DEF Next

LEMMA SubRankIn == SubRank \in 0..8
  BY DEF SubRank

\* A message waits while its predecessor is so many steps from done.
NextAt(k, n) == taken = k /\ queue # <<>> /\ ~ Halted /\ SubRank = n
NextBelow(k, n) == taken = k /\ queue # <<>> /\ ~ Halted /\ SubRank < n
NextFalls(k, n) == [](NextAt(k, n) => <>(NextBelow(k, n) \/ taken > k \/ Halted))

LEMMA NextSteps ==
  ASSUME NEW k \in 0..(MaxZmq - 1), NEW n \in 0..8
  PROVE  FairSpec /\ []NoThreadStuck => NextFalls(k, n)
  <1> DEFINE I == Inv /\ RunInv
             Less == NextBelow(k, n) \/ taken > k \/ Halted
             Step == program = "running" /\ SubStep
  <1>1. I /\ NextAt(k, n) /\ [Next]_vars => NextAt(k, n)' \/ Less'
    <2> SUFFICES ASSUME Inv, RunInv, NextAt(k, n), [Next]_vars, ~ Halted'
                 PROVE  NextAt(k, n)' \/ NextBelow(k, n)' \/ taken' > k
      OBVIOUS
    <2>1. SubGoesOn \/ SubStays
      BY SubMoves DEF NextAt
    <2>2. k \in Nat
      OBVIOUS
    <2> QED
      BY <2>1, <2>2 DEF SubGoesOn, SubStays, SubRank, NextAt, NextBelow
  <1>2. I /\ NextAt(k, n) /\ <<Step>>_vars => Less'
    <2> SUFFICES ASSUME Inv, RunInv, NextAt(k, n), Step, ~ Halted'
                 PROVE  NextBelow(k, n)' \/ taken' > k
      OBVIOUS
    <2>1. SubGoesOn
      BY SubMoves DEF NextAt, Next
    <2>2. k \in Nat
      OBVIOUS
    <2> QED
      BY <2>1, <2>2 DEF SubGoesOn, NextAt, NextBelow
  <1>3. I /\ NextAt(k, n) => (NoThreadStuck => SubCanStep)
    BY DEF I, NextAt, NoThreadStuck, Halted, RunInv
  <1> HIDE DEF I
  <1>4. Spec => []I
    BY RunInvariance DEF I
  <1> QED
    BY <1>1, <1>2, <1>3, <1>4, PTL DEF FairSpec, Spec, SubCanStep, NextFalls

LEMMA NextTaken ==
  ASSUME NEW k \in 0..(MaxZmq - 1)
  PROVE  FairSpec /\ []NoThreadStuck => NextIsTaken(k)
  <1>1. FairSpec /\ []NoThreadStuck
          => /\ NextFalls(k, 0) /\ NextFalls(k, 1) /\ NextFalls(k, 2)
             /\ NextFalls(k, 3) /\ NextFalls(k, 4) /\ NextFalls(k, 5)
             /\ NextFalls(k, 6) /\ NextFalls(k, 7) /\ NextFalls(k, 8)
    BY NextSteps
  <1>2. taken = k /\ queue # <<>> => NextAt(k, 8) \/ NextBelow(k, 8) \/ Halted
    BY SubRankIn DEF NextAt, NextBelow
  <1>3. /\ ~ NextBelow(k, 0)
        /\ NextBelow(k, 1) => NextAt(k, 0)
        /\ NextBelow(k, 2) => NextAt(k, 1) \/ NextBelow(k, 1)
        /\ NextBelow(k, 3) => NextAt(k, 2) \/ NextBelow(k, 2)
        /\ NextBelow(k, 4) => NextAt(k, 3) \/ NextBelow(k, 3)
        /\ NextBelow(k, 5) => NextAt(k, 4) \/ NextBelow(k, 4)
        /\ NextBelow(k, 6) => NextAt(k, 5) \/ NextBelow(k, 5)
        /\ NextBelow(k, 7) => NextAt(k, 6) \/ NextBelow(k, 6)
        /\ NextBelow(k, 8) => NextAt(k, 7) \/ NextBelow(k, 7)
    BY SubRankIn DEF NextAt, NextBelow
  <1> QED
    BY <1>1, <1>2, <1>3, PTL DEF NextFalls, NextIsTaken

\* An accepted command on its way to ROS.
HandOf(k) == taken = k /\ InHand /\ AllGood /\ ~ Halted
HandAt(k, n) == HandOf(k) /\ SubRank = n
HandBelow(k, n) == HandOf(k) /\ SubRank < n
HandFalls(k, n) == [](HandAt(k, n) => <>(HandBelow(k, n) \/ k \in toRos \/ Halted))

LEMMA HandSteps ==
  ASSUME NEW k \in 1..MaxZmq, NEW n \in 2..7
  PROVE  FairSpec /\ []NoThreadStuck => HandFalls(k, n)
  <1> DEFINE I == Inv /\ RunInv
             Less == HandBelow(k, n) \/ k \in toRos \/ Halted
             Step == program = "running" /\ SubStep
  <1>1. I /\ HandAt(k, n) /\ [Next]_vars => HandAt(k, n)' \/ Less'
    <2> SUFFICES ASSUME Inv, RunInv, HandAt(k, n), [Next]_vars, ~ Halted'
                 PROVE  HandAt(k, n)' \/ HandBelow(k, n)' \/ k \in toRos'
      OBVIOUS
    <2>1. SubGoesOn \/ SubStays
      BY SubMoves DEF HandAt, HandOf
    <2> QED
      BY <2>1 DEF SubGoesOn, SubStays, SubRank, HandAt, HandBelow, HandOf, InHand, AllGood
  <1>2. I /\ HandAt(k, n) /\ <<Step>>_vars => Less'
    <2> SUFFICES ASSUME Inv, RunInv, HandAt(k, n), Step, ~ Halted'
                 PROVE  HandBelow(k, n)' \/ k \in toRos'
      OBVIOUS
    <2>1. SubGoesOn
      BY SubMoves DEF HandAt, HandOf, Next
    <2> QED
      BY <2>1 DEF SubGoesOn, HandAt, HandBelow, HandOf, InHand, AllGood
  <1>3. HandAt(k, n) => (NoThreadStuck => SubCanStep)
    BY DEF HandAt, HandOf, InHand, NoThreadStuck, Halted
  <1> HIDE DEF I
  <1>4. Spec => []I
    BY RunInvariance DEF I
  <1> QED
    BY <1>1, <1>2, <1>3, <1>4, PTL DEF FairSpec, Spec, SubCanStep, HandFalls

LEMMA CommandGoes ==
  ASSUME NEW k \in 1..MaxZmq
  PROVE  FairSpec /\ []NoThreadStuck => CommandGoesOut(k)
  <1>1. FairSpec /\ []NoThreadStuck
          => /\ HandFalls(k, 2) /\ HandFalls(k, 3) /\ HandFalls(k, 4)
             /\ HandFalls(k, 5) /\ HandFalls(k, 6) /\ HandFalls(k, 7)
    BY HandSteps
  <1>2. taken = k /\ sub = "apply" /\ (\A f \in Fields : body[f] # "bad")
          => HandAt(k, 7) \/ HandBelow(k, 7) \/ Halted
    BY DEF HandAt, HandBelow, HandOf, SubRank, InHand, AllGood
  <1>3. /\ ~ HandBelow(k, 2)
        /\ HandBelow(k, 3) => HandAt(k, 2)
        /\ HandBelow(k, 4) => HandAt(k, 3) \/ HandBelow(k, 3)
        /\ HandBelow(k, 5) => HandAt(k, 4) \/ HandBelow(k, 4)
        /\ HandBelow(k, 6) => HandAt(k, 5) \/ HandBelow(k, 5)
        /\ HandBelow(k, 7) => HandAt(k, 6) \/ HandBelow(k, 6)
    BY DEF HandAt, HandBelow, HandOf, SubRank, InHand
  <1> QED
    BY <1>1, <1>2, <1>3, PTL DEF HandFalls, CommandGoesOut

\* The callback: the same with its own lines.
CbRank ==
    CASE cb = "send" -> 1
      [] cb = "read" -> IF cbTodo = Fields THEN 3 ELSE 2
      [] cb = "check" -> 4
      [] cb = "copy" -> IF cbTodo = Fields THEN 6 ELSE 5
      [] OTHER -> 0

Cut == ~ isRunning \/ program # "running" \/ zmq = "down"
CbOf(r) == nRos = r /\ cb # "idle" /\ ~ Cut
CbAt(r, n) == CbOf(r) /\ CbRank = n
CbBelow(r, n) == CbOf(r) /\ CbRank < n
CbFalls(r, n) == [](CbAt(r, n) => <>(CbBelow(r, n) \/ r \in toZmq \/ Cut))

LEMMA CbMoves ==
  ASSUME NEW r \in 1..MaxRos, Inv, CbOf(r), ~ Cut', [Next]_vars
  PROVE  /\ CbStep => (CbOf(r)' /\ CbRank' < CbRank) \/ r \in toZmq'
         /\ \/ CbOf(r)' /\ CbRank' < CbRank
            \/ UNCHANGED <<nRos, cb, cbTodo>>
            \/ r \in toZmq'
  <1> USE DEF Inv, TypeOK, CbOf, Cut, life, cbVars, subVars
  <1>1. CbStep => (CbOf(r)' /\ CbRank' < CbRank) \/ r \in toZmq'
    <2>1. ASSUME NEW f \in Fields, CbCopy(f)
          PROVE  CbOf(r)' /\ CbRank' < CbRank
      <3>1. /\ cb = "copy" /\ f \in cbTodo /\ cbTodo' = cbTodo \ {f}
            /\ cb' = IF cbTodo' = {} THEN "check" ELSE "copy"
            /\ nRos' = nRos
        BY <2>1 DEF CbCopy
      <3> QED
        BY <3>1, FieldsLeft DEF CbRank
    <2>2. CASE CbCheck
      BY <2>2 DEF CbCheck, CbRank
    <2>3. CASE CbRead
      <3>1. /\ cb = "read" /\ First(cbTodo) \in cbTodo
            /\ cbTodo' = cbTodo \ {First(cbTodo)}
            /\ cb' = IF cbTodo' = {} THEN "send" ELSE "read"
            /\ nRos' = nRos
        BY <2>3, FirstIn DEF CbRead, Outbound
      <3> QED
        BY <3>1, FieldsLeft DEF CbRank
    <2>4. CASE CbSend
      BY <2>4 DEF CbSend
    <2> QED
      BY <2>1, <2>2, <2>3, <2>4 DEF CbStep
  <1>2. CASE MainStep \/ MainStop
    BY <1>1, <1>2 DEF MainStep, MainInit, MainFlag, MainStop, MainStopPub, MainStopSub
  <1>3. CASE SubStep
    BY <1>1, <1>3 DEF SubStep, SubConnect, SubTop, SubRecv, SubApply, SubCheck,
       SubPublish, SubPublishShut, SubRead
  <1>4. CASE \E b \in Bodies \cup {Foreign} : Publish(b)
    BY <1>1, <1>4 DEF Publish
  <1>5. CASE UNCHANGED vars
    BY <1>1, <1>5 DEF vars
  <1>6. ~ \E thread \in {"main", "server"} : CbBegin(thread)
    BY DEF CbBegin
  <1> QED
    BY <1>1, <1>2, <1>3, <1>4, <1>5, <1>6 DEF Next

LEMMA CbSteps ==
  ASSUME NEW r \in 1..MaxRos, NEW n \in 1..6
  PROVE  FairSpec /\ []NoThreadStuck => CbFalls(r, n)
  <1> DEFINE Less == CbBelow(r, n) \/ r \in toZmq \/ Cut
             Step == program = "running" /\ CbStep
  <1>1. Inv /\ CbAt(r, n) /\ [Next]_vars => CbAt(r, n)' \/ Less'
    BY CbMoves DEF CbAt, CbBelow, CbOf, CbRank, Cut
  <1>2. Inv /\ CbAt(r, n) /\ <<Step>>_vars => Less'
    BY CbMoves DEF CbAt, CbBelow, Next
  <1>3. CbAt(r, n) => (NoThreadStuck => CbCanStep)
    BY DEF CbAt, CbOf, Cut, NoThreadStuck
  <1> QED
    BY <1>1, <1>2, <1>3, Invariance, PTL DEF FairSpec, Spec, CbCanStep, CbFalls

LEMMA MessageGoes ==
  ASSUME NEW r \in 1..MaxRos
  PROVE  FairSpec /\ []NoThreadStuck => MessageGoesOut(r)
  <1>1. FairSpec /\ []NoThreadStuck
          => /\ CbFalls(r, 1) /\ CbFalls(r, 2) /\ CbFalls(r, 3)
             /\ CbFalls(r, 4) /\ CbFalls(r, 5) /\ CbFalls(r, 6)
    BY CbSteps
  <1>2. Inv /\ nRos = r /\ cb # "idle" => CbAt(r, 6) \/ CbBelow(r, 6) \/ Cut
    BY DEF Inv, TypeOK, CbAt, CbBelow, CbOf, CbRank
  <1>3. Inv => /\ ~ CbBelow(r, 1)
               /\ CbBelow(r, 2) => CbAt(r, 1)
               /\ CbBelow(r, 3) => CbAt(r, 2) \/ CbBelow(r, 2)
               /\ CbBelow(r, 4) => CbAt(r, 3) \/ CbBelow(r, 3)
               /\ CbBelow(r, 5) => CbAt(r, 4) \/ CbBelow(r, 4)
               /\ CbBelow(r, 6) => CbAt(r, 5) \/ CbBelow(r, 5)
    BY DEF Inv, TypeOK, CbAt, CbBelow, CbOf, CbRank
  <1> QED
    BY <1>1, <1>2, <1>3, Invariance, PTL
       DEF FairSpec, CbFalls, MessageGoesOut, Cut

\* No message ends the subscription: see SubEndsOnlyStopped.
THEOREM SubscriptionLasts == Spec => SubEndsOnlyStopped
  <1>1. Inv /\ [Next]_vars
          => [sub # "exited" /\ sub' = "exited" => ~ isRunning \/ zmq = "down"]_vars
    <2> SUFFICES ASSUME Inv, Next, sub # "exited", sub' = "exited"
                 PROVE  ~ isRunning \/ zmq = "down"
      OBVIOUS
    <2>1. CASE SubStep
      BY <2>1 DEF SubStep, SubConnect, SubTop, SubRecv, SubApply, SubCheck,
         SubPublish, SubPublishShut, SubRead, Inv, TypeOK
    <2>2. CASE ~ SubStep
      BY <2>2 DEF Next, MainStep, MainInit, MainFlag, MainStop, MainStopPub,
         MainStopSub, CbStep, CbCopy, CbCheck, CbRead, CbSend, CbBegin, Publish,
         subVars
    <2> QED
      BY <2>1, <2>2
  <1> QED
    BY <1>1, Invariance, PTL DEF Spec, SubEndsOnlyStopped

\* While the relay runs, messages get through in both directions: see
\* CommandsGoOut, under the fairness of FairSpec.
THEOREM MessagesGetThrough == FairSpec /\ []GuardsEnable => CommandsGoOut
  <1>1. \A k \in 0..(MaxZmq - 1) : FairSpec /\ []NoThreadStuck => NextIsTaken(k)
    BY NextTaken
  <1>2. \A k \in 1..MaxZmq : FairSpec /\ []NoThreadStuck => CommandGoesOut(k)
    BY CommandGoes
  <1>3. \A r \in 1..MaxRos : FairSpec /\ []NoThreadStuck => MessageGoesOut(r)
    BY MessageGoes
  <1>4. FairSpec => SubEndsOnlyStopped
    BY SubscriptionLasts, PTL DEF FairSpec
  <1>5. FairSpec /\ []GuardsEnable => []NoThreadStuck
    BY ThreadsGoOn, PTL DEF FairSpec
  <1> QED
    BY <1>1, <1>2, <1>3, <1>4, <1>5 DEF CommandsGoOut

=============================================================================
