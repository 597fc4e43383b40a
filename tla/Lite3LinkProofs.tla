--------------------------- MODULE Lite3LinkProofs ---------------------------
(***************************************************************************)
(* Theorems about the link to a Lite3 robot, for every number of handlers  *)
(* and of motions.  The posture is right as long as the parity of the      *)
(* toggles on their way says whether the robot still has to change it      *)
(* (PostureInv), the mode as long as the last mode on its way is the one   *)
(* that was answered (ModeInv).                                            *)
(***************************************************************************)
EXTENDS Lite3Link, FiniteSetTheorems, SequenceTheorems, TLAPS

\* Unless two handlers raced, one at most is connecting, the receive thread
\* does not exist before it is through, and then there is a link.
LinkInv ==
    \/ raced
    \/ /\ program = "running"
       /\ \A g, h \in Handlers : pc[g] \in Connecting /\ pc[h] \in Connecting => g = h
       /\ \A h \in Handlers :
            /\ pc[h] \in {"connected", "running", "receive", "heart"} => sockfd = "open"
            /\ pc[h] \in {"running", "receive", "heart"} => connected
            /\ pc[h] \in {"socket", "connected", "running", "receive"} => receiver = "none"
       /\ receiver = "running" => isConnected

Toggles == {i \in 1..Len(net) : net[i] = "standSit"}

PostureInv ==
    "posture" \notin astray =>
        (posture = wanted.posture <=> Cardinality(Toggles) % 2 = 0)

\* The last mode on its way is the one that was answered.
ModeInv ==
    "mode" \notin astray =>
        /\ (\A i \in 1..Len(net) : net[i] = "standSit") => mode = wanted.mode
        /\ \A i \in 1..Len(net) :
              net[i] # "standSit" /\ (\A j \in (i + 1)..Len(net) : net[j] = "standSit")
                  => net[i] = wanted.mode

Inv == TypeOK /\ LinkInv /\ PostureInv /\ ModeInv

-----------------------------------------------------------------------------
(* The datagrams on their way.                                             *)

LEMMA RemoveFacts ==
  ASSUME NEW S, NEW s \in Seq(S), NEW i \in 1..Len(s)
  PROVE  /\ RemoveAt(s, i) \in Seq(S)
         /\ Len(RemoveAt(s, i)) = Len(s) - 1
         /\ \A j \in 1..(Len(s) - 1) :
               RemoveAt(s, i)[j] = IF j < i THEN s[j] ELSE s[j + 1]
  <1> DEFINE a == SubSeq(s, 1, i - 1)
             b == SubSeq(s, i + 1, Len(s))
  <1>1. Len(s) \in Nat /\ i \in Int /\ i - 1 \in Int /\ i + 1 \in Int
    BY LenProperties
  <1>2. \A j \in 1..Len(s) : s[j] \in S
    BY ElementOfSeq
  <1>3. /\ a \in Seq(S) /\ Len(a) = i - 1
        /\ \A j \in 1..(i - 1) : a[j] = s[j]
    <2>1. \A j \in 1..(i - 1) : s[j] \in S
      BY <1>1, <1>2
    <2>2. /\ a \in Seq(S) /\ Len(a) = IF 1 <= i - 1 THEN i - 1 - 1 + 1 ELSE 0
          /\ \A j \in 1..(i - 1 - 1 + 1) : a[j] = s[1 + j - 1]
      BY <1>1, <2>1, SubSeqProperties
    <2> QED
      BY <1>1, <2>2
  <1>4. /\ b \in Seq(S) /\ Len(b) = Len(s) - i
        /\ \A j \in 1..(Len(s) - i) : b[j] = s[i + j]
    <2>1. \A j \in (i + 1)..Len(s) : s[j] \in S
      BY <1>1, <1>2
    <2>2. /\ b \in Seq(S)
          /\ Len(b) = IF i + 1 <= Len(s) THEN Len(s) - (i + 1) + 1 ELSE 0
          /\ \A j \in 1..(Len(s) - (i + 1) + 1) : b[j] = s[(i + 1) + j - 1]
      BY <1>1, <2>1, SubSeqProperties
    <2> QED
      BY <1>1, <2>2
  <1>5. /\ a \o b \in Seq(S) /\ Len(a \o b) = Len(a) + Len(b)
        /\ \A j \in 1..(Len(a) + Len(b)) :
              (a \o b)[j] = IF j <= Len(a) THEN a[j] ELSE b[j - Len(a)]
    BY <1>3, <1>4, ConcatProperties
  <1>6. RemoveAt(s, i) = a \o b
    BY DEF RemoveAt
  <1> HIDE DEF a, b
  <1>7. \A j \in 1..(Len(s) - 1) : (a \o b)[j] = IF j < i THEN s[j] ELSE s[j + 1]
    <2> SUFFICES ASSUME NEW j \in 1..(Len(s) - 1)
                 PROVE  (a \o b)[j] = IF j < i THEN s[j] ELSE s[j + 1]
      OBVIOUS
    <2>1. CASE j < i
      BY <1>1, <1>3, <1>4, <1>5, <2>1
    <2>2. CASE ~ j < i
      <3>1. (a \o b)[j] = b[j - (i - 1)]
        BY <1>1, <1>3, <1>4, <1>5, <2>2
      <3>2. b[j - (i - 1)] = s[i + (j - (i - 1))] /\ i + (j - (i - 1)) = j + 1
        BY <1>1, <1>4, <2>2
      <3> QED
        BY <3>1, <3>2, <2>2
    <2> QED
      BY <2>1, <2>2
  <1>8. Len(a \o b) = Len(s) - 1
    BY <1>1, <1>3, <1>4, <1>5
  <1> QED
    BY <1>5, <1>6, <1>7, <1>8

LEMMA TogglesFinite ==
  ASSUME net \in Seq(Datagrams)
  PROVE  IsFiniteSet(Toggles) /\ Cardinality(Toggles) \in Nat
  <1>1. Len(net) \in Nat
    BY LenProperties
  <1>2. IsFiniteSet(1..Len(net))
    BY <1>1, FS_Interval
  <1>3. Toggles \in SUBSET (1..Len(net))
    BY DEF Toggles
  <1>4. IsFiniteSet(Toggles)
    BY <1>2, <1>3, FS_Subset
  <1> QED
    BY <1>4, FS_CardinalityType

LEMMA TogglesAppend ==
  ASSUME net \in Seq(Datagrams), NEW d \in Datagrams, net' = Append(net, d)
  PROVE  Cardinality(Toggles') =
            IF d = "standSit" THEN Cardinality(Toggles) + 1 ELSE Cardinality(Toggles)
  <1>1. /\ Len(net) \in Nat /\ Len(net') = Len(net) + 1
        /\ \A i \in 1..Len(net) : net'[i] = net[i]
        /\ net'[Len(net) + 1] = d
    BY LenProperties, AppendProperties
  <1>2. CASE d = "standSit"
    <2>1. Toggles' = Toggles \cup {Len(net) + 1} /\ Len(net) + 1 \notin Toggles
      BY <1>1, <1>2 DEF Toggles
    <2> QED
      BY <1>2, <2>1, TogglesFinite, FS_AddElement
  <1>3. CASE d # "standSit"
    <2>1. Toggles' = Toggles
      BY <1>1, <1>3 DEF Toggles
    <2> QED
      BY <1>3, <2>1
  <1> QED
    BY <1>2, <1>3

LEMMA TogglesRemove ==
  ASSUME net \in Seq(Datagrams), NEW i \in 1..Len(net), net' = RemoveAt(net, i)
  PROVE  Cardinality(Toggles') =
            IF net[i] = "standSit" THEN Cardinality(Toggles) - 1
                                   ELSE Cardinality(Toggles)
  <1>1. /\ Len(net) \in Nat /\ Len(net') = Len(net) - 1
        /\ net' \in Seq(Datagrams)
        /\ \A j \in 1..(Len(net) - 1) : net'[j] = IF j < i THEN net[j] ELSE net[j + 1]
    BY LenProperties, RemoveFacts
  <1> DEFINE f == [j \in Toggles' |-> IF j < i THEN j ELSE j + 1]
             T == Toggles \ {i}
  <1>2. f \in [Toggles' -> T]
    BY <1>1 DEF Toggles
  <1>3. IsInjective(f)
    BY <1>1 DEF Toggles, IsInjective
  <1>4. \A k \in T : \E j \in Toggles' : f[j] = k
    <2> SUFFICES ASSUME NEW k \in T PROVE \E j \in Toggles' : f[j] = k
      OBVIOUS
    <2>1. k \in 1..Len(net) /\ k # i /\ net[k] = "standSit"
      BY DEF Toggles
    <2>2. CASE k < i
      <3>1. k \in Toggles'
        BY <1>1, <2>1, <2>2 DEF Toggles
      <3> QED
        BY <2>2, <3>1
    <2>3. CASE k > i
      <3>1. k - 1 \in Toggles' /\ ~(k - 1 < i) /\ (k - 1) + 1 = k
        BY <1>1, <2>1, <2>3 DEF Toggles
      <3> QED
        BY <3>1
    <2> QED
      BY <2>1, <2>2, <2>3
  <1>5. f \in Bijection(Toggles', T)
    BY <1>2, <1>3, <1>4 DEF Bijection, Injection, Surjection
  <1>6. IsFiniteSet(T)
        /\ Cardinality(T) = IF i \in Toggles THEN Cardinality(Toggles) - 1
                                             ELSE Cardinality(Toggles)
    BY TogglesFinite, FS_RemoveElement
  <1>7. i \in Toggles <=> net[i] = "standSit"
    BY DEF Toggles
  <1>8. Cardinality(T) = Cardinality(Toggles')
    <2>1. IsFiniteSet(Toggles')
      <3>1. IsFiniteSet(1..Len(net'))
        BY <1>1, FS_Interval
      <3> QED
        BY <3>1, FS_Subset DEF Toggles
    <2>2. ExistsBijection(Toggles', T)
      BY <1>5 DEF ExistsBijection
    <2> HIDE DEF f, T
    <2> QED
      BY <2>1, <2>2, FS_Bijection
  <1> QED
    BY <1>6, <1>7, <1>8

-----------------------------------------------------------------------------
LEMMA InvInit == Init => Inv
  <1> SUFFICES ASSUME Init PROVE Inv
    OBVIOUS
  <1>1. net \in Seq(Datagrams) /\ Len(net) = 0
    BY EmptySeq DEF Init
  <1>2. wanted \in [posture : Postures, mode : Modes]
    BY DEF Init
  <1>3. TypeOK
    <2>1. asked \in 0..MaxCommands
      BY MaxCommandsAssumption DEF Init
    <2>2. /\ pc \in [Handlers -> {"idle", "check", "connect", "send"} \cup Connecting]
          /\ motion \in [Handlers -> Motions]
      BY DEF Init, Motions
    <2>3. beats \in 0..1 /\ astray \subseteq {"posture", "mode"}
      BY DEF Init
    <2>4. /\ sockfd \in {"-1", "open"} /\ receiver \in {"none", "running"}
          /\ heart \in {"none", "check", "send", "ended"}
          /\ program \in {"running", "terminated"}
          /\ posture \in Postures /\ mode \in Modes
      BY DEF Init
    <2>5. connected \in BOOLEAN /\ running \in BOOLEAN /\ raced \in BOOLEAN
      BY DEF Init
    <2> QED
      BY <1>1, <1>2, <2>1, <2>2, <2>3, <2>4, <2>5 DEF TypeOK
  <1>4. LinkInv
    BY DEF Init, LinkInv, Connecting
  <1>5. PostureInv
    <2>1. Toggles = {}
      BY <1>1 DEF Toggles
    <2> QED
      BY <2>1, FS_EmptySet DEF Init, PostureInv
  <1>6. ModeInv
    BY <1>1 DEF Init, ModeInv
  <1> QED
    BY <1>3, <1>4, <1>5, <1>6 DEF Inv

\* Toggles is of net alone.
LEMMA TogglesSame == ASSUME net' = net PROVE Toggles' = Toggles
  BY DEF Toggles

\* The steps before the answer: the datagrams and the robot are left alone.
LEMMA ConnectInv ==
  ASSUME Inv, program = "running", NEW h \in Handlers,
         \/ \E m \in Motions : Ask(h, m)
         \/ Check(h) \/ Connect(h) \/ Socket(h) \/ SetConnected(h) \/ SetRunning(h)
         \/ StartReceiver(h) \/ StartHeart(h)
  PROVE  Inv'
  <1> USE DEF Inv
  <1>1. UNCHANGED outside
    BY DEF Ask, Check, Connect, Socket, SetConnected, SetRunning, StartReceiver,
       StartHeart
  <1>2. TypeOK'
    <2> USE DEF TypeOK, Go, Connecting, link, threads, outside, robot
    <2>1. ASSUME NEW m \in Motions, Ask(h, m) PROVE TypeOK'
      BY <2>1, MaxCommandsAssumption DEF Ask
    <2>2. CASE Check(h)
      BY <2>2 DEF Check
    <2>3. CASE Connect(h)
      BY <2>3 DEF Connect
    <2>4. CASE Socket(h)
      BY <2>4 DEF Socket
    <2>5. CASE SetConnected(h)
      BY <2>5 DEF SetConnected
    <2>6. CASE SetRunning(h)
      BY <2>6 DEF SetRunning
    <2>7. CASE StartReceiver(h)
      BY <2>7 DEF StartReceiver
    <2>8. CASE StartHeart(h)
      BY <2>8 DEF StartHeart
    <2> QED
      BY <2>1, <2>2, <2>3, <2>4, <2>5, <2>6, <2>7, <2>8
  <1>3. LinkInv'
    <2> USE DEF TypeOK, LinkInv, Go, Connecting, link, threads, isConnected
    <2>1. ASSUME NEW m \in Motions, Ask(h, m) PROVE LinkInv'
      BY <2>1 DEF Ask
    <2>2. CASE Check(h)
      BY <2>2 DEF Check
    <2>3. CASE Connect(h)
      BY <2>3 DEF Connect
    <2>4. CASE Socket(h)
      BY <2>4 DEF Socket
    <2>5. CASE SetConnected(h)
      BY <2>5 DEF SetConnected
    <2>6. CASE SetRunning(h)
      BY <2>6 DEF SetRunning
    <2>7. CASE StartReceiver(h)
      BY <2>7 DEF StartReceiver
    <2>8. CASE StartHeart(h)
      BY <2>8 DEF StartHeart
    <2> QED
      BY <2>1, <2>2, <2>3, <2>4, <2>5, <2>6, <2>7, <2>8
  <1>4. PostureInv' /\ ModeInv'
    BY <1>1, TogglesSame DEF PostureInv, ModeInv, outside, robot
  <1> QED
    BY <1>2, <1>3, <1>4

\* The link is left alone.
LEMMA LinkSame ==
  ASSUME LinkInv, UNCHANGED <<link, receiver, program, raced>>, NEW h \in Handlers,
         pc \in [Handlers -> {"idle", "check", "connect", "send"} \cup Connecting],
         pc' = pc \/ pc' = [pc EXCEPT ![h] = "idle"]
  PROVE  LinkInv'
  BY DEF LinkInv, link, isConnected, Connecting

\* The answer.
LEMMA SendInv ==
  ASSUME Inv, NEW h \in Handlers, Send(h)
  PROVE  Inv'
  <1> USE DEF Inv
  <1>1. LinkInv'
    BY LinkSame DEF Send, Go, TypeOK, threads
  <1>2. CASE UNCHANGED <<net, wanted, astray>>
    <2>1. TypeOK'
      BY <1>2 DEF Send, Go, TypeOK, link, threads, robot
    <2>2. PostureInv' /\ ModeInv'
      BY <1>2, TogglesSame DEF Send, PostureInv, ModeInv, robot
    <2> QED
      BY <1>1, <2>1, <2>2
  <1>3. CASE motion[h] # "unknown" /\ Believe(motion[h]) /\ net' = Append(net, Code(motion[h]))
    <2> DEFINE m == motion[h]
    <2>1. m \in Postures \cup Modes /\ net \in Seq(Datagrams)
      BY <1>3 DEF TypeOK, Motions
    <2>2. /\ Code(m) \in Datagrams
          /\ m \in Postures => Code(m) = "standSit"
          /\ m \in Modes => Code(m) = m /\ m # "standSit"
      BY <2>1 DEF Code, Datagrams, Postures, Modes
    <2>3. /\ net' \in Seq(Datagrams) /\ Len(net) \in Nat /\ Len(net') = Len(net) + 1
          /\ \A i \in 1..Len(net) : net'[i] = net[i]
          /\ net'[Len(net) + 1] = Code(m)
      BY <1>3, <2>1, <2>2, AppendProperties, LenProperties
    <2>4. Cardinality(Toggles') =
            IF m \in Postures THEN Cardinality(Toggles) + 1 ELSE Cardinality(Toggles)
      BY <1>3, <2>1, <2>2, TogglesAppend
    <2>5. Cardinality(Toggles) \in Nat
      BY <2>1, TogglesFinite
    <2>6. /\ wanted' \in [posture : Postures, mode : Modes]
          /\ astray \subseteq astray' /\ astray' \subseteq {"posture", "mode"}
      BY <1>3, <2>1 DEF Believe, TypeOK
    <2>7. TypeOK'
      BY <2>3, <2>6 DEF Send, Go, TypeOK, link, threads, robot
    <2>8. CASE m \in Postures
      <3>1. /\ wanted'.posture = m /\ wanted'.mode = wanted.mode
            /\ m = wanted.posture => "posture" \in astray'
        BY <1>3, <2>8 DEF Believe, TypeOK
      <3>2. PostureInv'
        <4> SUFFICES ASSUME "posture" \notin astray'
                     PROVE  posture = m <=> Cardinality(Toggles') % 2 = 0
          BY <3>1 DEF PostureInv, Send, robot
        <4>1. posture = m <=> posture # wanted.posture
          BY <2>8, <3>1 DEF TypeOK, Postures
        <4>2. posture = wanted.posture <=> Cardinality(Toggles) % 2 = 0
          BY <2>6 DEF PostureInv
        <4> QED
          BY <2>4, <2>5, <2>8, <4>1, <4>2
      <3>3. ModeInv'
        <4>1. "mode" \notin astray' => "mode" \notin astray /\ mode' = mode
          BY <2>6 DEF Send, robot
        <4> QED
          BY <2>2, <2>3, <2>8, <3>1, <4>1 DEF ModeInv
      <3> QED
        BY <1>1, <2>7, <3>2, <3>3
    <2>9. CASE m \notin Postures
      <3>1. wanted'.posture = wanted.posture /\ wanted'.mode = m /\ astray' = astray
        BY <1>3, <2>9 DEF Believe, TypeOK
      <3>2. PostureInv'
        BY <2>4, <2>9, <3>1 DEF PostureInv, Send, robot
      <3>3. ModeInv'
        BY <2>1, <2>2, <2>3, <2>9, <3>1 DEF ModeInv
      <3> QED
        BY <1>1, <2>7, <3>2, <3>3
    <2> QED
      BY <2>8, <2>9
  <1> QED
    BY <1>2, <1>3 DEF Send

LEMMA HeartInv ==
  ASSUME Inv, HeartStep
  PROVE  Inv'
  <1> USE DEF Inv, HeartStep
  <1>1. TypeOK'
    <2>1. heart' \in {"none", "check", "send", "ended"}
      BY DEF HeartCheck, HeartBeat, TypeOK
    <2>2. beats' \in 0..1
      BY DEF HeartCheck, HeartBeat, TypeOK
    <2>3. UNCHANGED <<pc, motion, asked, sockfd, connected, running, receiver,
                     program, net, posture, mode, wanted, astray, raced>>
      BY DEF HeartCheck, HeartBeat, link, outside, robot
    <2> QED
      BY <2>1, <2>2, <2>3 DEF TypeOK
  <1>2. LinkInv'
    BY DEF HeartCheck, HeartBeat, LinkInv, link, isConnected
  <1>3. PostureInv' /\ ModeInv'
    BY TogglesSame DEF HeartCheck, HeartBeat, PostureInv, ModeInv, outside, robot
  <1> QED
    BY <1>1, <1>2, <1>3

\* A toggle that leaves the net changes nothing about the modes.
LEMMA ToggleLeaves ==
  ASSUME TypeOK, ModeInv, NEW i \in 1..Len(net), net' = RemoveAt(net, i),
         net[i] = "standSit", astray \subseteq astray', mode' = mode, wanted' = wanted
  PROVE  ModeInv'
  <1>1. /\ Len(net) \in Nat /\ Len(net') = Len(net) - 1
        /\ \A j \in 1..(Len(net) - 1) : net'[j] = IF j < i THEN net[j] ELSE net[j + 1]
    <2>1. net \in Seq(Datagrams)
      BY DEF TypeOK
    <2> QED
      BY <2>1, LenProperties, RemoveFacts
  <1> SUFFICES ASSUME "mode" \notin astray' PROVE ModeInv'
    BY DEF ModeInv
  <1>2. (\A j \in 1..Len(net') : net'[j] = "standSit") => mode' = wanted'.mode
    <2> SUFFICES ASSUME \A j \in 1..Len(net') : net'[j] = "standSit"
                 PROVE  \A j \in 1..Len(net) : net[j] = "standSit"
      BY DEF ModeInv
    <2>1. \A j \in 1..Len(net) : j < i => net[j] = net'[j]
      BY <1>1
    <2>2. \A j \in 1..Len(net) : j > i => net[j] = net'[j - 1]
      BY <1>1
    <2> QED
      BY <1>1, <2>1, <2>2
  <1>3. ASSUME NEW k \in 1..Len(net'), net'[k] # "standSit",
               \A j \in (k + 1)..Len(net') : net'[j] = "standSit"
        PROVE  net'[k] = wanted'.mode
    <2> DEFINE o == IF k < i THEN k ELSE k + 1
    <2>1. o \in 1..Len(net) /\ net[o] = net'[k]
      BY <1>1
    <2>2. \A j \in (o + 1)..Len(net) : net[j] = "standSit"
      <3> SUFFICES ASSUME NEW j \in (o + 1)..Len(net) PROVE net[j] = "standSit"
        OBVIOUS
      <3>1. CASE j < i
        BY <1>1, <1>3, <3>1
      <3>2. CASE j > i
        <4>1. j - 1 \in (k + 1)..Len(net') /\ net'[j - 1] = net[j]
          BY <1>1, <3>2
        <4> QED
          BY <1>3, <4>1
      <3> QED
        BY <1>1, <3>1, <3>2
    <2> QED
      BY <1>3, <2>1, <2>2 DEF ModeInv
  <1> QED
    BY <1>2, <1>3 DEF ModeInv

\* A mode that arrives in its turn is the answered one if it is the last.
LEMMA ModeArrives ==
  ASSUME TypeOK, ModeInv, NEW i \in 1..Len(net), net' = RemoveAt(net, i),
         net[i] # "standSit", \A j \in 1..(i - 1) : net[j] = "standSit",
         "mode" \notin astray, mode' = net[i], wanted' = wanted
  PROVE  ModeInv'
  <1>1. /\ Len(net) \in Nat /\ Len(net') = Len(net) - 1
        /\ \A j \in 1..(Len(net) - 1) : net'[j] = IF j < i THEN net[j] ELSE net[j + 1]
    <2>1. net \in Seq(Datagrams)
      BY DEF TypeOK
    <2> QED
      BY <2>1, LenProperties, RemoveFacts
  <1>2. \A j \in (i + 1)..Len(net) : j - 1 \in 1..Len(net') /\ net'[j - 1] = net[j]
    BY <1>1
  <1>3. (\A j \in 1..Len(net') : net'[j] = "standSit") => mode' = wanted'.mode
    BY <1>2 DEF ModeInv
  <1>4. ASSUME NEW k \in 1..Len(net'), net'[k] # "standSit",
               \A j \in (k + 1)..Len(net') : net'[j] = "standSit"
        PROVE  net'[k] = wanted'.mode
    <2>1. k >= i
      BY <1>1, <1>4
    <2>2. k + 1 \in 1..Len(net) /\ net[k + 1] = net'[k]
      BY <1>1, <2>1
    <2>3. \A j \in (k + 2)..Len(net) : net[j] = "standSit"
      <3> SUFFICES ASSUME NEW j \in (k + 2)..Len(net) PROVE net[j] = "standSit"
        OBVIOUS
      <3>1. j - 1 \in (k + 1)..Len(net') /\ net'[j - 1] = net[j]
        BY <1>1, <1>2, <2>1
      <3> QED
        BY <1>4, <3>1
    <2>4. (k + 1) + 1 = k + 2
      OBVIOUS
    <2> QED
      BY <1>4, <2>2, <2>3, <2>4 DEF ModeInv
  <1> QED
    BY <1>3, <1>4 DEF ModeInv

LEMMA ArriveInv ==
  ASSUME Inv, NEW i \in DOMAIN net, Arrive(i)
  PROVE  Inv'
  <1> USE DEF Inv
  <1>1. /\ net \in Seq(Datagrams) /\ i \in 1..Len(net) /\ net[i] \in Datagrams
        /\ net' \in Seq(Datagrams) /\ net' = RemoveAt(net, i)
    <2>1. net \in Seq(Datagrams)
      BY DEF TypeOK
    <2>2. i \in 1..Len(net)
      BY <2>1, LenProperties
    <2> QED
      BY <2>1, <2>2, ElementOfSeq, RemoveFacts DEF Arrive
  <1>2. Cardinality(Toggles) \in Nat
        /\ Cardinality(Toggles') =
              IF net[i] = "standSit" THEN Cardinality(Toggles) - 1
                                     ELSE Cardinality(Toggles)
    BY <1>1, TogglesFinite, TogglesRemove
  <1>3. LinkInv'
    BY DEF Arrive, LinkInv, link, threads, isConnected
  <1>4. CASE net[i] = "standSit"
    <2>1. /\ posture' = IF posture = "stand" THEN "sit" ELSE "stand"
          /\ mode' = mode /\ wanted' = wanted /\ astray' = astray
      BY <1>4 DEF Arrive, Obey, KindOf
    <2>2. TypeOK'
      BY <1>1, <2>1 DEF Arrive, TypeOK, Postures, link, threads
    <2>3. PostureInv'
      <3>1. posture' = wanted.posture <=> posture # wanted.posture
        BY <2>1 DEF TypeOK, Postures
      <3> QED
        BY <1>2, <1>4, <2>1, <3>1 DEF PostureInv
    <2>4. ModeInv'
      BY <1>1, <1>4, <2>1, ToggleLeaves
    <2> QED
      BY <1>3, <2>2, <2>3, <2>4
  <1>5. CASE net[i] # "standSit"
    <2>1. /\ mode' = net[i] /\ posture' = posture /\ wanted' = wanted
          /\ astray \subseteq astray' /\ astray' \subseteq astray \cup {"mode"}
          /\ "mode" \notin astray' =>
                \A j \in 1..(i - 1) : net[j] = "standSit"
      BY <1>5 DEF Arrive, Obey, KindOf
    <2>2. TypeOK'
      BY <1>1, <1>5, <2>1 DEF Arrive, TypeOK, Datagrams, link, threads
    <2>3. PostureInv'
      BY <1>2, <1>5, <2>1 DEF PostureInv
    <2>4. ModeInv'
      <3>1. CASE "mode" \in astray'
        BY <3>1 DEF ModeInv
      <3>2. CASE "mode" \notin astray'
        BY <1>1, <1>5, <2>1, <3>2, ModeArrives
      <3> QED
        BY <3>1, <3>2
    <2> QED
      BY <1>3, <2>2, <2>3, <2>4
  <1> QED
    BY <1>4, <1>5

LEMMA LoseInv ==
  ASSUME Inv, NEW i \in DOMAIN net, Lose(i)
  PROVE  Inv'
  <1> USE DEF Inv
  <1>1. /\ net \in Seq(Datagrams) /\ i \in 1..Len(net)
        /\ net' \in Seq(Datagrams) /\ net' = RemoveAt(net, i)
    <2>1. net \in Seq(Datagrams)
      BY DEF TypeOK
    <2>2. i \in 1..Len(net)
      BY <2>1, LenProperties
    <2> QED
      BY <2>1, <2>2, RemoveFacts DEF Lose
  <1>2. UNCHANGED <<posture, mode, wanted>>
    BY DEF Lose, robot
  <1>3. /\ astray \subseteq astray' /\ astray' \subseteq {"posture", "mode"}
        /\ net[i] = "standSit" => "posture" \in astray'
        /\ net[i] # "standSit" => "mode" \in astray'
    BY DEF Lose, KindOf, TypeOK
  <1>4. TypeOK'
    BY <1>1, <1>3 DEF Lose, TypeOK, link, threads, robot
  <1>5. LinkInv'
    BY DEF Lose, LinkInv, link, threads, isConnected
  <1>6. PostureInv'
    <2>1. net[i] # "standSit" => Cardinality(Toggles') = Cardinality(Toggles)
      BY <1>1, TogglesRemove
    <2> QED
      BY <1>2, <1>3, <2>1 DEF PostureInv
  <1>7. ModeInv'
    <2>1. CASE net[i] = "standSit"
      BY <1>1, <1>2, <1>3, <2>1, ToggleLeaves
    <2>2. CASE net[i] # "standSit"
      BY <1>3, <2>2 DEF ModeInv
    <2> QED
      BY <2>1, <2>2
  <1> QED
    BY <1>4, <1>5, <1>6, <1>7

LEMMA InvNext == Inv /\ [Next]_vars => Inv'
  <1> SUFFICES ASSUME Inv, [Next]_vars PROVE Inv'
    OBVIOUS
  <1>1. CASE Next
    <2>1. program = "running"
      BY <1>1 DEF Next
    <2>2. ASSUME NEW h \in Handlers, HandlerStep(h) \/ \E m \in Motions : Ask(h, m)
          PROVE  Inv'
      BY <2>1, <2>2, ConnectInv, SendInv DEF HandlerStep
    <2> QED
      BY <1>1, <2>2, HeartInv, ArriveInv, LoseInv DEF Next
  <1>2. CASE UNCHANGED vars
    BY <1>2, TogglesSame DEF vars, link, threads, outside, robot, Inv, TypeOK,
       LinkInv, isConnected, PostureInv, ModeInv
  <1> QED
    BY <1>1, <1>2

LEMMA Invariance == Spec => []Inv
  BY InvInit, InvNext, PTL DEF Spec

-----------------------------------------------------------------------------
\* The types of the Lite3 link: see TypeOK.
THEOREM TypeCorrect == Spec => []TypeOK
  <1>1. Inv => TypeOK
    BY DEF Inv
  <1> QED
    BY <1>1, Invariance, PTL

\* What the operator was told of the robot is true of it: see AnswersAreTrue.
THEOREM ToldIsTrue == Spec => []AnswersAreTrue
  <1>1. Inv => AnswersAreTrue
    <2> SUFFICES ASSUME Inv PROVE AnswersAreTrue
      OBVIOUS
    <2>1. net \in Seq(Datagrams) /\ DOMAIN net = 1..Len(net)
      BY LenProperties DEF Inv, TypeOK
    <2>2. \A i \in 1..Len(net) : net[i] \in Datagrams
      BY <2>1, ElementOfSeq
    <2>3. ASSUME "posture" \notin astray, Arrived("posture")
          PROVE  posture = wanted.posture
      <3>1. Toggles = {}
        BY <2>1, <2>3 DEF Arrived, KindOf, Toggles
      <3> QED
        BY <2>3, <3>1, FS_EmptySet DEF Inv, PostureInv
    <2>4. ASSUME "mode" \notin astray, Arrived("mode")
          PROVE  mode = wanted.mode
      BY <2>1, <2>4 DEF Arrived, KindOf, Inv, ModeInv
    <2> QED
      BY <2>3, <2>4 DEF AnswersAreTrue
  <1> QED
    BY <1>1, Invariance, PTL

\* Only racing connects end the program: see OnlyRacingConnectsTerminate.
THEOREM RacesAloneEnd == Spec => []OnlyRacingConnectsTerminate
  <1>1. Inv => OnlyRacingConnectsTerminate
    BY DEF Inv, LinkInv, OnlyRacingConnectsTerminate
  <1> QED
    BY <1>1, Invariance, PTL

\* A handler with a motion in hand and the heartbeat wait for nothing: at each
\* of their lines a step exists, which is what ENABLED means.  This is true of
\* every state, reachable or not, as each action gives every primed variable
\* its value; only the prover does not know what ENABLED means.
GuardsEnable ==
    TypeOK /\ program = "running" =>
        /\ \A h \in Handlers :
              pc[h] \in {"check", "connect", "send"} \cup Connecting
                 => HandlerCanStep(h)
        /\ heart \in {"check", "send"} => HeartCanStep

\* No thread of the link is stuck at one of its lines: see NoThreadStuck.
THEOREM ThreadsGoOn == Spec /\ []GuardsEnable => []NoThreadStuck
  <1>1. TypeOK /\ GuardsEnable => NoThreadStuck
    BY DEF TypeOK, GuardsEnable, NoThreadStuck, Connecting
  <1> QED
    BY <1>1, TypeCorrect, PTL

-----------------------------------------------------------------------------
(* The heartbeats.  Once there is a link, the handler that made it is on   *)
(* its way to start the heartbeat or has started it; it starts it once,    *)
(* because a second one would terminate the program a line before.         *)

BeatInv ==
    program = "running" =>
        /\ heart \in {"none", "check", "send"}
        /\ heart # "none" => running
        /\ receiver = "none" => heart = "none" /\ \A h \in Handlers : pc[h] # "heart"
        /\ \A h \in Handlers : pc[h] = "heart" => heart = "none"
        /\ \A g, h \in Handlers : pc[g] = "heart" /\ pc[h] = "heart" => g = h
        /\ \A h \in Handlers : pc[h] \in {"receive", "heart"} => running
        /\ connected => \/ heart # "none"
                        \/ \E h \in Handlers : pc[h] \in {"running", "receive", "heart"}
        /\ ~raced /\ connected => \/ receiver = "running"
                                  \/ \E h \in Handlers : pc[h] \in {"running", "receive"}

LEMMA BeatInvNext == TypeOK /\ LinkInv /\ BeatInv /\ [Next]_vars => BeatInv'
  <1> SUFFICES ASSUME TypeOK, LinkInv, BeatInv, [Next]_vars PROVE BeatInv'
    OBVIOUS
  <1> USE DEF TypeOK, Connecting, Go, link, threads, outside, robot
  <1>1. ASSUME NEW h \in Handlers, program = "running",
               \/ Check(h) \/ Connect(h) \/ \E m \in Motions : Ask(h, m)
               \/ Send(h)
        PROVE  BeatInv'
    BY <1>1 DEF BeatInv, Check, Connect, Ask, Send
  <1>2. ASSUME NEW h \in Handlers, program = "running", Socket(h)
        PROVE  BeatInv'
    BY <1>2 DEF BeatInv, Socket
  <1>3. ASSUME NEW h \in Handlers, program = "running", SetConnected(h)
        PROVE  BeatInv'
    BY <1>3 DEF BeatInv, SetConnected
  <1>4. ASSUME NEW h \in Handlers, program = "running", SetRunning(h)
        PROVE  BeatInv'
    BY <1>4 DEF BeatInv, SetRunning
  <1>5. ASSUME NEW h \in Handlers, program = "running", StartReceiver(h)
        PROVE  BeatInv'
    BY <1>5 DEF BeatInv, StartReceiver
  <1>6. ASSUME NEW h \in Handlers, program = "running", StartHeart(h)
        PROVE  BeatInv'
    BY <1>6 DEF BeatInv, StartHeart
  <1>7. CASE HeartStep
    BY <1>7 DEF BeatInv, HeartStep, HeartCheck, HeartBeat
  <1>8. ASSUME NEW i \in DOMAIN net, Arrive(i) \/ Lose(i)
        PROVE  BeatInv'
    BY <1>8 DEF BeatInv, Arrive, Lose
  <1>9. CASE UNCHANGED vars
    BY <1>9 DEF BeatInv, vars
  <1> QED
    BY <1>1, <1>2, <1>3, <1>4, <1>5, <1>6, <1>7, <1>8, <1>9 DEF Next, HandlerStep

LEMMA BeatInvariance == Spec => [](Inv /\ BeatInv)
  <1>1. Init => BeatInv
    BY DEF Init, BeatInv
  <1>2. Inv /\ BeatInv /\ [Next]_vars => BeatInv'
    BY BeatInvNext DEF Inv
  <1> QED
    BY <1>1, <1>2, InvInit, InvNext, PTL DEF Spec

\* There is a link and no excuse for a missing heartbeat.
Linked(b) ==
    /\ isConnected /\ beats = b
    /\ program = "running" /\ ~ (raced /\ sockfd = "-1")

Excused(b) == beats # b \/ program = "terminated" \/ (raced /\ sockfd = "-1")

\* The handler is about to start the heartbeat.
Starting(h, line, b) == Linked(b) /\ heart = "none" /\ pc[h] = line
Beating(line, b) == Linked(b) /\ heart = line
Done(b) == Excused(b) \/ Beating("check", b) \/ Beating("send", b)

LEMMA LinkLasts ==
  ASSUME NEW b \in 0..1, Inv, BeatInv, Linked(b), [Next]_vars
  PROVE  Linked(b)' \/ Excused(b)'
  <1> USE DEF Linked, Excused, isConnected, Inv, TypeOK, Go, link, threads, outside, robot
  <1>1. ASSUME NEW h \in Handlers, Socket(h)
        PROVE  Linked(b)' \/ Excused(b)'
    <2>1. /\ pc[h] = "socket"
          /\ \/ raced
             \/ receiver = "running"
             \/ \E g \in Handlers : g # h /\ pc[g] \in {"running", "receive"}
      BY <1>1 DEF Socket, BeatInv
    <2>2. raced
      BY <2>1 DEF LinkInv, Connecting
    <2> QED
      BY <1>1, <2>2 DEF Socket
  <1>2. ASSUME NEW h \in Handlers, HandlerStep(h) \/ \E m \in Motions : Ask(h, m)
        PROVE  Linked(b)' \/ Excused(b)'
    BY <1>1, <1>2 DEF HandlerStep, Check, Connect, SetConnected, SetRunning, StartReceiver,
       StartHeart, Send, Ask
  <1>3. CASE HeartStep
    BY <1>3 DEF HeartStep, HeartCheck, HeartBeat
  <1>4. ASSUME NEW i \in DOMAIN net, Arrive(i) \/ Lose(i)
        PROVE  Linked(b)' \/ Excused(b)'
    BY <1>4 DEF Arrive, Lose
  <1>5. CASE UNCHANGED vars
    BY <1>5 DEF vars
  <1> QED
    BY <1>2, <1>3, <1>4, <1>5 DEF Next

\* A handler stays at its line until it takes its step, and the heartbeat does.
LEMMA OthersWait ==
  ASSUME NEW h \in Handlers, TypeOK, BeatInv, pc[h] # "idle", [Next]_vars
  PROVE  pc'[h] = pc[h] \/ HandlerStep(h)
  <1> USE DEF TypeOK, Go
  <1>1. ASSUME NEW g \in Handlers, g # h, HandlerStep(g) \/ \E m \in Motions : Ask(g, m)
        PROVE  pc'[h] = pc[h]
    BY <1>1 DEF HandlerStep, Check, Connect, Socket, SetConnected, SetRunning, StartReceiver,
       StartHeart, Send, Ask
  <1>2. ~ \E m \in Motions : Ask(h, m)
    BY DEF Ask
  <1>3. HeartStep => pc' = pc
    BY DEF HeartStep, HeartCheck, HeartBeat
  <1>4. \A i \in DOMAIN net : Arrive(i) \/ Lose(i) => pc' = pc
    BY DEF Arrive, Lose
  <1>5. UNCHANGED vars => pc' = pc
    BY DEF vars
  <1> QED
    BY <1>1, <1>2, <1>3, <1>4, <1>5 DEF Next

\* The line behind this one.
After(line) ==
    CASE line = "running" -> "receive" [] line = "receive" -> "heart" [] OTHER -> "send"

\* A handler on its way to start the heartbeat gets one line further with its
\* own step and stays where it is with every other.
LEMMA HandlerMoves ==
  ASSUME NEW h \in Handlers, NEW b \in 0..1, NEW line \in {"running", "receive", "heart"},
         Inv, BeatInv, Starting(h, line, b), [Next]_vars
  PROVE  /\ Starting(h, line, b)' \/ Starting(h, After(line), b)' \/ Done(b)'
         /\ HandlerStep(h) => Starting(h, After(line), b)' \/ Done(b)'
         /\ line = "heart" => Starting(h, line, b)' \/ Done(b)'
         /\ line = "heart" /\ HandlerStep(h) => Done(b)'
  <1>1. Linked(b)' \/ Excused(b)'
    BY LinkLasts DEF Starting
  <1>2. CASE Excused(b)'
    BY <1>2 DEF Done
  <1>3. CASE Linked(b)' /\ HandlerStep(h)
    <2>1. pc'[h] = After(line) /\ heart' = IF line = "heart" THEN "check" ELSE "none"
      BY <1>3 DEF Starting, After, Inv, TypeOK, Go, HandlerStep, Check, Connect, Socket,
         SetConnected, SetRunning, StartReceiver, StartHeart, Send, threads
    <2> QED
      BY <1>3, <2>1 DEF Starting, Done, Beating
  <1>4. CASE Linked(b)' /\ ~ HandlerStep(h)
    <2>1. pc'[h] = line
      BY <1>4, OthersWait DEF Starting, Inv
    <2>2. heart' \in {"none", "check", "send"}
      <3>1. BeatInv'
        BY BeatInvNext DEF Inv
      <3> QED
        BY <1>4, <3>1 DEF BeatInv, Linked
    <2> QED
      BY <1>4, <2>1, <2>2 DEF Starting, Done, Beating
  <1> QED
    BY <1>1, <1>2, <1>3, <1>4

\* A handler that has made the link gets to the start of the heartbeat.
OnItsWay(h, b) ==
    Starting(h, "running", b) \/ Starting(h, "receive", b) \/ Starting(h, "heart", b)
GetsThere(h, b) == [](OnItsWay(h, b) => <>Done(b))

LEMMA HeartStarts ==
  ASSUME NEW h \in Handlers, NEW b \in 0..1
  PROVE  Spec /\ []NoThreadStuck /\ HandlerRuns(h) => GetsThere(h, b)
  <1> DEFINE I == Inv /\ BeatInv
             Step == program = "running" /\ HandlerStep(h)
  <1>1. I /\ Starting(h, "running", b) /\ [Next]_vars
          => Starting(h, "running", b)' \/ Starting(h, "receive", b)' \/ Done(b)'
    BY HandlerMoves DEF After
  <1>2. I /\ Starting(h, "running", b) /\ <<Step>>_vars
          => Starting(h, "receive", b)' \/ Done(b)'
    BY HandlerMoves DEF After, Next
  <1>3. I /\ Starting(h, "receive", b) /\ [Next]_vars
          => Starting(h, "receive", b)' \/ Starting(h, "heart", b)' \/ Done(b)'
    BY HandlerMoves DEF After
  <1>4. I /\ Starting(h, "receive", b) /\ <<Step>>_vars
          => Starting(h, "heart", b)' \/ Done(b)'
    BY HandlerMoves DEF After, Next
  <1>5. I /\ Starting(h, "heart", b) /\ [Next]_vars
          => Starting(h, "heart", b)' \/ Done(b)'
    BY HandlerMoves
  <1>6. I /\ Starting(h, "heart", b) /\ <<Step>>_vars => Done(b)'
    BY HandlerMoves DEF Next
  <1>7. Starting(h, "running", b) \/ Starting(h, "receive", b) \/ Starting(h, "heart", b)
          => (NoThreadStuck => HandlerCanStep(h))
    BY DEF Starting, Linked, NoThreadStuck
  <1> HIDE DEF I
  <1>8. Spec => []I
    BY BeatInvariance DEF I
  <1> QED
    BY <1>1, <1>2, <1>3, <1>4, <1>5, <1>6, <1>7, <1>8, PTL
       DEF Spec, HandlerRuns, HandlerCanStep, GetsThere, OnItsWay

\* The heartbeat gets from one line to the other with its own step only.
LEMMA HeartMoves ==
  ASSUME NEW b \in 0..1, NEW line \in {"check", "send"},
         Inv, BeatInv, Beating(line, b), [Next]_vars
  PROVE  /\ Beating(line, b)' \/ (line = "check" /\ Beating("send", b)') \/ Excused(b)'
         /\ HeartStep => (line = "check" /\ Beating("send", b)') \/ Excused(b)'
  <1> USE DEF Beating
  <1>1. Linked(b)' \/ Excused(b)'
    BY LinkLasts
  <1>2. HeartStep => (line = "check" /\ heart' = "send") \/ Excused(b)'
    BY DEF HeartStep, HeartCheck, HeartBeat, BeatInv, Linked, Excused, isConnected
  <1>3. heart' = heart \/ HeartStep
    <2>1. ASSUME NEW h \in Handlers, HandlerStep(h) \/ \E m \in Motions : Ask(h, m)
          PROVE  heart' = heart
      <3>1. pc[h] # "heart"
        BY DEF BeatInv, Linked
      <3> QED
        BY <2>1, <3>1 DEF HandlerStep, Check, Connect, Socket, SetConnected, SetRunning,
           StartReceiver, StartHeart, Send, Ask, threads
    <2>2. \A j \in DOMAIN net : Arrive(j) \/ Lose(j) => heart' = heart
      BY DEF Arrive, Lose, threads
    <2>3. UNCHANGED vars => heart' = heart
      BY DEF vars, threads
    <2> QED
      BY <2>1, <2>2, <2>3 DEF Next
  <1> QED
    BY <1>1, <1>2, <1>3

BeatComes(b) == [](Beating("check", b) \/ Beating("send", b) => <>Excused(b))

LEMMA HeartBeats ==
  ASSUME NEW b \in 0..1
  PROVE  Spec /\ []NoThreadStuck /\ HeartRuns => BeatComes(b)
  <1> DEFINE I == Inv /\ BeatInv
             Step == program = "running" /\ HeartStep
  <1>1. I /\ Beating("check", b) /\ [Next]_vars
          => Beating("check", b)' \/ Beating("send", b)' \/ Excused(b)'
    BY HeartMoves
  <1>2. I /\ Beating("check", b) /\ <<Step>>_vars => Beating("send", b)' \/ Excused(b)'
    BY HeartMoves DEF Next
  <1>3. I /\ Beating("send", b) /\ [Next]_vars => Beating("send", b)' \/ Excused(b)'
    BY HeartMoves
  <1>4. I /\ Beating("send", b) /\ <<Step>>_vars => Excused(b)'
    BY HeartMoves DEF Next
  <1>5. Beating("check", b) \/ Beating("send", b) => (NoThreadStuck => HeartCanStep)
    BY DEF Beating, Linked, NoThreadStuck
  <1> HIDE DEF I
  <1>6. Spec => []I
    BY BeatInvariance DEF I
  <1> QED
    BY <1>1, <1>2, <1>3, <1>4, <1>5, <1>6, PTL
       DEF Spec, HeartRuns, HeartCanStep, BeatComes

\* The robot gets its heartbeats: see HeartbeatsGoOn, under the fairness of
\* FairSpec.
THEOREM RobotKeepsHearing == FairSpec /\ []GuardsEnable => HeartbeatsGoOn
  <1> SUFFICES ASSUME NEW b \in 0..1
               PROVE  FairSpec /\ []GuardsEnable => BeatFollows(b)
    BY DEF HeartbeatsGoOn
  <1> DEFINE I == Inv /\ BeatInv
  <1>1. \A h \in Handlers : Spec /\ []NoThreadStuck /\ HandlerRuns(h) => GetsThere(h, b)
    BY HeartStarts
  <1>2. (\A h \in Handlers : HandlerRuns(h)) /\ Spec /\ []NoThreadStuck
          => \A h \in Handlers : GetsThere(h, b)
    BY <1>1
  <1>3. (\A h \in Handlers : GetsThere(h, b))
          => [](\A h \in Handlers : OnItsWay(h, b) => <>Done(b))
    BY DEF GetsThere
  <1>4. (\A h \in Handlers : OnItsWay(h, b) => <>Done(b))
          => ((\E h \in Handlers : OnItsWay(h, b)) => <>Done(b))
    OBVIOUS
  <1>5. I /\ isConnected /\ beats = b
          => Excused(b) \/ Done(b) \/ \E h \in Handlers : OnItsWay(h, b)
    <2> SUFFICES ASSUME Inv, BeatInv, isConnected, beats = b, ~ Excused(b), ~ Done(b)
                 PROVE  \E h \in Handlers : OnItsWay(h, b)
      OBVIOUS
    <2>1. Linked(b)
      BY DEF Linked, Excused, Inv, TypeOK
    <2>2. heart = "none"
      BY <2>1 DEF Done, Beating, BeatInv, Linked
    <2>3. PICK h \in Handlers : pc[h] \in {"running", "receive", "heart"}
      BY <2>1, <2>2 DEF BeatInv, Linked, isConnected
    <2> QED
      BY <2>1, <2>2, <2>3 DEF OnItsWay, Starting
  <1> HIDE DEF I
  <1>6. Spec => []I
    BY BeatInvariance DEF I
  <1>7. Spec /\ []NoThreadStuck /\ HeartRuns => BeatComes(b)
    BY HeartBeats
  <1> QED
    BY <1>2, <1>3, <1>4, <1>5, <1>6, <1>7, ThreadsGoOn, PTL
       DEF FairSpec, BeatFollows, BeatComes, Done, Excused

=============================================================================
