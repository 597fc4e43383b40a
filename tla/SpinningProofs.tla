--------------------------- MODULE SpinningProofs ---------------------------
(***************************************************************************)
(* Theorems about the callbacks of ExClient, for every number of messages, *)
(* motions and rounds and with or without the executor.  Two inductive     *)
(* invariants that do not need each other: Lone for the motions, Data for  *)
(* the poses and the cloud.                                                *)
(***************************************************************************)
EXTENDS Spinning, TLAPS

Only(t) == motions[t][1]

\* The innermost motions are of the motions begun.
Typed ==
    /\ motions \in [Threads -> Seq(Frames)]
    /\ kind \in [Motions -> {"none"} \cup Gaits]
    /\ nMotions \in Motions /\ gait \in 0..nMotions /\ filter \in 0..nMotions
    /\ mixed \in BOOLEAN
    /\ \A t \in Threads : \A i \in DOMAIN motions[t] :
        /\ motions[t][i].id \in 1..nMotions
        /\ motions[t][i].at \in {"gait", "publish"} => motions[t][i].left > 0

\* Unless motions mixed there is at most one, the robot has its gait once
\* the packets are out, and its filter, if it has one, once it was published.
Alone ==
    mixed = FALSE =>
        /\ \A t, u \in Threads : motions[t] # <<>> /\ motions[u] # <<>> => t = u
        /\ \A t \in Threads : motions[t] # <<>> =>
            /\ Len(motions[t]) = 1
            /\ Only(t).at # "gait" => gait = Only(t).id
            /\ Only(t).at = "spin" => filter = Only(t).id
            /\ Only(t).at = "return" =>
                kind[Only(t).id] = "basic" \/ filter = Only(t).id
        /\ NoMotion /\ nMotions > 0 =>
            kind[gait] = "basic" \/ kind[gait] = kind[filter]

Lone == Typed /\ Alone

DataTypes ==
    /\ call \in [Threads -> Calls]
    /\ stored \in [Sources -> [Fields -> Messages]]
    /\ received \in [Sources -> BOOLEAN]
    /\ nMessages \in Messages
    /\ done \in [Sources -> Messages] /\ since \in [Sources -> Messages]
    /\ reply \in [from : {"none"} \cup Sources, stamp : Messages, body : Messages]
    /\ mutex \in {{}} \cup {{t} : t \in Threads}

\* Where the calls are.
Places ==
    /\ \A t \in Threads :
        /\ call[t].do = "none" => call[t] = NoCall
        /\ call[t].do \in {"odom", "amcl_pose"} => call[t].at = "copy"
        /\ call[t].do = "lidar_fusion_pcl" => call[t].at \in {"lock", "copy"}
        /\ call[t].do \in {"Position", "PointCloud"} => t = "server"
        /\ call[t].do = "Position" => call[t].at \in {"odom", "amcl_pose", "answer"}
        /\ call[t].do = "PointCloud" => call[t].at \in {"lock", "cloud", "answer"}
    /\ \A t, u \in Threads :
        call[t].do \in Sources /\ call[t].do = call[u].do => t = u

\* Messages are numbered as they come, so what a callback stores is newer
\* than what it replaces.
Numbers ==
    /\ \A s \in Sources : \A f \in Fields :
        done[s] <= stored[s][f] /\ stored[s][f] <= nMessages
    /\ \A t \in Threads : call[t].do \in Sources =>
        /\ call[t].id <= nMessages
        /\ \A f \in Fields :
            /\ stored[call[t].do][f] <= call[t].id
            /\ f \notin call[t].todo => stored[call[t].do][f] = call[t].id
    /\ \A s \in Sources : since[s] <= done[s]

\* What HandlePosition has read.
Pose ==
    LET c == call["server"]
        Good(s) == \A f \in Fields : reply[f] >= since[s] IN
    /\ c.do \notin {"Position", "PointCloud"} \/ c.at = "lock" \/ reply.from = "none"
            => reply = NoReply
    /\ c.do = "Position" => reply.from # "lidar_fusion_pcl"
    /\ c.at = "odom" =>
        /\ "stamp" \notin c.todo => "body" \notin c.todo
        /\ c.todo \subseteq Fields
        /\ c.todo = Fields =>
            reply.from = "none" /\ (received["odom"] \/ received["amcl_pose"])
        /\ c.todo # Fields => reply.from = "odom"
        /\ \A f \in Fields \ c.todo : reply[f] >= since["odom"]
    /\ c.at = "amcl_pose" =>
        /\ "stamp" \notin c.todo => "body" \notin c.todo
        /\ c.todo \subseteq Fields
        /\ c.todo = Fields =>
            /\ reply.from = "none" => received["amcl_pose"]
            /\ reply.from = "odom" => Good("odom")
            /\ reply.from # "amcl_pose"
        /\ c.todo # Fields => reply.from = "amcl_pose"
        /\ \A f \in Fields \ c.todo : reply[f] >= since["amcl_pose"]
    /\ c.do = "Position" /\ c.at = "answer" =>
        reply.from \in {"odom", "amcl_pose"} /\ Good(reply.from)

CloudAt(t) == \/ call[t].do = "lidar_fusion_pcl" /\ call[t].at = "copy"
              \/ t = "server" /\ call[t].at = "cloud"

\* The mutex, and what HandlePointCloud has read under it.
Cloud ==
    LET c == call["server"]
        pcl == stored["lidar_fusion_pcl"] IN
    /\ \A t \in Threads : t \in mutex <=> CloudAt(t)
    /\ (\A t \in Threads : ~ (call[t].do = "lidar_fusion_pcl" /\ call[t].at = "copy"))
            => pcl.stamp = pcl.body
    /\ c.do = "PointCloud" /\ c.at = "lock" => c.todo = Fields
    /\ c.at = "cloud" => \A f \in Fields \ c.todo : reply[f] = pcl[f]
    /\ c.do = "PointCloud" /\ c.at = "answer" =>
        reply.stamp = reply.body /\ reply.stamp >= since["lidar_fusion_pcl"]

Data == DataTypes /\ Places /\ Numbers /\ Pose /\ Cloud

-----------------------------------------------------------------------------
(* Motions.                                                                *)

LEMMA LoneInit == Init => Lone
  <1> SUFFICES ASSUME Init PROVE Lone
    OBVIOUS
  <1>1. motions = [t \in Threads |-> <<>>] /\ nMotions = 0 /\ gait = 0
        /\ filter = 0 /\ mixed = FALSE
    BY DEF Init
  <1>2. motions \in [Threads -> Seq(Frames)]
    BY <1>1
  <1>3. kind \in [Motions -> {"none"} \cup Gaits] /\ 0 \in Motions
    BY BoundsAssumption DEF Init, Motions
  <1>4. ASSUME NEW t \in Threads, NEW i \in DOMAIN motions[t] PROVE FALSE
    <2>1. motions[t] = <<>> /\ Len(motions[t]) = 0
      BY <1>1
    <2> QED
      BY <2>1
  <1>5. Typed
    BY <1>1, <1>2, <1>3, <1>4 DEF Typed
  <1>6. Alone
    BY <1>1 DEF Alone
  <1> QED
    BY <1>5, <1>6 DEF Lone

\* A step of the innermost motion, which is the only one unless they mixed.
LEMMA GoToFacts ==
  ASSUME Lone, NEW t \in Threads, motions[t] # <<>>, NEW at, NEW left,
         at \in {"gait", "publish", "spin", "return"}, left \in 0..Rounds,
         at \in {"gait", "publish"} => left > 0,
         GoTo(t, at, left)
  PROVE  /\ motions' \in [Threads -> Seq(Frames)]
         /\ \A u \in Threads \ {t} : motions'[u] = motions[u]
         /\ Len(motions'[t]) = Len(motions[t]) /\ motions'[t] # <<>>
         /\ \A i \in DOMAIN motions[t] :
             /\ motions'[t][i].id = motions[t][i].id
             /\ motions'[t][i].at \in {"gait", "publish"} => motions'[t][i].left > 0
         /\ Len(motions[t]) = 1 => motions'[t][1].at = at
  <1> DEFINE n == Len(motions[t])
             new == [motions[t] EXCEPT ![n] = [@ EXCEPT !.at = at, !.left = left]]
  <1>1. motions[t] \in Seq(Frames) /\ n \in Nat \ {0} /\ n \in DOMAIN motions[t]
        /\ motions[t][n] \in Frames
    BY DEF Lone, Typed
  <1>2. [motions[t][n] EXCEPT !.at = at, !.left = left] \in Frames
    BY <1>1 DEF Frames
  <1>3. new \in Seq(Frames) /\ Len(new) = n
    BY <1>1, <1>2
  <1>4. motions' = [motions EXCEPT ![t] = new]
    BY <1>1 DEF GoTo, Lone, Typed
  <1>5. motions'[t] = new /\ \A u \in Threads \ {t} : motions'[u] = motions[u]
    BY <1>4 DEF Lone, Typed
  <1>6. motions' \in [Threads -> Seq(Frames)]
    BY <1>3, <1>4 DEF Lone, Typed
  <1>7. DOMAIN motions[t] = 1..n
    BY <1>1
  <1>8. ASSUME NEW i \in DOMAIN motions[t]
        PROVE  new[i] = IF i = n THEN [motions[t][n] EXCEPT !.at = at, !.left = left]
                                 ELSE motions[t][i]
    BY <1>1
  <1>9. ASSUME NEW i \in DOMAIN motions[t]
        PROVE  /\ new[i].id = motions[t][i].id
               /\ new[i].at \in {"gait", "publish"} => new[i].left > 0
    <2>1. motions[t][i] \in Frames
      BY <1>1
    <2>2. CASE i = n
      BY <1>1, <1>8, <2>2 DEF Frames
    <2>3. CASE i # n
      BY <1>8, <2>3 DEF Lone, Typed
    <2> QED
      BY <2>2, <2>3
  <1>10. n = 1 => new[1].at = at
    BY <1>1, <1>7, <1>8 DEF Frames
  <1>11. new # <<>>
    BY <1>1, <1>3
  <1> HIDE DEF new
  <1> QED
    BY <1>3, <1>5, <1>6, <1>9, <1>10, <1>11

\* What In gives: the thread has a motion, and it is the only one unless
\* they mixed.
LEMMA InFacts ==
  ASSUME Lone, NEW t \in Threads, NEW at, In(t, at)
  PROVE  /\ motions[t] # <<>> /\ Top(t).at = at
         /\ Top(t).id \in 1..nMotions /\ Top(t).left \in 0..Rounds
         /\ at \in {"gait", "publish"} => Top(t).left > 0
         /\ mixed = FALSE => Only(t) = Top(t)
  <1>1. motions[t] \in Seq(Frames) /\ motions[t] # <<>>
    BY DEF Lone, Typed, In
  <1>2. Len(motions[t]) \in DOMAIN motions[t]
        /\ motions[t][Len(motions[t])] \in Frames
    BY <1>1
  <1>3. mixed = FALSE => Len(motions[t]) = 1
    BY <1>1 DEF Lone, Alone
  <1> QED
    BY <1>1, <1>2, <1>3 DEF In, Top, Only, Lone, Typed, Frames

\* What such a step leaves.
Moved(t, at) ==
    /\ Typed'
    /\ ~ NoMotion'
    /\ mixed' = FALSE /\ mixed = FALSE =>
        /\ \A u, v \in Threads : motions'[u] # <<>> /\ motions'[v] # <<>> => u = v
        /\ \A u \in Threads : motions'[u] # <<>> =>
            /\ u = t /\ Len(motions'[u]) = 1
            /\ motions'[u][1].at = at /\ motions'[u][1].id = Top(t).id

\* The steps that only move the innermost motion on.
LEMMA GoToTyped ==
  ASSUME Lone, NEW t \in Threads, NEW from, In(t, from), NEW at, NEW left,
         at \in {"gait", "publish", "spin", "return"}, left \in 0..Rounds,
         at \in {"gait", "publish"} => left > 0,
         GoTo(t, at, left),
         kind' = kind, nMotions' = nMotions,
         gait' \in {gait, Top(t).id}, filter' \in {filter, Top(t).id},
         mixed' \in BOOLEAN
  PROVE  Moved(t, at)
  <1>1. /\ motions[t] # <<>> /\ Top(t).id \in 1..nMotions
        /\ mixed = FALSE => Only(t) = Top(t)
    BY InFacts
  <1>2. /\ motions' \in [Threads -> Seq(Frames)]
        /\ \A u \in Threads \ {t} : motions'[u] = motions[u]
        /\ Len(motions'[t]) = Len(motions[t]) /\ motions'[t] # <<>>
        /\ \A i \in DOMAIN motions[t] :
            /\ motions'[t][i].id = motions[t][i].id
            /\ motions'[t][i].at \in {"gait", "publish"} => motions'[t][i].left > 0
        /\ Len(motions[t]) = 1 => motions'[t][1].at = at
    <2> HIDE DEF GoTo, Lone
    <2> QED
      BY <1>1, GoToFacts
  <1>3. DOMAIN motions'[t] = DOMAIN motions[t]
    BY <1>2 DEF Lone, Typed
  <1>4. Typed'
    <2>1. \A u \in Threads : \A i \in DOMAIN motions'[u] :
              /\ motions'[u][i].id \in 1..nMotions
              /\ motions'[u][i].at \in {"gait", "publish"} => motions'[u][i].left > 0
      BY <1>2, <1>3 DEF Lone, Typed
    <2>2. gait' \in 0..nMotions /\ filter' \in 0..nMotions /\ nMotions \in Nat
      BY <1>1, BoundsAssumption DEF Lone, Typed, Motions
    <2> QED
      BY <1>2, <2>1, <2>2 DEF Lone, Typed
  <1>5. ~ NoMotion'
    BY <1>2 DEF NoMotion
  <1>6. ASSUME mixed = FALSE, NEW u \in Threads, motions'[u] # <<>>
        PROVE  u = t /\ Len(motions'[u]) = 1 /\ motions'[u][1].at = at
               /\ motions'[u][1].id = Top(t).id
    <2>1. u = t
      BY <1>1, <1>2, <1>6 DEF Lone, Alone
    <2>2. Len(motions[t]) = 1 /\ 1 \in DOMAIN motions[t]
      BY <1>1, <1>6 DEF Lone, Alone, Typed
    <2> QED
      BY <1>1, <1>2, <1>6, <2>1, <2>2 DEF Only
  <1> QED
    BY <1>4, <1>5, <1>6 DEF Moved

LEMMA MotionInv ==
  ASSUME Lone, NEW t \in Threads,
         SetGait(t) \/ Publish(t) \/ SpinAgain(t) \/ ClearCostmap(t)
  PROVE  Lone'
  <1>1. CASE SetGait(t)
    <2> DEFINE basic == kind[Top(t).id] = "basic"
               next == IF basic THEN "return" ELSE "publish"
               left == IF basic THEN 0 ELSE Top(t).left
    <2>1. In(t, "gait") /\ GoTo(t, next, left)
          /\ kind' = kind /\ nMotions' = nMotions /\ filter' = filter
          /\ \/ gait' = Top(t).id /\ mixed' = mixed
             \/ gait' = gait /\ mixed' = TRUE
      BY <1>1 DEF SetGait
    <2>2. /\ mixed' \in BOOLEAN /\ left \in 0..Rounds
          /\ next \in {"publish", "return"} /\ (next = "publish" => left > 0)
          /\ next = "return" => kind[Top(t).id] = "basic"
      <3>1. In(t, "gait") /\ mixed' \in BOOLEAN
        BY <2>1 DEF Lone, Typed
      <3>2. Top(t).left \in 0..Rounds /\ Top(t).left > 0
        BY <3>1, InFacts
      <3>3. 0 \in 0..Rounds
        BY RoundsAssumption
      <3> QED
        BY <3>1, <3>2, <3>3
    <2> HIDE DEF next, left
    <2>3. Moved(t, next)
      <3>1. gait' \in {gait, Top(t).id} /\ filter' \in {filter, Top(t).id}
        BY <2>1
      <3> QED
        BY <2>1, <2>2, <3>1, GoToTyped
    <2>4. Alone'
      BY <2>1, <2>2, <2>3 DEF Alone, Lone, Typed, Only, Moved
    <2> QED
      BY <2>3, <2>4 DEF Lone, Moved
  <1>2. CASE Publish(t)
    <2>1. In(t, "publish") /\ GoTo(t, "spin", Top(t).left - 1)
          /\ kind' = kind /\ nMotions' = nMotions /\ gait' = gait
          /\ mixed' = mixed /\ filter' = Top(t).id
      BY <1>2 DEF Publish
    <2>2. /\ motions[t] # <<>> /\ Top(t).at = "publish"
          /\ Top(t).left \in 0..Rounds /\ Top(t).left > 0
          /\ mixed = FALSE => Only(t) = Top(t)
      BY <2>1, InFacts
    <2>3. mixed' \in BOOLEAN /\ Top(t).left - 1 \in 0..Rounds
      BY <2>1, <2>2, RoundsAssumption DEF Lone, Typed
    <2>4. Moved(t, "spin")
      <3>1. gait' \in {gait, Top(t).id} /\ filter' \in {filter, Top(t).id}
        BY <2>1
      <3> QED
        BY <2>1, <2>3, <3>1, GoToTyped
    <2>5. mixed = FALSE => gait = Top(t).id
      BY <2>2 DEF Lone, Alone
    <2>6. Alone'
      BY <2>1, <2>4, <2>5 DEF Alone, Only, Moved
    <2> QED
      BY <2>4, <2>6 DEF Lone, Moved
  <1>3. ASSUME NEW at \in {"publish", "return"}, NEW left \in 0..Rounds,
               at = "publish" => left > 0,
               In(t, "spin"), GoTo(t, at, left),
               kind' = kind, nMotions' = nMotions, gait' = gait,
               filter' = filter, mixed' = mixed
        PROVE  Lone'
    <2>1. /\ motions[t] # <<>> /\ Top(t).at = "spin"
          /\ mixed = FALSE => Only(t) = Top(t)
      BY <1>3, InFacts DEF Lone, Typed
    <2>2. Moved(t, at)
      <3>1. mixed' \in BOOLEAN
        BY <1>3 DEF Lone, Typed
      <3>2. gait' \in {gait, Top(t).id} /\ filter' \in {filter, Top(t).id}
        BY <1>3
      <3> QED
        BY <1>3, <3>1, <3>2, GoToTyped
    <2>3. mixed = FALSE => gait = Top(t).id /\ filter = Top(t).id
      BY <2>1 DEF Lone, Alone
    <2>4. Alone'
      BY <1>3, <2>2, <2>3 DEF Alone, Only, Moved
    <2> QED
      BY <2>2, <2>4 DEF Lone, Moved
  <1>4. CASE SpinAgain(t)
    <2>1. In(t, "spin") /\ Top(t).left > 0 /\ GoTo(t, "publish", Top(t).left)
          /\ kind' = kind /\ nMotions' = nMotions /\ gait' = gait
          /\ filter' = filter /\ mixed' = mixed
      BY <1>4 DEF SpinAgain
    <2>2. Top(t).left \in 0..Rounds
      BY <2>1, InFacts
    <2> QED
      BY <1>3, <2>1, <2>2
  <1>5. CASE ClearCostmap(t)
    <2>1. In(t, "spin") /\ GoTo(t, "return", 0)
          /\ kind' = kind /\ nMotions' = nMotions /\ gait' = gait
          /\ filter' = filter /\ mixed' = mixed
      BY <1>5 DEF ClearCostmap
    <2>2. 0 \in 0..Rounds
      BY RoundsAssumption
    <2> QED
      BY <1>3, <2>1, <2>2
  <1> QED
    BY <1>1, <1>2, <1>4, <1>5

\* The motion that begins is mixed unless there is no other.
LEMMA BeginInv ==
  ASSUME Lone, NEW t \in Threads, NEW by \in {"request", "stair"},
         NEW k \in Gaits, Begin(t, by, k)
  PROVE  Lone'
  <1> DEFINE frame == [by |-> by, id |-> nMotions', at |-> "gait", left |-> Rounds]
  <1>1. /\ nMotions < MaxMotions /\ nMotions' = nMotions + 1
        /\ kind' = [kind EXCEPT ![nMotions'] = k]
        /\ motions' = [motions EXCEPT ![t] = Append(@, frame)]
        /\ mixed' = ~ NoMotion /\ gait' = gait /\ filter' = filter
    BY DEF Begin
  <1>2. nMotions \in Nat /\ nMotions' \in Motions /\ gait \in Nat /\ filter \in Nat
    BY <1>1, BoundsAssumption DEF Lone, Typed, Motions
  <1>3. frame \in Frames /\ frame.id = nMotions' /\ frame.at = "gait" /\ frame.left > 0
    BY <1>2, RoundsAssumption DEF Frames
  <1> HIDE DEF frame
  <1>4. /\ motions[t] \in Seq(Frames)
        /\ motions'[t] = Append(motions[t], frame)
        /\ \A u \in Threads \ {t} : motions'[u] = motions[u]
    BY <1>1 DEF Lone, Typed
  <1>5. Append(motions[t], frame) \in Seq(Frames)
    BY <1>3, <1>4
  <1>6. motions' \in [Threads -> Seq(Frames)]
    BY <1>1, <1>5 DEF Lone, Typed
  <1>7. ASSUME NEW u \in Threads, NEW i \in DOMAIN motions'[u]
        PROVE  /\ motions'[u][i].id \in 1..nMotions'
               /\ motions'[u][i].at \in {"gait", "publish"} => motions'[u][i].left > 0
    <2>1. CASE u # t
      BY <1>1, <1>2, <1>4, <2>1 DEF Lone, Typed
    <2>2. CASE u = t /\ i \in DOMAIN motions[t]
      <3>1. motions'[u][i] = motions[t][i]
        BY <1>4, <2>2
      <3> QED
        BY <1>1, <1>2, <2>2, <3>1 DEF Lone, Typed
    <2>3. CASE u = t /\ i \notin DOMAIN motions[t]
      <3>1. motions'[u][i] = frame
        BY <1>4, <2>3, <1>3
      <3> QED
        BY <1>1, <1>2, <1>3, <3>1
    <2> QED
      BY <2>1, <2>2, <2>3
  <1>8. Typed'
    <2>1. kind' \in [Motions -> {"none"} \cup Gaits]
      BY <1>1 DEF Lone, Typed
    <2>2. gait' \in 0..nMotions' /\ filter' \in 0..nMotions' /\ mixed' \in BOOLEAN
      BY <1>1, <1>2 DEF Lone, Typed
    <2> QED
      BY <1>2, <1>6, <1>7, <2>1, <2>2 DEF Typed
  <1>9. Alone'
    <2> SUFFICES ASSUME mixed' = FALSE PROVE Alone'
      BY Zenon DEF Alone
    <2>1. NoMotion
      BY <1>1, Zenon
    <2>2. \A u \in Threads : motions[u] = <<>>
      BY <2>1 DEF NoMotion
    <2>3. Len(motions'[t]) = 1 /\ motions'[t][1] = frame
      BY <1>3, <1>4, <2>2
    <2>4. \A u \in Threads \ {t} : motions'[u] = <<>>
      BY <1>4, <2>2
    <2>5. motions'[t] # <<>>
      BY <2>3
    <2> QED
      BY <1>3, <2>3, <2>4, <2>5 DEF Alone, Only, NoMotion
  <1> QED
    BY <1>8, <1>9 DEF Lone

\* The motion that ends alone has set both.
LEMMA FinishInv ==
  ASSUME Lone, NEW t \in Threads, Finish(t)
  PROVE  Lone'
  <1> DEFINE rest == SubSeq(motions[t], 1, Len(motions[t]) - 1)
  <1>1. /\ motions' = [motions EXCEPT ![t] = rest]
        /\ kind' = kind /\ nMotions' = nMotions /\ gait' = gait
        /\ filter' = filter /\ mixed' = mixed
    BY DEF Finish
  <1>2. /\ motions[t] # <<>> /\ Top(t).at \in {"spin", "return"}
        /\ mixed = FALSE => Only(t) = Top(t)
    BY InFacts DEF Finish
  <1>3. motions[t] \in Seq(Frames) /\ Len(motions[t]) \in Nat \ {0}
    BY <1>2 DEF Lone, Typed
  <1>4. rest \in Seq(Frames) /\ Len(rest) = Len(motions[t]) - 1
        /\ \A i \in DOMAIN rest : i \in DOMAIN motions[t] /\ rest[i] = motions[t][i]
    BY <1>3
  <1> HIDE DEF rest
  <1>5. motions' \in [Threads -> Seq(Frames)] /\ motions'[t] = rest
        /\ \A u \in Threads \ {t} : motions'[u] = motions[u]
    BY <1>1, <1>4 DEF Lone, Typed
  <1>6. Typed'
    <2>1. ASSUME NEW u \in Threads, NEW i \in DOMAIN motions'[u]
          PROVE  i \in DOMAIN motions[u] /\ motions'[u][i] = motions[u][i]
      BY <1>4, <1>5
    <2> QED
      BY <1>1, <1>5, <2>1 DEF Lone, Typed
  <1>7. mixed = FALSE => \A u \in Threads : motions'[u] = <<>>
    <2>1. mixed = FALSE => rest = <<>>
      BY <1>2, <1>3, <1>4 DEF Lone, Alone
    <2> QED
      BY <1>2, <1>5, <2>1 DEF Lone, Alone
  <1>8. mixed = FALSE => kind[gait] = "basic" \/ gait = filter
    BY <1>2 DEF Lone, Alone
  <1>9. Alone'
    BY <1>1, <1>7, <1>8 DEF Alone
  <1> QED
    BY <1>6, <1>9 DEF Lone

\* The callbacks and the requests leave the motions alone.
LEMMA LoneKept == ASSUME Lone, UNCHANGED spinVars PROVE Lone'
  <1>1. /\ motions' = motions /\ kind' = kind /\ nMotions' = nMotions
        /\ gait' = gait /\ filter' = filter /\ mixed' = mixed
    BY DEF spinVars
  <1>2. Typed'
    BY <1>1 DEF Lone, Typed
  <1>3. Alone'
    BY <1>1 DEF Lone, Alone, Only, NoMotion
  <1> QED
    BY <1>2, <1>3 DEF Lone

LEMMA LoneNext == Lone /\ [Next]_vars => Lone'
  <1> SUFFICES ASSUME Lone, [Next]_vars PROVE Lone'
    OBVIOUS
  <1>1. CASE UNCHANGED vars
    BY <1>1, LoneKept DEF vars
  <1>2. ASSUME NEW t \in Threads, MotionStep(t) PROVE Lone'
    BY <1>2, MotionInv, FinishInv DEF MotionStep
  <1>3. ASSUME NEW t \in Threads, CallbackStep(t) PROVE Lone'
    BY <1>3, LoneKept DEF CallbackStep, LockCloud, Store
  <1>4. ASSUME NEW t \in Threads, NEW by \in {"request", "stair"},
               NEW k \in Gaits, Begin(t, by, k)
        PROVE  Lone'
    BY <1>4, BeginInv
  <1>5. ASSUME NEW t \in Threads, NEW s \in Sources, Receive(t, s) PROVE Lone'
    BY <1>5, LoneKept DEF Receive
  <1>6. ASSUME NEW do \in {"Position", "PointCloud"}, Request(do) PROVE Lone'
    BY <1>6, LoneKept DEF Request
  <1>7. CASE RequestStep
    BY <1>7, LoneKept
    DEF RequestStep, ReadPose, ReadCloud, NextPose, ReadLock, Answer
  <1> QED
    BY <1>1, <1>2, <1>3, <1>4, <1>5, <1>6, <1>7 DEF Next

\* Between motions the height filter of the map is that of the gait, unless
\* motions overlapped or lost a packet, or the gait is that of basic_std, which
\* leaves the filter as it was (ex_client.cpp:753-774).
THEOREM FilterFits == Spec => []FilterFitsGait
  <1>1. Lone => FilterFitsGait
    BY DEF Lone, Typed, Alone, FilterFitsGait
  <1> QED
    BY LoneInit, LoneNext, <1>1, PTL DEF Spec

-----------------------------------------------------------------------------
(* Poses and the point cloud.                                              *)

LEMMA DataInit == Init => Data
  <1> SUFFICES ASSUME Init PROVE Data
    OBVIOUS
  <1>1. 0 \in Messages /\ "server" \in Threads
    BY BoundsAssumption, ThreadsAssumption DEF Messages
  <1>2. NoCall \in Calls
    BY <1>1 DEF NoCall, Calls
  <1>3. DataTypes
    BY <1>1, <1>2 DEF Init, DataTypes, NoReply
  <1>4. Places
    BY DEF Init, Places, NoCall, Sources
  <1>5. Numbers
    BY DEF Init, Numbers, NoCall, Sources
  <1>6. Pose
    BY <1>1 DEF Init, Pose, NoCall
  <1>7. Cloud
    BY <1>1 DEF Init, Cloud, CloudAt, NoCall, Sources, Fields
  <1> QED
    BY <1>3, <1>4, <1>5, <1>6, <1>7 DEF Data

\* The motions leave the data alone.
LEMMA DataKept ==
  ASSUME Data, UNCHANGED <<dataVars, call, since, reply>>
  PROVE  Data'
  <1>1. /\ call' = call /\ stored' = stored /\ received' = received
        /\ mutex' = mutex /\ nMessages' = nMessages /\ done' = done
        /\ since' = since /\ reply' = reply
    BY DEF dataVars
  <1> QED
    BY <1>1 DEF Data, DataTypes, Places, Numbers, Pose, Cloud, CloudAt

\* What an action makes of the calls: one thread's call is a new one.
LEMMA CallIs ==
  ASSUME Data, NEW t \in Threads, NEW c \in Calls, call' = [call EXCEPT ![t] = c]
  PROVE  call' \in [Threads -> Calls] /\ call'[t] = c
         /\ \A u \in Threads \ {t} : call'[u] = call[u]
  BY DEF Data, DataTypes

LEMMA ReceiveData ==
  ASSUME Data, NEW t \in Threads, NEW s \in Sources, Receive(t, s)
  PROVE  Data'
  <1> DEFINE c == [do |-> s, at |-> IF s = "lidar_fusion_pcl" THEN "lock" ELSE "copy",
                   id |-> nMessages', todo |-> Stores]
  <1>1. /\ call[t] = NoCall /\ nMessages < MaxMessages
        /\ \A u \in Threads : call[u].do # s
        /\ nMessages' = nMessages + 1 /\ call' = [call EXCEPT ![t] = c]
        /\ stored' = stored /\ received' = received /\ mutex' = mutex
        /\ done' = done /\ since' = since /\ reply' = reply
    BY DEF Receive, Spins
  <1>2. nMessages' \in Messages /\ nMessages \in Nat /\ c \in Calls
    BY <1>1, BoundsAssumption DEF Data, DataTypes, Messages, Calls
  <1>3. call' \in [Threads -> Calls] /\ call'[t] = c
        /\ \A u \in Threads \ {t} : call'[u] = call[u]
    BY <1>1, <1>2, CallIs
  <1>4. /\ c.do = s /\ c.at = (IF s = "lidar_fusion_pcl" THEN "lock" ELSE "copy")
        /\ c.id = nMessages' /\ c.todo = Stores
    OBVIOUS
  <1> HIDE DEF c
  <1>5. DataTypes'
    BY <1>1, <1>2, <1>3 DEF Data, DataTypes
  <1>6. Places'
    BY <1>1, <1>3, <1>4 DEF Data, Places, Sources
  <1>7. Numbers'
    <2>1. \A r \in Sources : \A f \in Fields :
            stored[r][f] \in Nat /\ stored[r][f] <= nMessages /\ done[r] <= stored[r][f]
      BY BoundsAssumption DEF Data, DataTypes, Numbers, Messages
    <2>2. \A f \in Fields : f \in c.todo
      BY <1>4 DEF Stores
    <2>3. ASSUME NEW u \in Threads, call'[u].do \in Sources
          PROVE  /\ call'[u].id <= nMessages'
                 /\ \A f \in Fields :
                    /\ stored[call'[u].do][f] <= call'[u].id
                    /\ f \notin call'[u].todo => stored[call'[u].do][f] = call'[u].id
      <3>1. CASE u = t
        BY <1>1, <1>2, <1>3, <1>4, <2>1, <2>2, <3>1
      <3>2. CASE u # t
        <4>1. call[u] \in Calls /\ call[u].id \in Nat
          BY BoundsAssumption DEF Data, DataTypes, Calls, Messages
        <4> QED
          BY <1>1, <1>2, <1>3, <2>3, <3>2, <4>1 DEF Data, Numbers
      <3> QED
        BY <3>1, <3>2
    <2> QED
      BY <1>1, <1>2, <2>1, <2>3 DEF Data, Numbers
  <1>8. Pose'
    BY <1>1, <1>3, <1>4, ThreadsAssumption DEF Data, Pose, Sources, NoCall
  <1>9. Cloud'
    BY <1>1, <1>3, <1>4, ThreadsAssumption DEF Data, Cloud, CloudAt, Sources, NoCall
  <1> QED
    BY <1>5, <1>6, <1>7, <1>8, <1>9 DEF Data

LEMMA LockCloudData ==
  ASSUME Data, NEW t \in Threads, LockCloud(t)
  PROVE  Data'
  <1> DEFINE c == [call[t] EXCEPT !.at = "copy"]
  <1>1. /\ call[t].do = "lidar_fusion_pcl" /\ call[t].at = "lock"
        /\ mutex = {} /\ mutex' = {t} /\ call' = [call EXCEPT ![t] = c]
        /\ stored' = stored /\ received' = received /\ nMessages' = nMessages
        /\ done' = done /\ since' = since /\ reply' = reply
    BY DEF LockCloud
  <1>2. call[t] \in Calls
    BY DEF Data, DataTypes
  <1>3. /\ c \in Calls /\ c.do = call[t].do /\ c.at = "copy"
        /\ c.id = call[t].id /\ c.todo = call[t].todo
    BY <1>2 DEF Calls
  <1> HIDE DEF c
  <1>4. call' \in [Threads -> Calls] /\ call'[t] = c
        /\ \A u \in Threads \ {t} : call'[u] = call[u]
    BY <1>1, <1>3, CallIs
  <1>5. DataTypes'
    BY <1>1, <1>4 DEF Data, DataTypes
  <1>6. Places'
    <2>1. c.do = "lidar_fusion_pcl" /\ c.do \in Sources /\ call[t].do \in Sources
      BY <1>1, <1>3 DEF Sources
    <2>2. \A u \in Threads : call'[u].do = call[u].do
      BY <1>3, <1>4
    <2>3. ASSUME NEW u \in Threads
          PROVE  /\ call'[u].do = "none" => call'[u] = NoCall
                 /\ call'[u].do \in {"odom", "amcl_pose"} => call'[u].at = "copy"
                 /\ call'[u].do = "lidar_fusion_pcl" => call'[u].at \in {"lock", "copy"}
                 /\ call'[u].do \in {"Position", "PointCloud"} => u = "server"
                 /\ call'[u].do = "Position" => call'[u].at \in {"odom", "amcl_pose", "answer"}
                 /\ call'[u].do = "PointCloud" => call'[u].at \in {"lock", "cloud", "answer"}
      BY <1>3, <1>4, <2>1 DEF Data, Places
    <2> QED
      BY <2>2, <2>3 DEF Data, Places
  <1>7. Numbers'
    BY <1>1, <1>3, <1>4 DEF Data, Numbers
  <1>8. Pose'
    BY <1>1, <1>3, <1>4, ThreadsAssumption DEF Data, Pose
  <1>9. Cloud'
    BY <1>1, <1>3, <1>4, ThreadsAssumption DEF Data, Cloud, CloudAt
  <1> QED
    BY <1>5, <1>6, <1>7, <1>8, <1>9 DEF Data

LEMMA RequestData ==
  ASSUME Data, NEW do \in {"Position", "PointCloud"}, Request(do)
  PROVE  Data'
  <1> DEFINE c == [do |-> do, at |-> IF do = "Position" THEN "odom" ELSE "lock",
                   id |-> 0, todo |-> Fields]
  <1>1. /\ call["server"] = NoCall
        /\ do = "Position" => received["odom"] \/ received["amcl_pose"]
        /\ call' = [call EXCEPT !["server"] = c] /\ since' = done
        /\ stored' = stored /\ received' = received /\ mutex' = mutex
        /\ nMessages' = nMessages /\ done' = done /\ reply' = reply
    BY DEF Request, Idle, dataVars
  <1>2. "server" \in Threads /\ 0 \in Messages
    BY ThreadsAssumption, BoundsAssumption DEF Messages
  <1>3. c \in Calls
    BY <1>2 DEF Calls, Stores
  <1>4. /\ c.do = do /\ c.at = (IF do = "Position" THEN "odom" ELSE "lock")
        /\ c.id = 0 /\ c.todo = Fields
    OBVIOUS
  <1> HIDE DEF c
  <1>5. call' \in [Threads -> Calls] /\ call'["server"] = c
        /\ \A u \in Threads \ {"server"} : call'[u] = call[u]
    BY <1>1, <1>2, <1>3, CallIs
  <1>6. DataTypes'
    BY <1>1, <1>5 DEF Data, DataTypes
  <1>7. Places'
    BY <1>1, <1>4, <1>5 DEF Data, Places, Sources
  <1>8. Numbers'
    BY <1>1, <1>4, <1>5 DEF Data, DataTypes, Numbers, Sources, Messages
  <1>9. Pose'
    <2>1. call["server"].do = "none"
      BY <1>1 DEF NoCall
    <2>2. reply' = NoReply /\ NoReply.from = "none"
      BY <1>1, <2>1 DEF Data, Pose, NoReply
    <2>3. received'["odom"] \/ received'["amcl_pose"] \/ do # "Position"
      BY <1>1
    <2> QED
      BY <1>4, <1>5, <2>2, <2>3 DEF Pose, Fields
  <1>10. Cloud'
    BY <1>1, <1>2, <1>4, <1>5 DEF Data, Cloud, CloudAt, Sources, NoCall
  <1> QED
    BY <1>6, <1>7, <1>8, <1>9, <1>10 DEF Data

\* What a store leaves to its callback, and the mutex to release.
LEMMA StoreData ==
  ASSUME Data, NEW t \in Threads, NEW x \in Stores, Store(t, x)
  PROVE  Data'
  <1> DEFINE s == call[t].do
             last == call[t].todo = {x}
             c == IF last THEN NoCall ELSE [call[t] EXCEPT !.todo = @ \ {x}]
  <1>1. /\ s \in Sources /\ call[t].at = "copy" /\ x \in call[t].todo
        /\ call' = [call EXCEPT ![t] = c]
        /\ nMessages' = nMessages /\ since' = since /\ reply' = reply
        /\ last => done' = [done EXCEPT ![s] = call[t].id] /\ mutex' = mutex \ {t}
        /\ ~ last => done' = done /\ mutex' = mutex
    <2>1. /\ s \in Sources /\ call[t].at = "copy" /\ x \in call[t].todo
          /\ nMessages' = nMessages /\ since' = since /\ reply' = reply
      BY DEF Store
    <2>2. call' = [call EXCEPT ![t] = c]
      <3>1. CASE last
        BY <3>1 DEF Store
      <3>2. CASE ~ last
        BY <3>2 DEF Store
      <3> QED
        BY <3>1, <3>2
    <2>3. last => done' = [done EXCEPT ![s] = call[t].id] /\ mutex' = mutex \ {t}
      BY DEF Store
    <2>4. ~ last => done' = done /\ mutex' = mutex
      BY DEF Store
    <2> QED
      BY <2>1, <2>2, <2>3, <2>4
  <1>2. /\ received' \in [Sources -> BOOLEAN]
        /\ received["odom"] \/ received["amcl_pose"] =>
              received'["odom"] \/ received'["amcl_pose"]
        /\ received["amcl_pose"] => received'["amcl_pose"]
    <2>1. CASE x = "received"
      <3>1. received' = [received EXCEPT ![s] = TRUE]
        BY <2>1 DEF Store
      <3> QED
        BY <1>1, <3>1, Zenon DEF Data, DataTypes, Sources
    <2>2. CASE x # "received"
      BY <2>2 DEF Store, Data, DataTypes
    <2> QED
      BY <2>1, <2>2
  <1>3. call[t] \in Calls
    BY DEF Data, DataTypes
  <1>4. /\ call[t].id \in Messages /\ call[t].todo \subseteq Stores
        /\ call[t].id \in Nat /\ nMessages \in Nat
        /\ \A r \in Sources : done[r] \in Nat /\ since[r] \in Nat
              /\ \A f \in Fields : stored[r][f] \in Nat
    BY <1>3, BoundsAssumption DEF Data, DataTypes, Calls, Messages
  <1>5. /\ stored' \in [Sources -> [Fields -> Messages]]
        /\ \A r \in Sources : \A f \in Fields :
              stored'[r][f] = IF r = s /\ f = x THEN call[t].id ELSE stored[r][f]
    <2>1. CASE x = "received"
      <3>1. stored' = stored /\ x \notin Fields
        BY <2>1 DEF Store, Fields
      <3> QED
        BY <3>1 DEF Data, DataTypes
    <2>2. CASE x # "received"
      <3>1. stored' = [stored EXCEPT ![s][x] = call[t].id] /\ x \in Fields
        BY <2>2 DEF Store, Stores
      <3> QED
        BY <1>1, <1>4, <3>1 DEF Data, DataTypes
    <2> QED
      BY <2>1, <2>2
  <1>6. /\ c \in Calls
        /\ last => c = NoCall
        /\ ~ last => c.do = s /\ c.at = "copy" /\ c.id = call[t].id
                     /\ c.todo = call[t].todo \ {x}
    <2>1. NoCall \in Calls
      BY BoundsAssumption DEF NoCall, Calls, Messages
    <2>2. [call[t] EXCEPT !.todo = @ \ {x}] \in Calls
      BY <1>3, <1>4 DEF Calls
    <2> QED
      BY <1>1, <1>3, <2>1, <2>2 DEF Calls
  <1>7. /\ call' \in [Threads -> Calls] /\ call'[t] = c
        /\ \A u \in Threads \ {t} : call'[u] = call[u]
    BY <1>1, <1>6, CallIs
  <1>8. last => \A f \in Fields : stored'[s][f] = call[t].id
    <2>1. ASSUME last, NEW f \in Fields PROVE stored'[s][f] = call[t].id
      <3>1. CASE f = x
        BY <1>1, <1>5, <3>1
      <3>2. CASE f # x
        <4>1. f \notin call[t].todo
          BY <2>1, <3>2
        <4> QED
          BY <1>1, <1>5, <3>2, <4>1 DEF Data, Numbers
      <3> QED
        BY <3>1, <3>2
    <2> QED
      BY <2>1
  <1> HIDE DEF c, s, last
  <1>9. DataTypes'
    <2>1. done' \in [Sources -> Messages]
      BY <1>1, <1>4 DEF Data, DataTypes
    <2>2. mutex' \in {{}} \cup {{u} : u \in Threads}
      BY <1>1 DEF Data, DataTypes
    <2> QED
      BY <1>1, <1>2, <1>5, <1>7, <2>1, <2>2 DEF Data, DataTypes
  <1>10. Places'
    <2>1. /\ s \in {"odom", "amcl_pose"} \/ s = "lidar_fusion_pcl"
          /\ c = NoCall \/ (c.do = s /\ c.at = "copy")
      BY <1>1, <1>6 DEF Sources
    <2>2. ASSUME NEW u \in Threads
          PROVE  /\ call'[u].do = "none" => call'[u] = NoCall
                 /\ call'[u].do \in {"odom", "amcl_pose"} => call'[u].at = "copy"
                 /\ call'[u].do = "lidar_fusion_pcl" => call'[u].at \in {"lock", "copy"}
                 /\ call'[u].do \in {"Position", "PointCloud"} => u = "server"
                 /\ call'[u].do = "Position" => call'[u].at \in {"odom", "amcl_pose", "answer"}
                 /\ call'[u].do = "PointCloud" => call'[u].at \in {"lock", "cloud", "answer"}
                 /\ call'[u].do \in Sources => call'[u].do = call[u].do
      <3>1. CASE u = t
        BY <1>7, <2>1, <3>1 DEF NoCall, Sources, s
      <3>2. CASE u # t
        BY <1>7, <3>2 DEF Data, Places
      <3> QED
        BY <3>1, <3>2
    <2> QED
      BY <2>2 DEF Data, Places
  <1>11. Numbers'
    <2>1. /\ \A r \in Sources : done'[r] = IF last /\ r = s THEN call[t].id ELSE done[r]
          /\ call[t].id <= nMessages
          /\ \A f \in Fields : stored[s][f] <= call[t].id
      BY <1>1, <1>4 DEF Data, DataTypes, Numbers, s
    <2>2. ASSUME NEW r \in Sources, NEW f \in Fields
          PROVE  done'[r] <= stored'[r][f] /\ stored'[r][f] <= nMessages'
      BY <1>1, <1>4, <1>5, <1>8, <2>1 DEF Data, Numbers
    <2>3. ASSUME NEW u \in Threads, call'[u].do \in Sources
          PROVE  /\ call'[u].id <= nMessages'
                 /\ \A f \in Fields :
                    /\ stored'[call'[u].do][f] <= call'[u].id
                    /\ f \notin call'[u].todo => stored'[call'[u].do][f] = call'[u].id
      <3>1. CASE u = t
        <4>1. ~ last
          BY <1>6, <1>7, <2>3, <3>1 DEF NoCall, Sources
        <4> QED
          BY <1>1, <1>4, <1>5, <1>6, <1>7, <2>1, <3>1, <4>1 DEF Data, Numbers, s
      <3>2. CASE u # t
        <4>1. call'[u] = call[u] /\ call[u].do # s
          BY <1>1, <1>7, <2>3, <3>2 DEF Data, Places, s
        <4> QED
          BY <1>1, <1>5, <2>3, <4>1 DEF Data, Numbers
      <3> QED
        BY <3>1, <3>2
    <2>4. ASSUME NEW r \in Sources PROVE since'[r] <= done'[r]
      <3>1. done[s] <= call[t].id
        <4>1. "stamp" \in Fields
          BY DEF Fields
        <4> QED
          BY <1>1, <1>4, <2>1, <4>1 DEF Data, Numbers
      <3> QED
        BY <1>1, <1>4, <2>1, <3>1 DEF Data, Numbers
    <2> QED
      BY <2>2, <2>3, <2>4 DEF Numbers
  <1>12. Pose'
    BY <1>1, <1>2, <1>6, <1>7, ThreadsAssumption DEF Data, Pose, Sources, NoCall, s
  <1>13. Cloud'
    <2>1. \A u \in Threads : u # t \/ ~ last => (CloudAt(u)' <=> CloudAt(u))
      BY <1>1, <1>6, <1>7 DEF CloudAt, s
    <2>2. last => ~ CloudAt(t)' /\ mutex' = mutex \ {t}
      BY <1>1, <1>6, <1>7 DEF CloudAt, NoCall
    <2>3. ASSUME NEW u \in Threads PROVE u \in mutex' <=> CloudAt(u)'
      BY <1>1, <2>1, <2>2 DEF Data, Cloud
    <2>4. "lidar_fusion_pcl" \in Sources /\ Fields = {"stamp", "body"}
      BY DEF Sources, Fields
    <2>5. CASE s = "lidar_fusion_pcl"
      <3>1. CloudAt(t)
        BY <1>1, <2>5 DEF CloudAt, s
      <3>2. ~ CloudAt("server") \/ t = "server"
        BY <3>1, ThreadsAssumption DEF Data, DataTypes, Cloud
      <3>3. call["server"].at # "cloud" /\ call'["server"].at # "cloud"
        BY <1>1, <1>6, <1>7, <3>2, ThreadsAssumption DEF CloudAt, NoCall
      <3>4. CASE last
        BY <1>1, <1>6, <1>7, <1>8, <2>3, <2>4, <2>5, <3>3, <3>4, ThreadsAssumption
        DEF Data, Cloud, NoCall
      <3>5. CASE ~ last
        BY <1>1, <1>6, <1>7, <2>3, <2>5, <3>3, <3>5, ThreadsAssumption
        DEF Data, Cloud
      <3> QED
        BY <3>4, <3>5
    <2>6. CASE s # "lidar_fusion_pcl"
      <3>1. /\ stored'["lidar_fusion_pcl"].stamp = stored["lidar_fusion_pcl"].stamp
            /\ stored'["lidar_fusion_pcl"].body = stored["lidar_fusion_pcl"].body
        BY <1>5, <2>4, <2>6
      <3>2. \A u \in Threads :
                call'[u].do = "lidar_fusion_pcl" /\ call'[u].at = "copy"
                <=> call[u].do = "lidar_fusion_pcl" /\ call[u].at = "copy"
        BY <1>6, <1>7, <2>6 DEF NoCall, s
      <3>3. \/ call'["server"] = call["server"]
            \/ call'["server"].at # "cloud" /\ call'["server"].do # "PointCloud"
        BY <1>1, <1>6, <1>7, <2>4, ThreadsAssumption DEF NoCall, Sources
      <3> QED
        BY <1>1, <2>3, <2>4, <3>1, <3>2, <3>3 DEF Data, Cloud
    <2> QED
      BY <2>5, <2>6
  <1> QED
    BY <1>9, <1>10, <1>11, <1>12, <1>13 DEF Data

LEMMA ReadPoseData ==
  ASSUME Data, NEW f \in Fields, ReadPose(f)
  PROVE  Data'
  <1> DEFINE old == call["server"]
             s == old.at
             c == [old EXCEPT !.todo = @ \ {f}]
  <1>1. /\ s \in {"odom", "amcl_pose"} /\ f \in old.todo
        /\ f = "stamp" => "body" \notin old.todo
        /\ f = "body" => received[s]
        /\ reply' = [reply EXCEPT !.from = s, ![f] = stored[s][f]]
        /\ call' = [call EXCEPT !["server"] = c]
        /\ stored' = stored /\ received' = received /\ mutex' = mutex
        /\ nMessages' = nMessages /\ done' = done /\ since' = since
    BY DEF ReadPose, Read, dataVars
  <1>2. "server" \in Threads /\ old \in Calls /\ s \in Sources
        /\ Fields = {"stamp", "body"}
    BY <1>1, ThreadsAssumption DEF Data, DataTypes, Sources, Fields
  <1>3. /\ c \in Calls /\ c.do = old.do /\ c.at = s
        /\ c.id = old.id /\ c.todo = old.todo \ {f}
    BY <1>2 DEF Calls
  <1>4. call' \in [Threads -> Calls] /\ call'["server"] = c
        /\ \A u \in Threads \ {"server"} : call'[u] = call[u]
    <2> HIDE DEF c
    <2> QED
      BY <1>1, <1>2, <1>3, CallIs
  <1>5. old.do = "Position"
    BY <1>1, <1>2 DEF Data, Places, Sources, NoCall, Calls
  <1>6. \A g \in Fields : stored[s][g] >= since[s] /\ stored[s][g] \in Messages
    BY <1>2, BoundsAssumption DEF Data, DataTypes, Numbers, Messages
  <1>7. /\ reply' \in [from : {"none"} \cup Sources, stamp : Messages, body : Messages]
        /\ reply'.from = s /\ reply'[f] = stored[s][f]
        /\ \A g \in Fields \ {f} : reply'[g] = reply[g]
    <2>1. CASE f = "stamp"
      BY <1>1, <1>2, <1>6, <2>1 DEF Data, DataTypes
    <2>2. CASE f = "body"
      BY <1>1, <1>2, <1>6, <2>2 DEF Data, DataTypes
    <2> QED
      BY <1>2, <2>1, <2>2
  <1> HIDE DEF c, s, old
  <1>8. DataTypes'
    BY <1>1, <1>4, <1>7 DEF Data, DataTypes
  <1>9. Places'
    BY <1>1, <1>3, <1>4, <1>5 DEF Data, Places, Sources, old
  <1>10. Numbers'
    BY <1>1, <1>3, <1>4, <1>5 DEF Data, Numbers, Sources, old
  <1>11. Pose'
    <2>1. /\ f = "body" => c.todo = Fields \ {f}
          /\ f = "stamp" => c.todo = {}
      BY <1>1, <1>2, <1>3 DEF Data, Pose, s, old
    <2>2. \A g \in Fields \ c.todo : reply'[g] >= since[s]
      BY <1>1, <1>2, <1>3, <1>6, <1>7 DEF Data, Pose, s, old
    <2> QED
      BY <1>1, <1>2, <1>3, <1>4, <1>5, <1>7, <2>1, <2>2 DEF Pose, Sources
  <1>12. Cloud'
    BY <1>1, <1>2, <1>3, <1>4, <1>5 DEF Data, Cloud, CloudAt, s, old
  <1> QED
    BY <1>8, <1>9, <1>10, <1>11, <1>12 DEF Data

LEMMA NextPoseData ==
  ASSUME Data, NextPose
  PROVE  Data'
  <1> DEFINE old == call["server"]
             s == old.at
             c == [old EXCEPT !.at = IF s = "odom" THEN "amcl_pose" ELSE "answer",
                              !.todo = IF s = "odom" THEN Fields ELSE {}]
  <1>1. /\ s \in {"odom", "amcl_pose"}
        /\ old.todo # {} => old.todo = Fields /\ ~ received[s]
        /\ stored' = stored /\ received' = received /\ mutex' = mutex
        /\ nMessages' = nMessages /\ done' = done /\ since' = since
        /\ reply' = reply
    BY DEF NextPose, dataVars
  <1>2. "server" \in Threads /\ old \in Calls /\ s \in Sources
        /\ Fields = {"stamp", "body"}
    BY <1>1, ThreadsAssumption DEF Data, DataTypes, Sources, Fields
  <1>3. call' = [call EXCEPT !["server"] = c]
    BY <1>2 DEF NextPose, Data, DataTypes
  <1>4. /\ c \in Calls /\ c.do = old.do /\ c.id = old.id
        /\ s = "odom" => c.at = "amcl_pose" /\ c.todo = Fields
        /\ s = "amcl_pose" => c.at = "answer" /\ c.todo = {}
    BY <1>1, <1>2 DEF Calls, Stores
  <1>5. call' \in [Threads -> Calls] /\ call'["server"] = c
        /\ \A u \in Threads \ {"server"} : call'[u] = call[u]
    <2> HIDE DEF c
    <2> QED
      BY <1>2, <1>3, <1>4, CallIs
  <1>6. old.do = "Position"
    BY <1>1, <1>2 DEF Data, Places, Sources, NoCall, Calls
  <1> HIDE DEF c, s, old
  <1>7. DataTypes'
    BY <1>1, <1>5 DEF Data, DataTypes
  <1>8. Places'
    BY <1>1, <1>4, <1>5, <1>6 DEF Data, Places, Sources, old
  <1>9. Numbers'
    BY <1>1, <1>4, <1>5, <1>6 DEF Data, Numbers, Sources, old
  <1>10. Pose'
    <2>1. CASE s = "odom"
      BY <1>1, <1>2, <1>4, <1>5, <1>6, <2>1 DEF Data, Pose, s, old
    <2>2. CASE s = "amcl_pose"
      BY <1>1, <1>2, <1>4, <1>5, <1>6, <2>2 DEF Data, DataTypes, Pose, Sources, s, old
    <2> QED
      BY <1>1, <2>1, <2>2
  <1>11. Cloud'
    BY <1>1, <1>2, <1>4, <1>5, <1>6 DEF Data, Cloud, CloudAt, s, old
  <1> QED
    BY <1>7, <1>8, <1>9, <1>10, <1>11 DEF Data

LEMMA ReadLockData ==
  ASSUME Data, ReadLock
  PROVE  Data'
  <1> DEFINE old == call["server"]
             pcl == received["lidar_fusion_pcl"]
             c == IF pcl THEN [old EXCEPT !.at = "cloud"] ELSE NoCall
  <1>1. /\ old.do = "PointCloud" /\ old.at = "lock" /\ mutex = {}
        /\ stored' = stored /\ received' = received /\ nMessages' = nMessages
        /\ done' = done /\ since' = since /\ reply' = reply
    BY DEF ReadLock
  <1>2. "server" \in Threads /\ old \in Calls /\ NoCall \in Calls
        /\ Fields = {"stamp", "body"}
    BY ThreadsAssumption, BoundsAssumption
    DEF Data, DataTypes, Fields, NoCall, Calls, Messages
  <1>3. call' = [call EXCEPT !["server"] = c]
        /\ (pcl => mutex' = {"server"}) /\ (~ pcl => mutex' = {})
    BY <1>1, <1>2 DEF ReadLock, Data, DataTypes
  <1>4. /\ c \in Calls
        /\ pcl => c.do = "PointCloud" /\ c.at = "cloud" /\ c.id = old.id /\ c.todo = old.todo
        /\ ~ pcl => c = NoCall
    BY <1>1, <1>2 DEF Calls
  <1>5. call' \in [Threads -> Calls] /\ call'["server"] = c
        /\ \A u \in Threads \ {"server"} : call'[u] = call[u]
    <2> HIDE DEF c
    <2> QED
      BY <1>2, <1>3, <1>4, CallIs
  <1> HIDE DEF c, pcl, old
  <1>6. DataTypes'
    BY <1>1, <1>2, <1>3, <1>5 DEF Data, DataTypes
  <1>7. Places'
    BY <1>1, <1>4, <1>5 DEF Data, Places, Sources, NoCall, old
  <1>8. Numbers'
    BY <1>1, <1>4, <1>5 DEF Data, Numbers, Sources, NoCall, old
  <1>9. Pose'
    <2>1. reply = NoReply
      BY <1>1 DEF Data, Pose, old
    <2> QED
      BY <1>1, <1>2, <1>4, <1>5, <2>1 DEF Data, Pose, NoReply, NoCall, old
  <1>10. Cloud'
    BY <1>1, <1>2, <1>3, <1>4, <1>5 DEF Data, Cloud, CloudAt, NoCall, old
  <1> QED
    BY <1>6, <1>7, <1>8, <1>9, <1>10 DEF Data

LEMMA ReadCloudData ==
  ASSUME Data, NEW f \in Fields, ReadCloud(f)
  PROVE  Data'
  <1> DEFINE old == call["server"]
             last == old.todo = {f}
             s == "lidar_fusion_pcl"
             c == [old EXCEPT !.todo = @ \ {f}, !.at = IF last THEN "answer" ELSE @]
  <1>1. /\ old.at = "cloud" /\ f \in old.todo
        /\ reply' = [reply EXCEPT !.from = s, ![f] = stored[s][f]]
        /\ last => mutex' = {}
        /\ ~ last => mutex' = mutex
        /\ stored' = stored /\ received' = received /\ nMessages' = nMessages
        /\ done' = done /\ since' = since
    BY DEF ReadCloud, Read
  <1>2. "server" \in Threads /\ old \in Calls /\ s \in Sources
        /\ Fields = {"stamp", "body"}
    BY ThreadsAssumption DEF Data, DataTypes, Sources, Fields
  <1>3. call' = [call EXCEPT !["server"] = c]
    BY <1>2 DEF ReadCloud, Data, DataTypes
  <1>4. /\ c \in Calls /\ c.do = old.do /\ c.id = old.id
        /\ c.todo = old.todo \ {f}
        /\ c.at = IF last THEN "answer" ELSE "cloud"
    BY <1>1, <1>2 DEF Calls
  <1>5. call' \in [Threads -> Calls] /\ call'["server"] = c
        /\ \A u \in Threads \ {"server"} : call'[u] = call[u]
    <2> HIDE DEF c
    <2> QED
      BY <1>2, <1>3, <1>4, CallIs
  <1>6. old.do = "PointCloud"
    BY <1>1, <1>2 DEF Data, Places, Sources, NoCall, Calls
  <1>7. \A g \in Fields : stored[s][g] \in Messages /\ stored[s][g] >= since[s]
    BY <1>2, BoundsAssumption DEF Data, DataTypes, Numbers, Messages
  <1>8. /\ reply' \in [from : {"none"} \cup Sources, stamp : Messages, body : Messages]
        /\ reply'.from = s /\ reply'[f] = stored[s][f]
        /\ \A g \in Fields \ {f} : reply'[g] = reply[g]
    <2>1. CASE f = "stamp"
      BY <1>1, <1>2, <1>7, <2>1 DEF Data, DataTypes
    <2>2. CASE f = "body"
      BY <1>1, <1>2, <1>7, <2>2 DEF Data, DataTypes
    <2> QED
      BY <1>2, <2>1, <2>2
  <1>9. \A t \in Threads \ {"server"} : ~ CloudAt(t)
    BY <1>1, <1>2 DEF Data, DataTypes, Cloud, CloudAt
  <1> HIDE DEF c, old, last
  <1>10. DataTypes'
    BY <1>1, <1>5, <1>8 DEF Data, DataTypes
  <1>11. Places'
    BY <1>1, <1>4, <1>5, <1>6 DEF Data, Places, Sources, old
  <1>12. Numbers'
    BY <1>1, <1>4, <1>5, <1>6 DEF Data, Numbers, Sources, old
  <1>13. Pose'
    BY <1>1, <1>2, <1>4, <1>5, <1>6, <1>8 DEF Pose
  <1>14. Cloud'
    <2>1. \A t \in Threads : t \in mutex' <=> CloudAt(t)'
      <3>1. \A t \in Threads : CloudAt(t)' <=> t = "server" /\ ~ last
        BY <1>4, <1>5, <1>6, <1>9 DEF CloudAt
      <3>2. mutex = {"server"}
        BY <1>1, <1>2 DEF Data, DataTypes, Cloud, CloudAt, old
      <3> QED
        BY <1>1, <3>1, <3>2
    <2>2. stored[s].stamp = stored[s].body
      BY <1>6, <1>9 DEF Data, Cloud, CloudAt, old
    <2>3. \A g \in Fields \ c.todo : reply'[g] = stored[s][g]
      BY <1>1, <1>4, <1>8 DEF Data, Cloud, old
    <2>4. last => c.todo = {}
      BY <1>4 DEF last
    <2> QED
      BY <1>1, <1>2, <1>4, <1>5, <1>6, <1>7, <2>1, <2>2, <2>3, <2>4 DEF Cloud
  <1> QED
    BY <1>10, <1>11, <1>12, <1>13, <1>14 DEF Data

LEMMA AnswerData ==
  ASSUME Data, Answer
  PROVE  Data'
  <1>1. /\ call["server"].at = "answer" /\ call' = [call EXCEPT !["server"] = NoCall]
        /\ reply' = NoReply /\ since' = [r \in Sources |-> 0]
        /\ stored' = stored /\ received' = received /\ mutex' = mutex
        /\ nMessages' = nMessages /\ done' = done
    BY DEF Answer, dataVars
  <1>2. "server" \in Threads /\ NoCall \in Calls /\ 0 \in Messages
    BY ThreadsAssumption, BoundsAssumption DEF NoCall, Calls, Messages
  <1>3. call' \in [Threads -> Calls] /\ call'["server"] = NoCall
        /\ \A u \in Threads \ {"server"} : call'[u] = call[u]
    BY <1>1, <1>2, CallIs
  <1>4. DataTypes'
    BY <1>1, <1>2, <1>3 DEF Data, DataTypes, NoReply
  <1>5. Places'
    BY <1>1, <1>3 DEF Data, Places, Sources, NoCall
  <1>6. Numbers'
    <2>1. \A r \in Sources : since'[r] = 0 /\ done[r] \in Nat
      BY <1>1, BoundsAssumption DEF Data, DataTypes, Messages
    <2> QED
      BY <1>1, <1>3, <2>1 DEF Data, Numbers, Sources, NoCall
  <1>7. Pose'
    BY <1>1, <1>3 DEF Pose, NoCall
  <1>8. Cloud'
    BY <1>1, <1>2, <1>3 DEF Data, Cloud, CloudAt, NoCall
  <1> QED
    BY <1>4, <1>5, <1>6, <1>7, <1>8 DEF Data

LEMMA DataNext == Data /\ [Next]_vars => Data'
  <1> SUFFICES ASSUME Data, [Next]_vars PROVE Data'
    OBVIOUS
  <1>1. CASE UNCHANGED vars
    BY <1>1, DataKept DEF vars
  <1>2. ASSUME NEW t \in Threads, MotionStep(t) PROVE Data'
    BY <1>2, DataKept
    DEF MotionStep, SetGait, Publish, SpinAgain, ClearCostmap, Finish
  <1>3. ASSUME NEW t \in Threads, CallbackStep(t) PROVE Data'
    BY <1>3, LockCloudData, StoreData DEF CallbackStep
  <1>4. ASSUME NEW t \in Threads, NEW by \in {"request", "stair"},
               NEW k \in Gaits, Begin(t, by, k)
        PROVE  Data'
    BY <1>4, DataKept DEF Begin
  <1>5. ASSUME NEW t \in Threads, NEW s \in Sources, Receive(t, s) PROVE Data'
    BY <1>5, ReceiveData
  <1>6. ASSUME NEW do \in {"Position", "PointCloud"}, Request(do) PROVE Data'
    BY <1>6, RequestData
  <1>7. CASE RequestStep
    BY <1>7, ReadPoseData, ReadCloudData, NextPoseData, ReadLockData, AnswerData
    DEF RequestStep
  <1> QED
    BY <1>1, <1>2, <1>3, <1>4, <1>5, <1>6, <1>7 DEF Next

LEMMA DataHolds == Spec => []Data
  BY DataInit, DataNext, PTL DEF Spec

\* A point cloud that is answered is one whole message, and no older than
\* the last one stored when the request came (ex_client.cpp:651, :683).
THEOREM WholeCloud == Spec => []CloudIsWhole
  <1>1. Data => CloudIsWhole
    BY DEF Data, Cloud, CloudIsWhole, Answered
  <1> QED
    BY DataHolds, <1>1, PTL

\* A position that is answered is no older than the last pose stored when
\* the request came, though its header and its body may be of two messages
\* (ex_client.cpp:376-420, :624-632).
THEOREM FreshPosition == Spec => []PositionIsFresh
  <1>1. Data => PositionIsFresh
    BY DEF Data, Pose, PositionIsFresh, Answered, Fields
  <1> QED
    BY DataHolds, <1>1, PTL

\* Every variable keeps its type (ex_client.h).
THEOREM TypeCorrect == Spec => []TypeOK
  <1>1. Lone /\ Data => TypeOK
    <2> SUFFICES ASSUME Lone, Data PROVE TypeOK
      OBVIOUS
    <2>1. gait \in Motions /\ filter \in Motions
      BY BoundsAssumption DEF Lone, Typed, Motions
    <2> QED
      BY <2>1 DEF Lone, Typed, Data, DataTypes, TypeOK
  <1>2. Spec => []Lone
    BY LoneInit, LoneNext, PTL DEF Spec
  <1> QED
    BY <1>1, <1>2, DataHolds, PTL

=============================================================================
