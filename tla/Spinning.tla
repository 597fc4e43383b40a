------------------------------ MODULE Spinning ------------------------------
(***************************************************************************)
(* Who runs the callbacks of ExClient (ex_client.cpp).  The main thread    *)
(* spins in BridgeX::Run; the request server and the executor of the task  *)
(* manager spin too, between two publications of z_filter_min in           *)
(* HandleM20Motion, and so does a stair command, which is itself a         *)
(* callback.  So the poses and the point cloud are written by any of three *)
(* threads while the server reads them, and a motion can begin in the      *)
(* middle of another one.  The motion basic_std sets a gait and publishes  *)
(* no z_filter_min: the robot goes on with the filter it has.              *)
(*                                                                         *)
(* External: roscpp, which runs the callbacks of one subscription by one   *)
(* thread at a time, but lets that thread enter them again; and the        *)
(* motions that neither spin nor set a gait (M20Link).                     *)
(***************************************************************************)
EXTENDS Naturals, Sequences

CONSTANTS
    Threads,     \* "main", "server" and, with a task manager, "executor"
    Topics,      \* the subscriptions that have a publisher
    Rounds,      \* the publications of z_filter_min per motion (5 in the code)
    MaxMessages, \* bound: poses and clouds received
    MaxMotions   \* bound: motions begun

ASSUME ThreadsAssumption ==
    {"main", "server"} \subseteq Threads /\ Threads \subseteq {"main", "server", "executor"}
ASSUME TopicsAssumption == Topics \subseteq {"odom", "amcl_pose", "lidar_fusion_pcl"}
ASSUME RoundsAssumption == Rounds \in Nat \ {0}
ASSUME BoundsAssumption == MaxMessages \in Nat /\ MaxMotions \in Nat

Sources == {"odom", "amcl_pose", "lidar_fusion_pcl"}

\* The motions that set a gait; "basic" is basic_std.
Gaits == {"flat", "stair", "basic"}

\* What is copied of a message, and the flag that says there is one.
Fields == {"stamp", "body"}
Stores == Fields \cup {"received"}

Messages == 0..MaxMessages   \* 0: none yet
Motions == 0..MaxMotions

\* A callback of a topic or a request in work; it never spins.  "todo" are
\* the stores or the reads left.
Calls == [do : {"none", "Position", "PointCloud"} \cup Sources,
          at : {"lock", "copy", "odom", "amcl_pose", "cloud", "answer"},
          id : Messages, todo : SUBSET Stores]

NoCall == [do |-> "none", at |-> "lock", id |-> 0, todo |-> {}]

\* A motion in work, by a request (or an action of a task) or by the
\* callback of stair_motion.
Frames == [by : {"request", "stair"}, id : Motions,
           at : {"gait", "publish", "spin", "return"}, left : 0..Rounds]

VARIABLES
    motions,   \* of each thread, the motions it is in, the innermost last
    call,      \* of each thread, the call that runs on top of them
    kind,      \* what each motion asks for
    nMotions,  \* motions begun
    gait,      \* the motion whose gait the robot has
    filter,    \* the motion whose z_filter_min was published last
    mixed,     \* history: a motion overlapped another or lost its packet
    stored,    \* current_pose_loc_, current_pose_amcl_, current_pointcloud_
    received,  \* the flags of the three
    mutex,     \* the holder of pointcloud_mutex_
    nMessages, \* poses and clouds received
    done,      \* history: of each source, the last message stored completely
    since,     \* history: "done" when the request of the server began
    reply      \* the response it builds

spinVars == <<motions, kind, nMotions, gait, filter, mixed>>
dataVars == <<stored, received, mutex, nMessages, done>>
vars == <<spinVars, dataVars, call, since, reply>>

NoReply == [from |-> "none", stamp |-> 0, body |-> 0]

\* The type invariant.
TypeOK ==
    /\ motions \in [Threads -> Seq(Frames)]
    /\ call \in [Threads -> Calls]
    /\ kind \in [Motions -> {"none"} \cup Gaits]
    /\ nMotions \in Motions /\ gait \in Motions /\ filter \in Motions
    /\ mixed \in BOOLEAN
    /\ stored \in [Sources -> [Fields -> Messages]]
    /\ received \in [Sources -> BOOLEAN]
    /\ mutex \in {{}} \cup {{t} : t \in Threads}
    /\ nMessages \in Messages
    /\ done \in [Sources -> Messages] /\ since \in [Sources -> Messages]
    /\ reply \in [from : {"none"} \cup Sources,
                  stamp : Messages, body : Messages]

Init ==
    /\ motions = [t \in Threads |-> <<>>]
    /\ call = [t \in Threads |-> NoCall]
    /\ kind = [m \in Motions |-> "none"]
    /\ nMotions = 0 /\ gait = 0 /\ filter = 0 /\ mixed = FALSE
    /\ stored = [s \in Sources |-> [f \in Fields |-> 0]]
    /\ received = [s \in Sources |-> FALSE]
    /\ mutex = {} /\ nMessages = 0
    /\ done = [s \in Sources |-> 0] /\ since = [s \in Sources |-> 0]
    /\ reply = NoReply

-----------------------------------------------------------------------------
(* Motions.                                                                *)

Top(t) == motions[t][Len(motions[t])]

\* The thread runs its innermost motion, which is at this place.
In(t, at) == call[t] = NoCall /\ motions[t] # <<>> /\ Top(t).at = at

\* It is inside spinOnce.
Spins(t) == call[t] = NoCall /\ IF motions[t] = <<>> THEN t = "main"
                                                     ELSE Top(t).at = "spin"

GoTo(t, at, left) ==
    motions' = [motions EXCEPT ![t][Len(motions[t])].at = at,
                               ![t][Len(motions[t])].left = left]

NoMotion == \A t \in Threads : motions[t] = <<>>

\* roscpp: no other thread is in the callback of stair_motion.
StairFree(t) ==
    \A u \in Threads \ {t} : \A i \in DOMAIN motions[u] : motions[u][i].by # "stair"

\* HandleM20Motion begins, for a request, an action of a task or a stair
\* command; the robot is connected.
Begin(t, by, k) ==
    /\ nMotions < MaxMotions
    /\ IF by = "stair" THEN Spins(t) /\ StairFree(t)
       ELSE t # "main" /\ motions[t] = <<>> /\ call[t] = NoCall
    /\ nMotions' = nMotions + 1
    /\ kind' = [kind EXCEPT ![nMotions'] = k]
    /\ motions' = [motions EXCEPT ![t] =
            Append(@, [by |-> by, id |-> nMotions', at |-> "gait", left |-> Rounds])]
    /\ mixed' = ~ NoMotion
    /\ UNCHANGED <<gait, filter, dataVars, call, since, reply>>

\* setGait and the usage mode that goes with it; what they return does not stop
\* the motion.  basic_std has nothing else to do.
SetGait(t) ==
    /\ In(t, "gait")
    /\ \/ gait' = Top(t).id /\ UNCHANGED mixed
       \/ mixed' = TRUE /\ UNCHANGED gait
    /\ IF kind[Top(t).id] = "basic" THEN GoTo(t, "return", 0)
                                    ELSE GoTo(t, "publish", Top(t).left)
    /\ UNCHANGED <<kind, nMotions, filter, dataVars, call, since, reply>>

\* Mutant: the stair's publication is commented out like the one above it.
PublishFlatOnly(t) ==
    /\ In(t, "publish")
    /\ filter' = IF kind[Top(t).id] = "flat" THEN Top(t).id ELSE filter
    /\ GoTo(t, "spin", Top(t).left - 1)
    /\ UNCHANGED <<kind, nMotions, gait, mixed, dataVars, call, since, reply>>

\* publishZFilterMin: publish, spinOnce, sleep.
Publish(t) ==
    /\ In(t, "publish")
    /\ filter' = Top(t).id
    /\ GoTo(t, "spin", Top(t).left - 1)
    /\ UNCHANGED <<kind, nMotions, gait, mixed, dataVars, call, since, reply>>

SpinAgain(t) ==
    /\ In(t, "spin") /\ Top(t).left > 0
    /\ GoTo(t, "publish", Top(t).left)
    /\ UNCHANGED <<kind, nMotions, gait, filter, mixed, dataVars, call, since,
                   reply>>

\* The stair waits for clear_costmaps, which the model lets return.
ClearCostmap(t) ==
    /\ In(t, "spin") /\ Top(t).left = 0 /\ kind[Top(t).id] = "stair"
    /\ GoTo(t, "return", 0)
    /\ UNCHANGED <<kind, nMotions, gait, filter, mixed, dataVars, call, since,
                   reply>>

Finish(t) ==
    /\ \/ In(t, "return")
       \/ In(t, "spin") /\ Top(t).left = 0 /\ kind[Top(t).id] = "flat"
    /\ motions' = [motions EXCEPT ![t] = SubSeq(@, 1, Len(@) - 1)]
    /\ UNCHANGED <<kind, nMotions, gait, filter, mixed, dataVars, call, since,
                   reply>>

-----------------------------------------------------------------------------
(* LocCallback, AmclCallback and PointCloudCallback.                       *)

\* A thread that spins takes a message; only the cloud has a mutex.
Receive(t, s) ==
    /\ s \in Topics /\ Spins(t) /\ nMessages < MaxMessages
    /\ \A u \in Threads : call[u].do # s
    /\ nMessages' = nMessages + 1
    /\ call' = [call EXCEPT ![t] =
            [do |-> s, at |-> IF s = "lidar_fusion_pcl" THEN "lock" ELSE "copy",
             id |-> nMessages', todo |-> Stores]]
    /\ UNCHANGED <<spinVars, stored, received, mutex, done, since, reply>>

\* Mutant: the callback goes on without the mutex.
LockCloudNot(t) ==
    /\ call[t].do = "lidar_fusion_pcl" /\ call[t].at = "lock"
    /\ call' = [call EXCEPT ![t].at = "copy"]
    /\ UNCHANGED <<spinVars, dataVars, since, reply>>

LockCloud(t) ==
    /\ call[t].do = "lidar_fusion_pcl" /\ call[t].at = "lock"
    /\ mutex = {} /\ mutex' = {t}
    /\ call' = [call EXCEPT ![t].at = "copy"]
    /\ UNCHANGED <<spinVars, stored, received, nMessages, done, since, reply>>

\* Mutant: the header is not copied once there is a pose.
StoreBodyOnly(t, x) ==
    /\ call[t].do \in Sources /\ call[t].at = "copy" /\ x \in call[t].todo
    /\ LET s == call[t].do
           last == call[t].todo = {x} IN
        /\ IF x = "received"
           THEN received' = [received EXCEPT ![s] = TRUE] /\ UNCHANGED stored
           ELSE /\ stored' = IF x = "stamp" /\ received[s] THEN stored
                             ELSE [stored EXCEPT ![s][x] = call[t].id]
                /\ UNCHANGED received
        /\ done' = IF last THEN [done EXCEPT ![s] = call[t].id] ELSE done
        /\ call' = [call EXCEPT ![t] =
                IF last THEN NoCall ELSE [@ EXCEPT !.todo = call[t].todo \ {x}]]
        /\ mutex' = IF last THEN mutex \ {t} ELSE mutex
    /\ UNCHANGED <<spinVars, nMessages, since, reply>>

\* The stores of the copy and of the flag, which the build may order as it
\* likes; the last one releases the mutex.
Store(t, x) ==
    /\ call[t].do \in Sources /\ call[t].at = "copy" /\ x \in call[t].todo
    /\ LET s == call[t].do
           last == call[t].todo = {x} IN
        /\ IF x = "received"
           THEN received' = [received EXCEPT ![s] = TRUE] /\ UNCHANGED stored
           ELSE stored' = [stored EXCEPT ![s][x] = call[t].id] /\ UNCHANGED received
        /\ done' = IF last THEN [done EXCEPT ![s] = call[t].id] ELSE done
        /\ call' = [call EXCEPT ![t] =
                IF last THEN NoCall ELSE [@ EXCEPT !.todo = call[t].todo \ {x}]]
        /\ mutex' = IF last THEN mutex \ {t} ELSE mutex
    /\ UNCHANGED <<spinVars, nMessages, since, reply>>

-----------------------------------------------------------------------------
(* The requests of the server that read them.                              *)

Idle(t) == motions[t] = <<>> /\ call[t] = NoCall

\* HandlePosition, which answers an error if there is no pose at all, and
\* HandlePointCloud.
Request(do) ==
    /\ Idle("server")
    /\ do = "Position" => received["odom"] \/ received["amcl_pose"]
    /\ call' = [call EXCEPT !["server"] =
            [do |-> do, at |-> IF do = "Position" THEN "odom" ELSE "lock",
             id |-> 0, todo |-> Fields]]
    /\ since' = done
    /\ UNCHANGED <<spinVars, dataVars, reply>>

\* Reading one field of a source into the response.
Read(s, f) == [reply EXCEPT !.from = s, ![f] = stored[s][f]]

\* The first, then the second if () of HandlePosition; the fields of AMCL
\* overwrite those of the odometry.
ReadPose(f) ==
    /\ call["server"].at \in {"odom", "amcl_pose"}
    /\ f \in call["server"].todo
    /\ f = "body" => received[call["server"].at]
    /\ f = "stamp" => "body" \notin call["server"].todo
    /\ reply' = Read(call["server"].at, f)
    /\ call' = [call EXCEPT !["server"].todo = @ \ {f}]
    /\ UNCHANGED <<spinVars, dataVars, since>>

\* A source that is not there, or done with, leads on to the next.
NextPose ==
    /\ call["server"].at \in {"odom", "amcl_pose"}
    /\ LET s == call["server"].at IN
        /\ \/ call["server"].todo = {}
           \/ call["server"].todo = Fields /\ ~ received[s]
        /\ call' = [call EXCEPT
                !["server"].at = IF s = "odom" THEN "amcl_pose" ELSE "answer",
                !["server"].todo = IF s = "odom" THEN Fields ELSE {}]
    /\ UNCHANGED <<spinVars, dataVars, since, reply>>

\* std::lock_guard; without a cloud the answer is an error.
ReadLock ==
    /\ call["server"].do = "PointCloud" /\ call["server"].at = "lock"
    /\ mutex = {}
    /\ IF received["lidar_fusion_pcl"]
       THEN /\ mutex' = {"server"}
            /\ call' = [call EXCEPT !["server"].at = "cloud"]
       ELSE call' = [call EXCEPT !["server"] = NoCall] /\ UNCHANGED mutex
    /\ UNCHANGED <<spinVars, stored, received, nMessages, done, since, reply>>

ReadCloud(f) ==
    /\ call["server"].at = "cloud" /\ f \in call["server"].todo
    /\ reply' = Read("lidar_fusion_pcl", f)
    /\ LET last == call["server"].todo = {f} IN
        /\ call' = [call EXCEPT !["server"].todo = @ \ {f},
                               !["server"].at = IF last THEN "answer" ELSE @]
        /\ mutex' = IF last THEN {} ELSE mutex
    /\ UNCHANGED <<spinVars, stored, received, nMessages, done, since>>

\* response.dump().
Answer ==
    /\ call["server"].at = "answer"
    /\ call' = [call EXCEPT !["server"] = NoCall]
    /\ reply' = NoReply
    /\ since' = [s \in Sources |-> 0]
    /\ UNCHANGED <<spinVars, dataVars>>

-----------------------------------------------------------------------------
MotionStep(t) ==
    SetGait(t) \/ Publish(t) \/ SpinAgain(t) \/ ClearCostmap(t) \/ Finish(t)

CallbackStep(t) == LockCloud(t) \/ \E x \in Stores : Store(t, x)

RequestStep ==
    \/ \E f \in Fields : ReadPose(f) \/ ReadCloud(f)
    \/ NextPose \/ ReadLock \/ Answer

Next ==
    \/ \E t \in Threads :
        \/ MotionStep(t) \/ CallbackStep(t)
        \/ \E by \in {"request", "stair"}, k \in Gaits : Begin(t, by, k)
        \/ \E s \in Sources : Receive(t, s)
    \/ \E do \in {"Position", "PointCloud"} : Request(do)
    \/ RequestStep

Spec == Init /\ [][Next]_vars

-----------------------------------------------------------------------------
Answered(do) == call["server"].do = do /\ call["server"].at = "answer"

\* The robot's gait and the height filter of its map belong together: when
\* no motion is under way and the gait is that of a flat or a stair motion, the
\* filter is of the same kind, unless the last motions overlapped or a packet
\* was lost, and then the next such motion that runs alone puts it right
\* (ex_client.cpp:753-770).  After basic_std, which has no filter of its own,
\* the gait goes with whatever filter was published before (:771-774).
FilterFitsGait ==
    NoMotion /\ ~ mixed /\ nMotions > 0 /\ kind[gait] # "basic" =>
        kind[filter] = kind[gait]

\* A point cloud that is answered is one message, complete, and not older
\* than the last one stored when the request came (ex_client.cpp:651, :683).
CloudIsWhole ==
    Answered("PointCloud") =>
        /\ reply.stamp = reply.body
        /\ reply.stamp >= since["lidar_fusion_pcl"]

\* The poses have no mutex: a position that is answered may mix two
\* messages, but neither is older than the last complete one of its source
\* when the request came (ex_client.cpp:376-420, :624-632).
PositionIsFresh ==
    Answered("Position") =>
        reply.stamp >= since[reply.from] /\ reply.body >= since[reply.from]
=============================================================================
