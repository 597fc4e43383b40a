------------------------------ MODULE MapChange ------------------------------
(***************************************************************************)
(* Changing the map: ExClient::HandleMapChange and the file that remembers *)
(* the map over a restart (FileStorage).  HandleMapChange runs in three    *)
(* threads: main, for the saved map, before the other two exist; srv, for  *)
(* an operator; exec, for a task that switches the map.  Nothing orders    *)
(* srv and exec, who share the two service clients and the file.           *)
(*                                                                         *)
(* External: the localization service map_switch_service and the           *)
(* navigation service change_map, each with the map it has loaded, and the *)
(* persistent connections of ros::ServiceClient to them: made with the     *)
(* client, or by its first call if the service was down, and broken for    *)
(* good once they break.                                                   *)
(***************************************************************************)
EXTENDS Naturals

CONSTANTS
    Maps,      \* the paths of maps
    Default,   \* the path FileStorage writes into a new file
    Length,    \* the length of each path
    Handlers,  \* srv and exec
    MaxFaults  \* bound: connections that break and services that go down

ASSUME MapsAssumption == Default \in Maps /\ Length \in [Maps -> Nat \ {0}]
ASSUME ThreadsAssumption == "main" \notin Handlers
ASSUME FaultsAssumption == MaxFaults \in Nat

Threads  == {"main"} \cup Handlers
Services == {"loc", "nav"}

Empty   == "empty"     \* the content of a truncated file
Garbled == "garbled"   \* parts of two paths
NoMap   == "no map"    \* what a service that starts has loaded

Contents == Maps \cup {Empty, Garbled}

VARIABLES
    pc,         \* where a thread is in HandleMapChange
    path,       \* the map it changes to
    result,     \* what each service answered: see Results
    tries,      \* calls of the current service so far
    up,         \* the services that exist
    loaded,     \* the map each has loaded
    link,       \* the client of each: see Usable
    file,       \* config.txt
    confirmed,  \* the maps a service has answered success for
    alone,      \* threads whose change nothing has disturbed
    spoilt,     \* a crash cut the last write of the file, or two overlapped
    faults      \* connections that broke and services that went down

changes  == <<pc, path, result, tries>>
services == <<up, loaded, link, faults>>
ghost    == <<confirmed, alone, spoilt>>
vars     == <<changes, services, file, ghost>>

\* No success; a success that set loc_success or nav_success; a success in the
\* response of a repeated call, which the code does not look at.
Results == {"none", "success", "unread"}

NoResult == [s \in Services |-> "none"]

Pcs == {"boot", "idle", "loc", "locWait", "locCall", "nav", "navCall", "judge",
        "save", "write"}

\* The type invariant.
TypeOK ==
    /\ pc \in [Threads -> Pcs]
    /\ path \in [Threads -> Maps \cup {Garbled}]
    /\ result \in [Threads -> [Services -> Results]]
    /\ tries \in [Threads -> 0..2]
    /\ up \in [Services -> BOOLEAN]
    /\ loaded \in [Services -> Maps \cup {NoMap}]
    /\ link \in [Services -> {"fresh", "open", "broken", "mistyped"}]
    /\ file \in Contents
    /\ confirmed \subseteq Maps
    /\ alone \subseteq Threads /\ spoilt \in BOOLEAN
    /\ faults \in 0..MaxFaults

Start == [t \in Threads |-> IF t = "main" THEN "boot" ELSE "idle"]

\* A client as it is made.
NewLink(s) == IF up[s] THEN "open" ELSE "fresh"

Init ==
    /\ pc = Start
    /\ path = [t \in Threads |-> Default]
    /\ result = [t \in Threads |-> NoResult]
    /\ tries = [t \in Threads |-> 0]
    /\ up \in [Services -> BOOLEAN]
    /\ loaded = [s \in Services |-> NoMap]
    /\ link = [s \in Services |-> NewLink(s)]
    /\ faults = 0
    /\ file = Default /\ confirmed = {Default}
    /\ alone = {} /\ spoilt = FALSE

-----------------------------------------------------------------------------
(* The beginning of a change.                                              *)

Goto(t, p) == pc' = [pc EXCEPT ![t] = p]

Changing(t) == pc[t] \notin {"boot", "idle"}

Change(t, m) ==
    /\ Goto(t, "loc")
    /\ path' = [path EXCEPT ![t] = m]
    /\ alone' = IF \E u \in Threads : Changing(u) THEN {} ELSE {t}
    /\ UNCHANGED <<result, tries, services, file, confirmed, spoilt>>

\* HandleMapChange returns: its locals are gone.
Return(t) ==
    /\ Goto(t, "idle")
    /\ path' = [path EXCEPT ![t] = Default]
    /\ result' = [result EXCEPT ![t] = NoResult]
    /\ alone' = alone \ {t}
    /\ UNCHANGED <<tries, services, confirmed>>

\* ExClient::Start reads the saved map; the other threads start after it.
Boot ==
    /\ pc["main"] = "boot"
    /\ IF file = Empty
          THEN Goto("main", "idle")
               /\ UNCHANGED <<path, result, tries, services, file, ghost>>
          ELSE Change("main", file)

\* A MapChange request of an operator or of a task.
Request(t, m) ==
    /\ t # "main" /\ pc["main"] = "idle" /\ pc[t] = "idle"
    /\ Change(t, m)

-----------------------------------------------------------------------------
(* The calls of the two services.                                          *)

Next1(s) == IF s = "loc" THEN "nav" ELSE "judge"
CallPc(s) == IF s = "loc" THEN "locCall" ELSE "navCall"

\* client.exists(), after which loc alone waits for the service.
Look(t, s) ==
    /\ pc[t] = s
    /\ Goto(t, CASE ~up[s] -> Next1(s)
                 [] up[s] /\ s = "loc" -> "locWait"
                 [] OTHER -> "navCall")
    /\ UNCHANGED <<path, result, tries, services, file, ghost>>

WaitForExistence(t) ==
    /\ pc[t] = "locWait" /\ up["loc"]
    /\ Goto(t, "locCall")
    /\ UNCHANGED <<path, result, tries, services, file, ghost>>

\* A client whose connection broke, or that was made for another service type,
\* fails at once.
Usable(s) == up[s] /\ link[s] \in {"fresh", "open"}

Load(t, s) == path[t] \in Maps /\ loaded' = [loaded EXCEPT ![s] = path[t]]

\* Only the answer to the first call is looked at.
Read(t) == IF tries[t] = 0 THEN "success" ELSE "unread"

\* Mutant: a call that came through is a success, whatever was answered.
AnsweredUnread(t, s) ==
    /\ pc[t] = CallPc(s) /\ Usable(s)
    /\ link' = [link EXCEPT ![s] = "open"]
    /\ \/ Load(t, s) /\ confirmed' = confirmed \cup {path[t]}
       \/ UNCHANGED <<loaded, confirmed>>
    /\ result' = [result EXCEPT ![t][s] = Read(t)]
    /\ tries' = [tries EXCEPT ![t] = 0]
    /\ Goto(t, Next1(s))
    /\ UNCHANGED <<path, up, faults, file, alone, spoilt>>

\* The service answers that it has changed the map, or that it has not.
Answered(t, s) ==
    /\ pc[t] = CallPc(s) /\ Usable(s)
    /\ link' = [link EXCEPT ![s] = "open"]
    /\ \/ /\ Load(t, s)
          /\ result' = [result EXCEPT ![t][s] = Read(t)]
          /\ confirmed' = confirmed \cup {path[t]}
       \/ UNCHANGED <<loaded, result, confirmed>>
    /\ tries' = [tries EXCEPT ![t] = 0]
    /\ Goto(t, Next1(s))
    /\ UNCHANGED <<path, up, faults, file, alone, spoilt>>

\* Mutant: each client is made for the type of its service.
RecreatedTyped(s) == NewLink(s)

\* The client made after a second failure.  That of change_map is made for
\* the type of map_switch_service.
Recreated(s) == IF s = "loc" THEN NewLink(s) ELSE "mistyped"

\* Mutant: the calls are not counted.
RetryForEver(t, s, l) ==
    /\ link' = [link EXCEPT ![s] = IF tries[t] = 1 THEN Recreated(s) ELSE l]
    /\ tries' = [tries EXCEPT ![t] = tries[t] + 1]
    /\ Goto(t, CallPc(s))

\* A call that failed is made again, then again with a new client.
Retry(t, s, l) ==
    /\ link' = [link EXCEPT ![s] = IF tries[t] = 1 THEN Recreated(s) ELSE l]
    /\ tries' = [tries EXCEPT ![t] = (tries[t] + 1) % 3]
    /\ Goto(t, IF tries[t] = 2 THEN Next1(s) ELSE CallPc(s))

\* The client cannot reach the service.
Unreachable(t, s) ==
    /\ pc[t] = CallPc(s) /\ ~Usable(s)
    /\ Retry(t, s, link[s])
    /\ UNCHANGED <<path, result, up, loaded, faults, file, ghost>>

\* The connection breaks during the call, before or after the service acted.
Breaks(t, s) ==
    /\ pc[t] = CallPc(s) /\ Usable(s)
    /\ faults < MaxFaults /\ faults' = faults + 1
    /\ Load(t, s) \/ UNCHANGED loaded
    /\ Retry(t, s, "broken")
    /\ UNCHANGED <<path, result, up, file, ghost>>

-----------------------------------------------------------------------------
(* The end of a change.                                                    *)

\* Mutant: the map is saved whatever the services said.
JudgeSaves(t) ==
    /\ pc[t] = "judge"
    /\ Goto(t, "save")
    /\ UNCHANGED <<path, result, tries, services, file, ghost>>

Judge(t) ==
    /\ pc[t] = "judge"
    /\ IF \E s \in Services : result[t][s] = "success"
          THEN Goto(t, "save") /\ UNCHANGED <<path, result, tries, services, ghost>>
          ELSE Return(t) /\ UNCHANGED spoilt
    /\ UNCHANGED file

Writing == {t \in Threads : pc[t] = "write"}

\* FileStorage::Save: opening the file truncates it.
SaveOpen(t) ==
    /\ pc[t] = "save"
    /\ file' = Empty
    /\ Goto(t, "write")
    /\ spoilt' = (Writing # {})
    /\ UNCHANGED <<path, result, tries, services, confirmed, alone>>

\* The file cannot be opened; the answer is success all the same.
SaveFails(t) ==
    /\ pc[t] = "save"
    /\ Return(t)
    /\ UNCHANGED <<file, spoilt>>

\* Each writer writes from the beginning: what is longer shows behind it.
Overlay(new, old) ==
    IF old = Empty \/ (old \in Maps /\ new \in Maps /\ Length[new] >= Length[old])
       THEN new ELSE Garbled

SaveWrite(t) ==
    /\ pc[t] = "write"
    /\ file' = Overlay(path[t], file)
    /\ Return(t)
    /\ UNCHANGED spoilt

-----------------------------------------------------------------------------
(* Crashes of the program and restarts of the services.                    *)

Crash ==
    /\ pc["main"] # "boot"
    /\ pc' = Start
    /\ path' = [t \in Threads |-> Default]
    /\ result' = [t \in Threads |-> NoResult]
    /\ tries' = [t \in Threads |-> 0]
    /\ link' = [s \in Services |-> NewLink(s)]
    /\ spoilt' = (spoilt \/ Writing # {})
    /\ alone' = {}
    /\ UNCHANGED <<up, loaded, faults, file, confirmed>>

ServiceDown(s) ==
    /\ up[s]
    /\ faults < MaxFaults /\ faults' = faults + 1
    /\ up' = [up EXCEPT ![s] = FALSE]
    /\ loaded' = [loaded EXCEPT ![s] = NoMap]
    /\ link' = [link EXCEPT ![s] = IF link[s] = "open" THEN "broken" ELSE link[s]]
    /\ alone' = {}
    /\ UNCHANGED <<changes, file, confirmed, spoilt>>

ServiceUp(s) ==
    /\ ~up[s]
    /\ up' = [up EXCEPT ![s] = TRUE]
    /\ UNCHANGED <<changes, loaded, link, faults, file, ghost>>

-----------------------------------------------------------------------------
Step(t) ==
    \/ WaitForExistence(t) \/ Judge(t)
    \/ SaveOpen(t) \/ SaveFails(t) \/ SaveWrite(t)
    \/ \E s \in Services : Look(t, s) \/ Answered(t, s) \/ Unreachable(t, s)
                           \/ Breaks(t, s)

Next ==
    \/ Boot \/ Crash
    \/ \E t \in Threads : Step(t) \/ \E m \in Maps : Request(t, m)
    \/ \E s \in Services : ServiceDown(s) \/ ServiceUp(s)

Spec == Init /\ [][Next]_vars
-----------------------------------------------------------------------------
(* Properties.                                                             *)

\* The file holds the path of a map that a service has confirmed, unless it is
\* being written, or the last write of it was cut by a crash or overlapped
\* another: the next write that is left alone repairs it.
SavedMapIsConfirmed == file \in confirmed \/ Writing # {} \/ spoilt

\* A change that neither another change nor a restart of a service disturbed
\* counts a service as changed only if that service has loaded its map.
SuccessIsReal ==
    \A t \in alone, s \in Services :
        result[t][s] = "success" => loaded[s] = path[t]

\* A navigation service whose connection broke is not reached by the repeated
\* calls of the same change: the last of them goes through a client of the
\* wrong type, whatever happens meanwhile.
LastNavCallFails ==
    [][\A t \in Threads :
          pc[t] = "navCall" /\ tries[t] = 2 /\ pc'[t] = "judge" =>
             result'[t] = result[t]]_vars
=============================================================================
