--------------------------- MODULE MapChangeProofs ---------------------------
(***************************************************************************)
(* Theorems about the change of a map, for every set of maps, of threads   *)
(* and of faults.  Inv is the inductive invariant: TypeOK, what a thread   *)
(* knows about its own change, and who may write the file.                 *)
(***************************************************************************)
EXTENDS MapChange, TLAPS

\* A thread at rest has no result, a success is confirmed, and only the map
\* of a success is saved.
ChangesInv ==
    \A t \in Threads :
        /\ ~Changing(t) => result[t] = NoResult
        /\ \A s \in Services : result[t][s] = "success" => path[t] \in confirmed
        /\ pc[t] \in {"save", "write"} => path[t] \in confirmed

\* An undisturbed change runs alone.
AloneInv ==
    \A t \in alone : \A u \in Threads : u # t => ~Changing(u)

\* Unless writes overlapped or were cut: one writer at most, who found the
\* file truncated, and a confirmed map in the file when there is none.
FileInv ==
    \/ spoilt
    \/ /\ \A t, u \in Writing : t = u
       /\ Writing # {} => file = Empty
       /\ Writing = {} => file \in confirmed

Inv == TypeOK /\ ChangesInv /\ AloneInv /\ FileInv /\ SuccessIsReal

-----------------------------------------------------------------------------
LEMMA InvInit == Init => Inv
  <1> SUFFICES ASSUME Init PROVE Inv
    OBVIOUS
  <1> USE DEF Init, Start, NewLink
  <1>1. TypeOK
    <2>1. pc \in [Threads -> Pcs] /\ path \in [Threads -> Maps \cup {Garbled}]
      BY MapsAssumption DEF Pcs
    <2>2. /\ result \in [Threads -> [Services -> Results]]
          /\ tries \in [Threads -> 0..2]
      BY DEF Results, NoResult
    <2>3. /\ up \in [Services -> BOOLEAN]
          /\ loaded \in [Services -> Maps \cup {NoMap}]
          /\ link \in [Services -> {"fresh", "open", "broken", "mistyped"}]
      OBVIOUS
    <2>4. file \in Contents /\ confirmed \subseteq Maps
      BY MapsAssumption DEF Contents
    <2>5. alone \subseteq Threads /\ spoilt \in BOOLEAN
      OBVIOUS
    <2>6. faults \in 0..MaxFaults
      BY FaultsAssumption
    <2> QED
      BY <2>1, <2>2, <2>3, <2>4, <2>5, <2>6 DEF TypeOK
  <1>2. ChangesInv
    BY DEF ChangesInv, Changing, NoResult
  <1>3. FileInv
    BY DEF FileInv, Writing
  <1> QED
    BY <1>1, <1>2, <1>3 DEF Inv, AloneInv, SuccessIsReal

\* The beginning of a change.
LEMMA ChangeInv ==
  ASSUME Inv, NEW t \in Threads, NEW m \in Maps \cup {Garbled}, ~Changing(t),
         Change(t, m)
  PROVE  Inv'
  <1> USE DEF Inv, Change, Goto, services, TypeOK
  <1>1. TypeOK'
    BY DEF Pcs
  <1>2. \A u \in Threads : Changing(u)' <=> (u = t \/ Changing(u))
    BY DEF Changing
  <1>3. ChangesInv'
    <2>1. result[t] = NoResult
      BY DEF ChangesInv
    <2> QED
      BY <2>1, <1>2 DEF ChangesInv, NoResult
  <1>4. AloneInv'
    BY <1>2 DEF AloneInv
  <1>5. Writing' = Writing
    BY DEF Writing, Changing
  <1>6. FileInv'
    BY <1>5 DEF FileInv
  <1>7. SuccessIsReal'
    <2>1. result[t] = NoResult
      BY DEF ChangesInv
    <2> QED
      BY <2>1 DEF SuccessIsReal, NoResult
  <1> QED
    BY <1>1, <1>3, <1>4, <1>6, <1>7

\* A step that moves a thread on within its calls, with what it saves, the
\* file and the ghosts left alone.
LEMMA CallInv ==
  ASSUME Inv, NEW t \in Threads, Changing(t), pc[t] # "write",
         NEW p \in Pcs \ {"boot", "idle", "save", "write"}, Goto(t, p),
         UNCHANGED <<path, result, file, ghost>>, TypeOK',
         \A u \in alone, s \in Services :
            result[u][s] = "success" => loaded'[s] = path[u]
  PROVE  Inv'
  <1> USE DEF Inv, Goto, TypeOK, ghost
  <1>1. \A u \in Threads : Changing(u)' <=> Changing(u)
    BY DEF Changing
  <1>2. ChangesInv'
    BY <1>1 DEF ChangesInv, NoResult
  <1>3. AloneInv'
    BY <1>1 DEF AloneInv
  <1>4. Writing' = Writing
    BY DEF Writing
  <1>5. FileInv'
    BY <1>4 DEF FileInv
  <1>6. SuccessIsReal'
    BY DEF SuccessIsReal
  <1> QED
    BY <1>2, <1>3, <1>5, <1>6

\* What an undisturbed change counts on is loaded by no one but itself.
LEMMA LoadReal ==
  ASSUME Inv, NEW t \in Threads, NEW s \in Services, Changing(t),
         Load(t, s) \/ UNCHANGED loaded
  PROVE  \A u \in alone, r \in Services :
            result[u][r] = "success" => loaded'[r] = path[u]
  <1> SUFFICES ASSUME NEW u \in alone, NEW r \in Services,
                      result[u][r] = "success"
               PROVE  loaded'[r] = path[u]
    OBVIOUS
  <1>1. u = t
    BY DEF Inv, AloneInv, TypeOK
  <1>2. loaded[r] = path[u]
    BY DEF Inv, SuccessIsReal
  <1> QED
    BY <1>1, <1>2 DEF Load, Inv, TypeOK

LEMMA RetryType ==
  ASSUME TypeOK, NEW t \in Threads, NEW s \in Services,
         NEW l \in {"fresh", "open", "broken", "mistyped"}, Retry(t, s, l)
  PROVE  /\ link' \in [Services -> {"fresh", "open", "broken", "mistyped"}]
         /\ tries' \in [Threads -> 0..2]
         /\ \E p \in Pcs \ {"boot", "idle", "save", "write"} : Goto(t, p)
  <1>1. tries[t] \in 0..2
    BY DEF TypeOK
  <1>2. (tries[t] + 1) % 3 \in 0..2
    BY <1>1
  <1>3. Recreated(s) \in {"fresh", "open", "broken", "mistyped"}
    BY DEF Recreated, NewLink
  <1>4. /\ Next1(s) \in Pcs \ {"boot", "idle", "save", "write"}
        /\ CallPc(s) \in Pcs \ {"boot", "idle", "save", "write"}
    BY DEF Next1, CallPc, Pcs
  <1> QED
    BY <1>2, <1>3, <1>4 DEF Retry, TypeOK

LEMMA LookInv ==
  ASSUME Inv, NEW t \in Threads, NEW s \in Services,
         Look(t, s) \/ WaitForExistence(t)
  PROVE  Inv'
  <1>1. PICK p \in Pcs \ {"boot", "idle", "save", "write"} : Goto(t, p)
    BY DEF Look, WaitForExistence, Next1, Pcs
  <1>2. /\ Changing(t) /\ pc[t] # "write"
        /\ UNCHANGED <<path, result, tries, services, file, ghost>>
    BY DEF Look, WaitForExistence, Changing, Services
  <1>3. TypeOK'
    BY <1>1, <1>2 DEF Inv, TypeOK, Goto, services, ghost
  <1>4. \A u \in alone, r \in Services :
           result[u][r] = "success" => loaded'[r] = path[u]
    BY <1>2 DEF Inv, SuccessIsReal, services
  <1> QED
    BY <1>1, <1>2, <1>3, <1>4, CallInv

LEMMA FailedCallInv ==
  ASSUME Inv, NEW t \in Threads, NEW s \in Services,
         Unreachable(t, s) \/ Breaks(t, s)
  PROVE  Inv'
  <1>1. PICK l \in {"fresh", "open", "broken", "mistyped"} : Retry(t, s, l)
    BY DEF Unreachable, Breaks, Inv, TypeOK
  <1>2. PICK p \in Pcs \ {"boot", "idle", "save", "write"} : Goto(t, p)
    BY <1>1, RetryType DEF Inv
  <1>3. /\ Changing(t) /\ pc[t] # "write"
        /\ UNCHANGED <<path, result, up, file, ghost>>
        /\ Load(t, s) \/ UNCHANGED loaded
    BY DEF Unreachable, Breaks, Changing, CallPc
  <1>4. TypeOK'
    <2>1. faults' \in 0..MaxFaults
      BY FaultsAssumption DEF Unreachable, Breaks, Inv, TypeOK
    <2>2. loaded' \in [Services -> Maps \cup {NoMap}]
      BY <1>3 DEF Load, Inv, TypeOK
    <2>3. pc' \in [Threads -> Pcs]
      BY <1>2 DEF Goto, Inv, TypeOK
    <2> QED
      BY <1>1, <1>3, <2>1, <2>2, <2>3, RetryType DEF Inv, TypeOK, ghost
  <1> QED
    BY <1>2, <1>3, <1>4, LoadReal, CallInv

LEMMA AnsweredInv ==
  ASSUME Inv, NEW t \in Threads, NEW s \in Services, Answered(t, s)
  PROVE  Inv'
  <1> USE DEF Inv, TypeOK, Answered, Goto
  <1>1. /\ Changing(t) /\ pc[t] # "write"
        /\ Next1(s) \in Pcs \ {"boot", "idle", "save", "write"}
    BY DEF Changing, CallPc, Next1, Pcs
  <1>2. \A u \in Threads : Changing(u)' <=> Changing(u)
    BY <1>1 DEF Changing
  <1>3. Writing' = Writing
    BY <1>1 DEF Writing
  <1>4. AloneInv' /\ FileInv'
    BY <1>2, <1>3 DEF AloneInv, FileInv
  <1>5. CASE UNCHANGED <<loaded, result, confirmed>>
    <2>1. TypeOK'
      BY <1>1, <1>5
    <2>2. ChangesInv'
      BY <1>1, <1>2, <1>5 DEF ChangesInv, NoResult
    <2>3. SuccessIsReal'
      BY <1>5 DEF SuccessIsReal
    <2> QED
      BY <1>4, <2>1, <2>2, <2>3
  <1>6. CASE /\ Load(t, s)
             /\ result' = [result EXCEPT ![t][s] = Read(t)]
             /\ confirmed' = confirmed \cup {path[t]}
    <2>1. Read(t) \in Results
      BY DEF Read, Results
    <2>2. TypeOK'
      <3>1. result' \in [Threads -> [Services -> Results]]
        BY <1>6, <2>1
      <3>2. loaded' \in [Services -> Maps \cup {NoMap}]
        BY <1>6 DEF Load
      <3>3. confirmed' \subseteq Maps
        BY <1>6 DEF Load
      <3>4. /\ pc' \in [Threads -> Pcs] /\ tries' \in [Threads -> 0..2]
            /\ link' \in [Services -> {"fresh", "open", "broken", "mistyped"}]
        BY <1>1
      <3>5. UNCHANGED <<path, up, faults, file, alone, spoilt>>
        OBVIOUS
      <3> QED
        BY <3>1, <3>2, <3>3, <3>4, <3>5
    <2>3. ChangesInv'
      BY <1>1, <1>2, <1>6 DEF ChangesInv, NoResult
    <2>4. SuccessIsReal'
      <3> SUFFICES ASSUME NEW u \in alone, NEW r \in Services,
                          result'[u][r] = "success"
                   PROVE  loaded'[r] = path[u]
        BY DEF SuccessIsReal
      <3>1. u = t
        BY <1>1 DEF AloneInv
      <3>2. loaded' = [loaded EXCEPT ![s] = path[t]]
        BY <1>6 DEF Load
      <3>3. CASE r = s
        BY <3>1, <3>2, <3>3
      <3>4. CASE r # s
        BY <1>6, <3>1, <3>2, <3>4 DEF SuccessIsReal
      <3> QED
        BY <3>3, <3>4
    <2> QED
      BY <1>4, <2>2, <2>3, <2>4
  <1> QED
    BY <1>5, <1>6

\* A change ends: whatever it knew is gone, and the file is as the step left it.
LEMMA ReturnInv ==
  ASSUME Inv, NEW t \in Threads, Changing(t), Return(t),
         file' \in Contents, spoilt' = spoilt, FileInv'
  PROVE  Inv'
  <1> USE DEF Inv, TypeOK, Return, Goto, services
  <1>1. TypeOK'
    BY MapsAssumption DEF Pcs, NoResult, Results
  <1>2. \A u \in Threads : Changing(u)' <=> (u # t /\ Changing(u))
    BY DEF Changing
  <1>3. ChangesInv'
    BY <1>2 DEF ChangesInv, NoResult
  <1>4. AloneInv'
    BY <1>2 DEF AloneInv
  <1>5. SuccessIsReal'
    BY DEF SuccessIsReal
  <1> QED
    BY <1>1, <1>3, <1>4, <1>5

LEMMA EndInv ==
  ASSUME Inv, NEW t \in Threads,
         Judge(t) \/ SaveOpen(t) \/ SaveFails(t) \/ SaveWrite(t)
  PROVE  Inv'
  <1>1. Changing(t) /\ TypeOK /\ pc \in [Threads -> Pcs]
    BY DEF Inv, TypeOK, Judge, SaveOpen, SaveFails, SaveWrite, Changing
  <1>2. CASE Judge(t) /\ ~(\E s \in Services : result[t][s] = "success")
    <2>1. Return(t) /\ UNCHANGED <<spoilt, file>>
      BY <1>2 DEF Judge
    <2>2. Writing' = Writing
      BY <1>1, <1>2, <2>1 DEF Writing, Return, Goto, Judge
    <2>3. FileInv'
      BY <2>1, <2>2 DEF Inv, FileInv, Return
    <2> QED
      BY <1>1, <2>1, <2>3, ReturnInv DEF TypeOK
  <1>3. CASE SaveFails(t)
    <2>1. Return(t) /\ UNCHANGED <<spoilt, file>>
      BY <1>3 DEF SaveFails
    <2>2. Writing' = Writing
      BY <1>1, <1>3, <2>1 DEF Writing, Return, Goto, SaveFails
    <2>3. FileInv'
      BY <2>1, <2>2 DEF Inv, FileInv, Return
    <2> QED
      BY <1>1, <2>1, <2>3, ReturnInv DEF TypeOK
  <1>4. CASE SaveWrite(t)
    <2>1. Return(t) /\ UNCHANGED spoilt /\ file' = Overlay(path[t], file)
      BY <1>4 DEF SaveWrite
    <2>2. Writing' = Writing \ {t} /\ t \in Writing
      BY <1>1, <1>4, <2>1 DEF Writing, Return, Goto, SaveWrite
    <2>3. file' \in Contents
      BY <1>1, <2>1 DEF Overlay, Contents, TypeOK
    <2>4. FileInv'
      <3>1. CASE spoilt
        BY <2>1, <3>1 DEF FileInv
      <3>2. CASE ~spoilt
        <4>1. file = Empty /\ Writing' = {}
          BY <2>2, <3>2 DEF Inv, FileInv
        <4>2. file' = path[t] /\ path[t] \in confirmed
          BY <1>1, <1>4, <2>1, <4>1 DEF Overlay, Inv, ChangesInv, SaveWrite
        <4> QED
          BY <2>1, <4>1, <4>2 DEF FileInv, Return
      <3> QED
        BY <3>1, <3>2
    <2> QED
      BY <1>1, <2>1, <2>3, <2>4, ReturnInv
  <1>5. CASE Judge(t) /\ \E s \in Services : result[t][s] = "success"
    <2>1. Goto(t, "save") /\ UNCHANGED <<path, result, tries, services, ghost, file>>
      BY <1>5 DEF Judge
    <2>2. path[t] \in confirmed
      BY <1>5 DEF Inv, ChangesInv
    <2>3. \A u \in Threads : Changing(u)' <=> Changing(u)
      BY <1>1, <2>1 DEF Changing, Goto
    <2>4. Writing' = Writing
      BY <1>1, <1>5, <2>1 DEF Writing, Goto, Judge
    <2>5. TypeOK'
      BY <1>1, <2>1 DEF TypeOK, Goto, Pcs, services, ghost
    <2>6. ChangesInv'
      BY <1>1, <2>1, <2>2, <2>3 DEF Inv, ChangesInv, Goto, ghost, NoResult
    <2>7. AloneInv' /\ FileInv' /\ SuccessIsReal'
      BY <2>1, <2>3, <2>4
      DEF Inv, AloneInv, FileInv, SuccessIsReal, ghost, services
    <2> QED
      BY <2>5, <2>6, <2>7 DEF Inv
  <1>6. CASE SaveOpen(t)
    <2>1. /\ Goto(t, "write") /\ file' = Empty /\ spoilt' = (Writing # {})
          /\ UNCHANGED <<path, result, tries, services, confirmed, alone>>
      BY <1>6 DEF SaveOpen
    <2>2. path[t] \in confirmed
      BY <1>6 DEF Inv, ChangesInv, SaveOpen
    <2>3. \A u \in Threads : Changing(u)' <=> Changing(u)
      BY <1>1, <2>1 DEF Changing, Goto
    <2>4. Writing' = Writing \cup {t}
      BY <1>1, <2>1 DEF Writing, Goto
    <2>5. TypeOK'
      BY <1>1, <2>1 DEF TypeOK, Goto, Pcs, services, Contents
    <2>6. ChangesInv'
      BY <1>1, <2>1, <2>2, <2>3 DEF Inv, ChangesInv, Goto, NoResult
    <2>7. AloneInv' /\ SuccessIsReal'
      BY <2>1, <2>3 DEF Inv, AloneInv, SuccessIsReal, services
    <2>8. FileInv'
      BY <2>1, <2>4 DEF FileInv
    <2> QED
      BY <2>5, <2>6, <2>7, <2>8 DEF Inv
  <1> QED
    BY <1>2, <1>3, <1>4, <1>5, <1>6

LEMMA WorldInv ==
  ASSUME Inv, Crash \/ \E s \in Services : ServiceDown(s) \/ ServiceUp(s)
  PROVE  Inv'
  <1> USE DEF Inv, TypeOK
  <1>1. CASE Crash
    <2>1. \A u \in Threads : ~Changing(u)' /\ u \notin Writing'
      BY <1>1 DEF Crash, Start, Changing, Writing
    <2>2. TypeOK'
      BY <1>1, MapsAssumption
      DEF Crash, Start, Pcs, NoResult, Results, NewLink
    <2>3. ChangesInv'
      BY <1>1, <2>1 DEF Crash, ChangesInv, NoResult, Start
    <2>4. FileInv'
      BY <1>1, <2>1 DEF Crash, FileInv, Writing
    <2> QED
      BY <1>1, <2>2, <2>3, <2>4 DEF Crash, AloneInv, SuccessIsReal
  <1>2. CASE \E s \in Services : ServiceDown(s) \/ ServiceUp(s)
    <2>1. PICK s \in Services : ServiceDown(s) \/ ServiceUp(s)
      BY <1>2
    <2>2. /\ UNCHANGED <<pc, path, result, tries, file, confirmed, spoilt>>
          /\ \/ alone' = {}
             \/ UNCHANGED <<alone, loaded>>
      BY <2>1 DEF ServiceDown, ServiceUp, changes, ghost
    <2>3. TypeOK'
      <3>1. CASE ServiceUp(s)
        BY <3>1 DEF ServiceUp, changes, ghost
      <3>2. CASE ServiceDown(s)
        <4>1. faults' \in 0..MaxFaults
          BY <3>2, FaultsAssumption DEF ServiceDown
        <4>2. /\ up' \in [Services -> BOOLEAN]
              /\ loaded' \in [Services -> Maps \cup {NoMap}]
          BY <3>2 DEF ServiceDown
        <4>3. link' \in [Services -> {"fresh", "open", "broken", "mistyped"}]
          BY <3>2 DEF ServiceDown
        <4>4. UNCHANGED <<changes, file, confirmed, spoilt>> /\ alone' = {}
          BY <3>2 DEF ServiceDown
        <4> QED
          BY <4>1, <4>2, <4>3, <4>4 DEF changes
      <3> QED
        BY <2>1, <3>1, <3>2
    <2>4. ChangesInv' /\ AloneInv' /\ SuccessIsReal'
      BY <2>2 DEF ChangesInv, AloneInv, SuccessIsReal, Changing
    <2>5. FileInv'
      BY <2>2 DEF FileInv, Writing
    <2> QED
      BY <2>3, <2>4, <2>5
  <1> QED
    BY <1>1, <1>2

LEMMA InvNext == Inv /\ [Next]_vars => Inv'
  <1> SUFFICES ASSUME Inv, [Next]_vars PROVE Inv'
    OBVIOUS
  <1>1. CASE Boot
    <2>1. "main" \in Threads /\ ~Changing("main")
      BY <1>1 DEF Boot, Threads, Changing
    <2>2. CASE file = Empty
      <3>1. Goto("main", "idle")
            /\ UNCHANGED <<path, result, tries, services, file, ghost>>
        BY <1>1, <2>2 DEF Boot
      <3>2. Writing' = Writing /\ \A u \in Threads : Changing(u)' <=> Changing(u)
        BY <1>1, <2>1, <3>1 DEF Boot, Goto, Writing, Changing, Inv, TypeOK
      <3>3. TypeOK'
        BY <2>1, <3>1 DEF Goto, Inv, TypeOK, Pcs, services, ghost
      <3>4. ChangesInv'
        BY <2>1, <3>1, <3>2 DEF Goto, Inv, TypeOK, ChangesInv, NoResult, ghost
      <3>5. AloneInv' /\ FileInv' /\ SuccessIsReal'
        BY <3>1, <3>2 DEF Inv, AloneInv, FileInv, SuccessIsReal, services, ghost
      <3> QED
        BY <3>3, <3>4, <3>5 DEF Inv
    <2>3. CASE file # Empty
      BY <1>1, <2>1, <2>3, ChangeInv DEF Boot, Inv, TypeOK, Contents
    <2> QED
      BY <2>2, <2>3
  <1>2. CASE \E t \in Threads, m \in Maps : Request(t, m)
    BY <1>2, ChangeInv DEF Request, Changing
  <1>3. CASE \E t \in Threads : Step(t)
    BY <1>3, LookInv, AnsweredInv, FailedCallInv, EndInv DEF Step, Services
  <1>4. CASE Crash \/ \E s \in Services : ServiceDown(s) \/ ServiceUp(s)
    BY <1>4, WorldInv
  <1>5. CASE UNCHANGED vars
    BY <1>5 DEF vars, changes, services, ghost, Inv, TypeOK, ChangesInv,
       AloneInv, FileInv, SuccessIsReal, Changing, Writing
  <1> QED
    BY <1>1, <1>2, <1>3, <1>4, <1>5 DEF Next

-----------------------------------------------------------------------------
\* The inductive invariant holds.
THEOREM MapChangeInvariant == Spec => []Inv
  BY InvInit, InvNext, PTL DEF Spec

\* Type correctness, for any maps, threads and number of faults.
THEOREM MapChangeTypes == Spec => []TypeOK
  <1>1. Inv => TypeOK
    BY DEF Inv
  <1> QED
    BY <1>1, MapChangeInvariant, PTL

\* The file never remembers a map that no service confirmed, unless a write of
\* it was cut or overlapped: for any number of threads that change the map.
THEOREM FileIsConfirmed == Spec => []SavedMapIsConfirmed
  <1>1. Inv => SavedMapIsConfirmed
    BY DEF Inv, FileInv, SavedMapIsConfirmed
  <1> QED
    BY <1>1, MapChangeInvariant, PTL

\* An undisturbed change counts only what has really been loaded.
THEOREM SuccessIsLoaded == Spec => []SuccessIsReal
  <1>1. Inv => SuccessIsReal
    BY DEF Inv
  <1> QED
    BY <1>1, MapChangeInvariant, PTL

-----------------------------------------------------------------------------
(* The last call of the navigation service.                                *)

\* Calls are counted while they are made, and the third of the navigation
\* service is made with the client of the wrong type.
TriesInv ==
    \A t \in Threads :
        /\ pc[t] \notin {"locCall", "navCall"} => tries[t] = 0
        /\ pc[t] = "navCall" /\ tries[t] = 2 => link["nav"] = "mistyped"

LEMMA TriesStep ==
  ASSUME TypeOK, TriesInv, NEW t \in Threads, Step(t)
  PROVE  TriesInv'
  <1> USE DEF TypeOK, TriesInv, Goto, services, ghost
  <1>1. CASE WaitForExistence(t)
    BY <1>1 DEF WaitForExistence
  <1>2. CASE Judge(t) \/ SaveOpen(t) \/ SaveFails(t) \/ SaveWrite(t)
    BY <1>2 DEF Judge, SaveOpen, SaveFails, SaveWrite, Return
  <1>3. ASSUME NEW s \in Services, Look(t, s) PROVE TriesInv'
    <2>1. pc' = [pc EXCEPT ![t] = pc'[t]] /\ tries[t] = 0
      BY <1>3 DEF Look, Services
    <2> QED
      BY <1>3, <2>1 DEF Look
  <1>4. ASSUME NEW s \in Services, Answered(t, s) PROVE TriesInv'
    BY <1>4 DEF Answered, Next1, CallPc, Usable, Services
  <1>5. ASSUME NEW s \in Services, Unreachable(t, s) PROVE TriesInv'
    BY <1>5 DEF Unreachable, Retry, Recreated, Next1, CallPc, Services
  <1>6. ASSUME NEW s \in Services, Breaks(t, s) PROVE TriesInv'
    BY <1>6 DEF Breaks, Retry, Recreated, Next1, CallPc, Usable, Services
  <1> QED
    BY <1>1, <1>2, <1>3, <1>4, <1>5, <1>6 DEF Step

LEMMA TriesNext == TypeOK /\ TriesInv /\ [Next]_vars => TriesInv'
  <1> SUFFICES ASSUME TypeOK, TriesInv, [Next]_vars PROVE TriesInv'
    OBVIOUS
  <1> USE DEF TypeOK, TriesInv, Goto, changes, services, ghost
  <1>1. CASE Boot
    BY <1>1 DEF Boot, Change, Threads
  <1>2. CASE \E t \in Threads, m \in Maps : Request(t, m)
    BY <1>2 DEF Request, Change
  <1>3. CASE \E t \in Threads : Step(t)
    BY <1>3, TriesStep
  <1>4. CASE Crash
    BY <1>4 DEF Crash, Start
  <1>5. CASE \E s \in Services : ServiceDown(s) \/ ServiceUp(s)
    BY <1>5 DEF ServiceDown, ServiceUp, Services
  <1>6. CASE UNCHANGED vars
    BY <1>6 DEF vars
  <1> QED
    BY <1>1, <1>2, <1>3, <1>4, <1>5, <1>6 DEF Next

\* The last call of a change never reaches the navigation service: see
\* LastNavCallFails.
THEOREM NavIsNotRetried == Spec => LastNavCallFails
  <1>1. Init => TriesInv
    BY DEF Init, Start, TriesInv
  <1>2. TypeOK /\ TriesInv /\ [Next]_vars =>
           [\A t \in Threads :
               pc[t] = "navCall" /\ tries[t] = 2 /\ pc'[t] = "judge" =>
                  result'[t] = result[t]]_vars
    <2> SUFFICES ASSUME TypeOK, TriesInv, Next, NEW t \in Threads,
                        pc[t] = "navCall", tries[t] = 2, pc'[t] = "judge"
                 PROVE  result'[t] = result[t]
      OBVIOUS
    <2> USE DEF TypeOK, TriesInv, Goto, changes, services, ghost
    <2>1. link["nav"] = "mistyped"
      OBVIOUS
    <2>2. CASE \E u \in Threads : Step(u)
      <3>1. PICK u \in Threads : Step(u)
        BY <2>2
      <3>2. CASE u # t
        BY <3>1, <3>2
        DEF Step, WaitForExistence, Judge, SaveOpen, SaveFails, SaveWrite,
            Return, Look, Answered, Unreachable, Breaks, Retry
      <3>3. CASE u = t
        BY <2>1, <3>1, <3>3
        DEF Step, WaitForExistence, Judge, SaveOpen, SaveFails, SaveWrite,
            Look, Answered, Unreachable, Breaks, Usable, CallPc, Services
      <3> QED
        BY <3>2, <3>3
    <2>3. CASE ~\E u \in Threads : Step(u)
      BY <2>3 DEF Next, Boot, Change, Crash, Start, Request, ServiceDown, ServiceUp
    <2> QED
      BY <2>2, <2>3
  <1> QED
    BY <1>1, <1>2, TriesNext, MapChangeTypes, PTL DEF Spec, LastNavCallFails
-----------------------------------------------------------------------------
(* What never recovers: the client of the navigation service that is made    *)
(* after two failed calls is of the type of the other service.               *)

NavMistyped == link["nav"] = "mistyped"

LEMMA MistypedStays ==
  ASSUME TypeOK, NavMistyped, Next, ~Crash, NEW t \in Threads
  PROVE  /\ NavMistyped'
         /\ loaded'["nav"] \in {loaded["nav"], NoMap}
         /\ result'[t]["nav"] \in {result[t]["nav"], "none"}
  <1> USE DEF NavMistyped, TypeOK, Goto, changes, services, ghost
  <1>1. ~Usable("nav")
    BY DEF Usable
  <1>2. \A u \in Threads : result[u] \in [Services -> Results]
    OBVIOUS
  <1>3. CASE Boot \/ \E u \in Threads, m \in Maps : Request(u, m)
    BY <1>3 DEF Boot, Request, Change
  <1>4. ASSUME NEW u \in Threads, Step(u)
        PROVE  /\ NavMistyped'
               /\ loaded'["nav"] \in {loaded["nav"], NoMap}
               /\ result'[t]["nav"] \in {result[t]["nav"], "none"}
    <2>1. CASE WaitForExistence(u) \/ Judge(u) \/ SaveOpen(u) \/ SaveFails(u)
               \/ SaveWrite(u)
      BY <1>2, <2>1 DEF WaitForExistence, Judge, SaveOpen, SaveFails, SaveWrite,
         Return, NoResult, Services
    <2>2. ASSUME NEW s \in Services, Look(u, s) \/ Unreachable(u, s)
          PROVE  /\ NavMistyped'
                 /\ UNCHANGED <<loaded, result>>
      BY <2>2 DEF Look, Unreachable, Retry, Recreated, Services
    <2>3. ASSUME NEW s \in Services, Answered(u, s) \/ Breaks(u, s)
          PROVE  /\ NavMistyped'
                 /\ loaded'["nav"] = loaded["nav"]
                 /\ result'[t]["nav"] = result[t]["nav"]
      <3>1. s = "loc"
        BY <1>1, <2>3 DEF Answered, Breaks, Services
      <3>2. NavMistyped' /\ loaded'["nav"] = loaded["nav"]
        BY <2>3, <3>1 DEF Answered, Breaks, Retry, Recreated, Load, Services
      <3>3. \/ result' = result
            \/ result' = [result EXCEPT ![u]["loc"] = Read(u)]
        BY <2>3, <3>1 DEF Answered, Breaks
      <3> QED
        BY <1>2, <3>2, <3>3 DEF Services
    <2> QED
      BY <1>4, <2>1, <2>2, <2>3 DEF Step
  <1>5. CASE \E s \in Services : ServiceDown(s) \/ ServiceUp(s)
    BY <1>5 DEF ServiceDown, ServiceUp, Services
  <1> QED
    BY <1>3, <1>4, <1>5 DEF Next

\* After the second failed call of one change, a restart of the navigation
\* service for instance, the node never makes that service load a map again,
\* whoever asks for one, and counts no change of it as a success: until the node
\* itself restarts.
THEOREM NavStaysMistyped ==
  Spec => [][NavMistyped =>
                \/ pc'["main"] = "boot"
                \/ /\ NavMistyped'
                   /\ loaded'["nav"] \in {loaded["nav"], NoMap}
                   /\ \A t \in Threads :
                         result'[t]["nav"] \in {result[t]["nav"], "none"}]_vars
  <1>1. TypeOK /\ [Next]_vars =>
           [NavMistyped =>
                \/ pc'["main"] = "boot"
                \/ /\ NavMistyped'
                   /\ loaded'["nav"] \in {loaded["nav"], NoMap}
                   /\ \A t \in Threads :
                         result'[t]["nav"] \in {result[t]["nav"], "none"}]_vars
    <2>1. Crash => pc'["main"] = "boot"
      BY DEF Crash, Start, Threads
    <2>2. Threads # {}
      BY DEF Threads
    <2> QED
      BY <2>1, <2>2, MistypedStays
  <1> QED
    BY <1>1, MapChangeTypes, PTL DEF Spec
=============================================================================
