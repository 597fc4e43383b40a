------------------------------- MODULE TaskSlot -------------------------------
(***************************************************************************)
(* What the task manager promises an operator who uploads: one slot, in    *)
(* which an upload replaces the one before.  The executor chooses when the *)
(* slot is fresh, then starts whatever is in it; it starts again without   *)
(* a new upload only if the task in the slot loops.                        *)
(***************************************************************************)
EXTENDS Naturals

CONSTANTS
    MaxUploads,   \* bound: uploads of a behaviour
    Cap           \* bound: starts of an upload that are counted

VARIABLES
    latest,   \* the upload in the slot, 0 for none
    fresh,    \* the slot was filled since the executor last chose
    loops,    \* the uploads that loop
    state,    \* "idle", "chosen" or "busy"
    run,      \* the upload started last
    runs      \* how often each upload was started, up to Cap

Init ==
    /\ latest = 0 /\ run = 0
    /\ fresh = FALSE
    /\ state = "idle"
    /\ loops = {}
    /\ runs = [n \in 1..MaxUploads |-> 0]

Upload ==
    /\ latest < MaxUploads
    /\ latest' = latest + 1
    /\ fresh' = TRUE
    /\ loops' \in {loops, loops \cup {latest + 1}}
    /\ UNCHANGED <<state, run, runs>>

Choose ==
    /\ state = "idle" /\ fresh
    /\ fresh' = FALSE
    /\ state' = "chosen"
    /\ UNCHANGED <<latest, loops, run, runs>>

Start ==
    /\ state = "chosen"
    /\ run' = latest
    /\ runs' = IF runs[latest] < Cap THEN [runs EXCEPT ![latest] = @ + 1]
                                     ELSE runs
    /\ state' = "busy"
    /\ UNCHANGED <<latest, fresh, loops>>

\* Without a new upload.
Again ==
    /\ state = "busy" /\ latest \in loops
    /\ state' = "chosen"
    /\ UNCHANGED <<latest, fresh, loops, run, runs>>

\* Done, failed or cancelled, before the start too.
Finish ==
    /\ state \in {"chosen", "busy"}
    /\ state' = "idle"
    /\ UNCHANGED <<latest, fresh, loops, run, runs>>

Next == Upload \/ Choose \/ Start \/ Again \/ Finish

Spec == Init /\ [][Next]_<<latest, fresh, loops, state, run, runs>>
===============================================================================
