---------------------------- MODULE MCTaskHistory ----------------------------
(* Small instances of the observed task manager for TLC.                   *)
EXTENDS TaskHistory

MCTask(loop, actions, minutes) ==
    [loop |-> loop, actions |-> actions,
     schedules |-> [i \in 1..Len(minutes) |->
        [minute |-> minutes[i], enabled |-> TRUE, lastRun |-> 0]]]

\* A loop, a task that fails, and a schedule due at minute 0, where the clock
\* stands: after a terminated run of it the status still says RUNNING, which
\* is when a PauseTask stops the server thread.
MCHistory ==
    {MCTask(TRUE, <<"Delay">>, <<>>), MCTask(FALSE, <<"Unknown">>, <<>>),
     MCTask(TRUE, <<"Action">>, <<0>>)}
=============================================================================
