---------------------------- MODULE MCTaskManager ----------------------------
(* Small instances of the task manager for TLC.                            *)
EXTENDS TaskManager

MCTask(loop, actions, minutes) ==
    [loop |-> loop, actions |-> actions,
     schedules |-> [i \in 1..Len(minutes) |->
        [minute |-> minutes[i], enabled |-> TRUE, lastRun |-> 0]]]

\* A task that repeats: it drives, switches the map and runs the chain it
\* finds there.  The other acts once, at minute 0.
MCTripAndMinute ==
    {MCTask(TRUE, <<"Navigate", "SwitchMapChain">>, <<>>),
     MCTask(FALSE, <<"Action">>, <<0>>)}

MCChains == {<<>>, <<"Delay", "Unknown">>}

\* One repeats at minute 1 of each day, the other runs once, at minute 0 or 1.
MCScheduled ==
    {MCTask(TRUE, <<"Navigate">>, <<1>>), MCTask(FALSE, <<"Delay">>, <<0, 1>>)}

\* A loop with a minute that comes at once.
MCScheduledLoop == {MCTask(TRUE, <<"Delay">>, <<0, 1>>)}
=============================================================================
