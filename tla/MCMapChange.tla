----------------------------- MODULE MCMapChange -----------------------------
(* Small instance of the map change for TLC: a long path and a short one.  *)
EXTENDS MapChange, TLC

CONSTANTS srv, exec

MCHandlers == {srv, exec}
MCLength == [m \in Maps |-> IF m = Default THEN 1 ELSE 2]
Swap == Permutations(MCHandlers)
==============================================================================
