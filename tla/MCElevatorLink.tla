---------------------------- MODULE MCElevatorLink ----------------------------
(* Small instance of the line to the elevator for TLC.                     *)
EXTENDS ElevatorLink, TLC

Swap == Permutations(Handlers)
===============================================================================
