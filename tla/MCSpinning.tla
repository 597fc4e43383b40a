----------------------------- MODULE MCSpinning -----------------------------
(* One source with the mutex and one without, and two rounds, so that a     *)
(* motion spins before its last publication.                                *)
EXTENDS Spinning
=============================================================================
