--------------------------- MODULE MCMessageRelay ---------------------------
(* Two messages each way: one that overlaps and one that comes after. *)
EXTENDS MessageRelay
=============================================================================
