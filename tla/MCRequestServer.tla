--------------------------- MODULE MCRequestServer ---------------------------
(* Small instance of the request server for TLC.                           *)
EXTENDS RequestServer
==============================================================================
