---------------------------- MODULE MCLite3Link ----------------------------
(* The server and the executor, and motions enough for two of a kind from  *)
(* one handler while the other connects.                                   *)
EXTENDS Lite3Link
=============================================================================
