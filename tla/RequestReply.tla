---------------------------- MODULE RequestReply ----------------------------
(***************************************************************************)
(* What the request server promises its operators, whatever it does to     *)
(* answer: a request is taken from the queue once, one request is in hand  *)
(* at a time, and an answer is given to the request in hand and is final.  *)
(* A request whose answer is lost stays in hand: nothing is taken after    *)
(* it.  That is the discipline of a ZeroMQ reply socket.                   *)
(***************************************************************************)
CONSTANT Requests

VARIABLE phase   \* where each request is

Phases == {"unsent", "queued", "taken", "answered", "lost"}

Init == phase = [r \in Requests |-> "unsent"]

Move(r, from, to) == phase[r] = from /\ phase' = [phase EXCEPT ![r] = to]

Send(r) == Move(r, "unsent", "queued")

Take(r) ==
    /\ \A other \in Requests : phase[other] \notin {"taken", "lost"}
    /\ Move(r, "queued", "taken")

Answer(r) == Move(r, "taken", "answered")

Lose(r) == Move(r, "taken", "lost")

Next == \E r \in Requests : Send(r) \/ Take(r) \/ Answer(r) \/ Lose(r)

Spec == Init /\ [][Next]_phase
=============================================================================
