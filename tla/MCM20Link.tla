------------------------------ MODULE MCM20Link ------------------------------
(* Small instance of the link to the M20 robot for TLC: two handlers, four *)
(* packets, and noise that ends like the beginning of a packet.            *)
EXTENDS M20Link, TLC

CONSTANTS srv, exec

MCHandlers == {srv, exec}
MCPayloads == {<<Status, 0>>, <<Status, 2>>, <<4>>, <<>>}
MCNoise == {[i \in 1..14 |-> IF i = 13 THEN 235 ELSE IF i = 14 THEN 145 ELSE 0]}
Swap == Permutations(MCHandlers)
==============================================================================
