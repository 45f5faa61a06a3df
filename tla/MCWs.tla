-------------------------------- MODULE MCWs --------------------------------
(* Instances of WsTransport: single requests, batches of two, whose ids can
   all differ or saturate, and streams. *)
EXTENDS WsTransport, TLC

CONSTANT BatchCall
MCSize == [c \in Call |-> IF c \in BatchCall THEN 2 ELSE 1]

(* Calls of one kind, and streams, differ in nothing but their name. *)
CallSymmetry   == Permutations(BatchCall) \cup Permutations(Call \ BatchCall)
StreamSymmetry == Permutations(Stream)
=============================================================================
