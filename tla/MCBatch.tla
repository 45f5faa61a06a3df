------------------------------ MODULE MCBatch ------------------------------
(* Instances of BatchTransport: a few requests, whose ids may repeat, and two
   submissions that overlap. *)
EXTENDS BatchTransport, TLC

MCSymmetry == Permutations(Request) \cup Permutations(Submission)
=============================================================================
