----------------------------- MODULE RpcClient -----------------------------
(***************************************************************************)
(* What a transport promises the code that issues calls on it              *)
(* (Transport::send and BatchTransport::send_batch of src/lib.rs).         *)
(*                                                                         *)
(* A call is what resolves on its own: one request, or one batch where the *)
(* transport resolves a batch as a whole.  The peer executes it at most    *)
(* once.  The future the caller holds resolves at most once:               *)
(*   "answered"   with the peer's answer to this very call, which the peer *)
(*                therefore executed;                                      *)
(*   "unsent"     with an error that promises that the call never left the *)
(*                process, so that repeating it is safe;                   *)
(*   "failed"     with an error that promises nothing about the execution. *)
(* "cancelled" is a call whose future the caller dropped.                  *)
(***************************************************************************)
CONSTANT Call       \* The calls of one execution.

VARIABLES status,   \* What each caller knows about its call.
          executed  \* The calls the peer may have executed.

vars == <<status, executed>>

Status == {"idle", "waiting", "answered", "unsent", "failed", "cancelled"}

Init == /\ status = [c \in Call |-> "idle"]
        /\ executed = {}

(* The caller issues C, as one batch or one at a time; the transport may
   refuse it at once. *)
Issue(C) == /\ \A c \in C : status[c] = "idle"
            /\ \E s \in {"waiting", "unsent"} :
                 status' = [c \in Call |-> IF c \in C THEN s ELSE status[c]]
            /\ UNCHANGED executed

(* The peer receives C: never twice, and never after the caller was told
   that it was not sent. *)
Execute(C) == /\ \A c \in C : status[c] \in {"waiting", "cancelled"} /\ c \notin executed
              /\ executed' = executed \cup C
              /\ UNCHANGED status

(* How the future of a waiting call may end. *)
Outcome(c) == {"failed", "cancelled"}
              \cup (IF c \in executed THEN {"answered"} ELSE {"unsent"})

Resolve == /\ status' \in [Call -> Status]
           /\ \A c \in Call : status'[c] # status[c]
                => status[c] = "waiting" /\ status'[c] \in Outcome(c)
           /\ UNCHANGED executed

Next == (\E C \in SUBSET Call : Issue(C) \/ Execute(C)) \/ Resolve

Spec == Init /\ [][Next]_vars
=============================================================================
