--------------------------- MODULE BatchTransport ---------------------------
(***************************************************************************)
(* The batching transport (src/src/transports/batch.rs): send collects     *)
(* requests under two locks taken one after the other, submit_batch takes  *)
(* what was collected and gives it to an inner transport, and the future   *)
(* it returns hands the results out, or an error when it is dropped.       *)
(* Senders, submitters and the holders of futures are different threads.   *)
(*                                                                         *)
(* The inner transport is any that keeps the promise of RpcClient for a    *)
(* batch, but may return a list of results of the wrong length.            *)
(***************************************************************************)
EXTENDS Naturals, Sequences, FiniteSets, Functions

CONSTANTS
    Request,     \* One element per invocation of send.
    Submission,  \* One element per invocation of submit_batch.
    MaxId,       \* usize::MAX: the last request id.
    NoRequest

ASSUME ConstantsAssumption == MaxId \in Nat \ {0} /\ NoRequest \notin Request

VARIABLES
    id,        \* id[r]: the id given to send with request r
    status,    \* status[r]: how far send and its future are; see Status
    result,    \* result[r]: the request whose result r resolved with
    handles,   \* some clone of the Batch exists
    pending,   \* Batch::pending: from an id to the request that waits for it
    batch,     \* Batch::batch: the requests to submit, in order
    phase,     \* phase[s]: "none", "taken", "flying" or "ended"
    captured,  \* captured[s]: the requests of submission s, in order
    sent       \* requests the inner transport sent

vars == <<id, status, result, handles, pending, batch, phase, captured, sent>>

Id     == 1 .. MaxId
Status == {"idle", "reserved", "waiting",
           "answered", "unsent", "failed", "cancelled"}

TypeOK ==
    /\ id \in [Request -> Id]
    /\ status \in [Request -> Status]
    /\ result \in [Request -> Request \cup {NoRequest}]
    /\ handles \in BOOLEAN
    /\ DOMAIN pending \subseteq Id /\ pending \in [DOMAIN pending -> Request]
    /\ batch \in Seq(Request)
    /\ phase \in [Submission -> {"none", "taken", "flying", "ended"}]
    /\ captured \in [Submission -> Seq(Request)]
    /\ sent \subseteq Request

(* Ids repeat once the counter of the inner transport saturates. *)
Init ==
    /\ id \in [Request -> Id]
    /\ status = [r \in Request |-> "idle"]
    /\ result = [r \in Request |-> NoRequest]
    /\ handles = TRUE
    /\ pending = <<>> /\ batch = <<>>
    /\ phase = [s \in Submission |-> "none"]
    /\ captured = [s \in Submission |-> <<>>]
    /\ sent = {}

-----------------------------------------------------------------------------
(* Transport::send: the sender enters the map under one lock and the request
   the list under another. *)

Goes(r, from, to) == status[r] = from /\ status' = [status EXCEPT ![r] = to]

WithEntry(r) == [i \in DOMAIN pending \cup {id[r]} |->
                   IF i = id[r] THEN r ELSE pending[i]]

(* Mutant: the sender of the other request is replaced, and dropped. *)
InsertOrReplace(r) ==
    /\ pending' = WithEntry(r)
    /\ status' = [q \in Request |->
                    CASE q = r -> "reserved"
                      [] id[r] \in DOMAIN pending /\ q = pending[id[r]] /\ q # r -> "failed"
                      [] OTHER -> status[q]]
InsertOrRefuse(r) ==
    IF id[r] \in DOMAIN pending
      THEN Goes(r, "idle", "unsent") /\ UNCHANGED pending
      ELSE Goes(r, "idle", "reserved") /\ pending' = WithEntry(r)

Reserve(r) ==
    /\ handles /\ status[r] = "idle"
    /\ InsertOrRefuse(r)
    /\ UNCHANGED <<id, result, handles, batch, phase, captured, sent>>

Push(r) ==
    /\ Goes(r, "reserved", "waiting")
    /\ batch' = Append(batch, r)
    /\ UNCHANGED <<id, result, handles, pending, phase, captured, sent>>

Send(r) == Reserve(r) \/ Push(r)

(* The caller drops the SingleResult. *)
Cancel(r) ==
    /\ Goes(r, "waiting", "cancelled")
    /\ UNCHANGED <<id, result, handles, pending, batch, phase, captured, sent>>

-----------------------------------------------------------------------------
(* submit_batch. *)

Moves(s, from, to) == phase[s] = from /\ phase' = [phase EXCEPT ![s] = to]

(* mem::take under the lock of the list. *)
TakeBatch(s) ==
    /\ handles /\ Moves(s, "none", "taken")
    /\ captured' = [captured EXCEPT ![s] = batch]
    /\ batch' = <<>>
    /\ UNCHANGED <<id, status, result, handles, pending, sent>>

(* The inner transport sends the batch at once, or never. *)
SendBatch(s) ==
    /\ Moves(s, "taken", "flying")
    /\ sent' \in {sent, sent \cup Range(captured[s])}
    /\ UNCHANGED <<id, status, result, handles, pending, batch, captured>>

(* PendingBatchGuard::take_senders: the positions of the submission whose
   sender is still in the map. *)
Senders(s) == {i \in DOMAIN captured[s] : id[captured[s][i]] \in DOMAIN pending}
SenderAt(s, i) == pending[id[captured[s][i]]]

(* The last reference to the map goes with submission s: the senders left in
   it are dropped, and their futures resolve with Error::Internal.  Mutant:
   the map outlives them all. *)
Leaked(s)        == FALSE
LastReference(s) == ~handles /\ \A t \in Submission \ {s} : phase[t] \in {"none", "ended"}

(* Submission s ends: each position i of outcome gives its sender the status
   outcome[i].  A future that was dropped stays dropped. *)
Told(s, outcome, r) == {i \in DOMAIN outcome : SenderAt(s, i) = r}
EndWith(s, outcome) ==
    /\ Moves(s, "flying", "ended")
    /\ status' = [r \in Request |->
         CASE status[r] # "waiting"      -> status[r]
           [] status[r] = "waiting" /\ Told(s, outcome, r) # {}
                -> outcome[CHOOSE i \in Told(s, outcome, r) : TRUE]
           [] OTHER -> IF LastReference(s) /\ r \in Range(pending) THEN "failed"
                                                                   ELSE "waiting"]
    /\ pending' = IF LastReference(s) THEN <<>>
                  ELSE Restrict(pending,
                         DOMAIN pending \ {id[captured[s][i]] : i \in DOMAIN outcome})
    /\ UNCHANGED <<id, handles, batch, captured, sent>>

AllGet(s, st) == [i \in Senders(s) |-> st]

(* What the inner transport returns: an error, which says that nothing was
   sent if that is so, or a list of results, position by position. *)
InnerFails(s) ==
    /\ \E error \in {"failed"} \cup (IF Range(captured[s]) \cap sent = {}
                                       THEN {"unsent"} ELSE {}) :
         EndWith(s, AllGet(s, error))
    /\ UNCHANGED result

(* The right list, one without its head, and one with a result too many. *)
ResultLists(s) == {captured[s]}
                  \cup (IF captured[s] = <<>> THEN {}
                        ELSE {Tail(captured[s]), <<captured[s][1]>> \o captured[s]})

(* results.len() != guard.ids.len().  Mutant: the lengths are not compared. *)
NotEmpty(s, results) == results # <<>>
Fits(s, results)     == Len(results) = Len(captured[s])

InnerReturns(s) ==
    /\ Range(captured[s]) \subseteq sent
    /\ \E results \in ResultLists(s) :
         \/ /\ Fits(s, results)
            /\ EndWith(s, [i \in Senders(s) |->
                            IF i <= Len(results) THEN "answered" ELSE "failed"])
            /\ result' = [r \in Request |->
                 IF status[r] = "waiting" /\ status'[r] = "answered"
                   THEN results[CHOOSE i \in Senders(s) : SenderAt(s, i) = r]
                   ELSE result[r]]
         \/ /\ ~Fits(s, results)
            /\ EndWith(s, AllGet(s, "failed"))
            /\ UNCHANGED result

(* The future is dropped: the guard fails what it captured.  Mutant: there is
   no guard. *)
DropUnguarded(s)  == EndWith(s, <<>>) /\ UNCHANGED result
DropSubmission(s) == EndWith(s, AllGet(s, "failed")) /\ UNCHANGED result

(* The last clone of the Batch goes, and the list with it; a thread inside
   send or submit_batch has one, so nothing is between the two locks then.
   The map goes too, unless the guard of a submission refers to it. *)
DropHandles ==
    /\ handles /\ handles' = FALSE
    /\ \A r \in Request : status[r] # "reserved"
    /\ \A s \in Submission : phase[s] # "taken"
    /\ batch' = <<>>
    /\ IF \A s \in Submission : phase[s] # "flying"
         THEN /\ status' = [r \in Request |->
                              IF status[r] = "waiting" /\ r \in Range(pending)
                                THEN "failed" ELSE status[r]]
              /\ pending' = <<>>
         ELSE UNCHANGED <<status, pending>>
    /\ UNCHANGED <<id, result, phase, captured, sent>>

Submit(s) == TakeBatch(s) \/ SendBatch(s)
Inner(s)  == InnerReturns(s) \/ InnerFails(s)

Next == \/ \E r \in Request : Send(r) \/ Cancel(r)
        \/ \E s \in Submission : Submit(s) \/ Inner(s) \/ DropSubmission(s)
        \/ DropHandles

Spec == Init /\ [][Next]_vars

(* A thread inside a function leaves it, and every future of a submission is
   polled until the inner transport resolves it, or dropped. *)
FairSpec == /\ Spec
            /\ \A r \in Request : WF_vars(Push(r))
            /\ \A s \in Submission : /\ WF_vars(SendBatch(s))
                                     /\ WF_vars(Inner(s) \/ DropSubmission(s))

-----------------------------------------------------------------------------
Captured(s)  == IF phase[s] \in {"taken", "flying"} THEN Range(captured[s]) ELSE {}
Collected    == Range(batch)
InFlight     == UNION {Captured(s) : s \in Submission}

(* The sender of every request that still waits is in the map under its own
   id; so is that of a request whose thread is between the two locks. *)
SenderKept == \A r \in Request : status[r] \in {"reserved", "waiting"}
                 => id[r] \in DOMAIN pending /\ pending[id[r]] = r

(* The inductive invariant behind SenderKept and OwnResult.  Each sender in
   the map belongs to one request on its way: between the two locks, in the
   list, or captured by one submission, and there only once.  Nothing is left
   behind that no submission would ever take, unless nobody can submit. *)
OnItsWay ==
    /\ \A i \in DOMAIN pending :
          /\ id[pending[i]] = i
          /\ status[pending[i]] = "reserved" \/ ~handles
             \/ pending[i] \in Collected \cup InFlight
    /\ \A r \in Collected \cup InFlight :
          /\ status[r] \in {"waiting", "cancelled"}
          /\ id[r] \in DOMAIN pending /\ pending[id[r]] = r
    /\ \A s \in Submission : Collected \cap Captured(s) = {}
    /\ \A s, t \in Submission : s # t => Captured(s) \cap Captured(t) = {}
    /\ IsInjective(batch)
    /\ \A s \in Submission : phase[s] \in {"taken", "flying"} => IsInjective(captured[s])

(* Without a handle nobody is inside send or submit_batch, and the list is gone. *)
Released ==
    ~handles => /\ batch = <<>>
                /\ \A r \in Request : status[r] # "reserved"
                /\ \A s \in Submission : phase[s] # "taken"

(* What was sent is not sent again, and was not reported as unsent. *)
SentOnce ==
    \A r \in sent : /\ status[r] \notin {"idle", "reserved", "unsent"}
                    /\ r \notin Collected
                    /\ \A s \in Submission : phase[s] = "taken" => r \notin Captured(s)

(* A request is answered with its own result, whatever list the inner
   transport returns and however submissions overlap. *)
OwnResult == \A r \in Request : status[r] = "answered" => result[r] = r

(* Every sender in the map is on its way, results have reached their own
   requests, nothing is sent twice, and types hold. *)
BatchInv == TypeOK /\ SenderKept /\ OnItsWay /\ Released /\ SentOnce /\ OwnResult

(* Every request a submission took resolves when the submission ends. *)
SubmittedResolves ==
    \A r \in Request : (r \in InFlight) ~> status[r] # "waiting"

(* Once the last handle is gone no future waits for ever, not even that of a
   request nobody submitted. *)
ReleaseSettles == \A r \in Request : ~handles ~> status[r] # "waiting"

(* The transport keeps the promise of RpcClient. *)
Promised(r) == CASE status[r] = "reserved" -> "idle"
                 [] status[r] = "answered" /\ result[r] # r -> "misanswered"
                 [] OTHER -> status[r]
Client == INSTANCE RpcClient WITH Call <- Request,
                                  status <- [r \in Request |-> Promised(r)],
                                  executed <- sent
ClientSpec == Client!Spec
=============================================================================
