---------------------------- MODULE HttpTransport ----------------------------
(* The HTTP transport.  Each request, or batch, is an HTTP exchange of its
   own; the clones of a transport share the counter of ids.  Nothing is sent
   until the future is polled.  A response is read in chunks and becomes known
   as it is read: its announced length first, its status and body last.

   The server and the connections are external.  Data are abstract: a body is
   the outputs in it, each with an id and the request it answers. *)
EXTENDS Naturals, Sequences

CONSTANTS
    Call,             \* a request, or a batch, issued once
    Size,             \* Size[c]: the requests in call c
    MaxId,            \* usize::MAX
    MaxResponseSize,  \* the bound on a response, in units
    MaxLength,        \* bound on what a server announces, and on a chunk
    NoId              \* an id that is no number, or none that fits

ASSUME HttpAssumption ==
    /\ Size \in [Call -> Nat \ {0}]
    /\ MaxId \in Nat /\ MaxResponseSize \in Nat /\ MaxLength \in Nat
    /\ NoId \notin Nat

VARIABLES
    status,    \* what each caller knows about its call
    counter,   \* the next id
    ids,       \* the ids of the requests of each call
    exchange,  \* where its HTTP exchange is
    received,  \* units of its response in memory
    answer,    \* answer[c][j]: the request whose result request j was given
    sent       \* calls the server received

httpVars == <<status, counter, ids, exchange, received, answer, sent>>

Request == UNION {{c} \X (1 .. Size[c]) : c \in Call}

HttpTypeOK ==
    /\ status \in [Call -> {"idle", "waiting", "answered", "unsent", "failed", "cancelled"}]
    /\ counter \in 0 .. MaxId
    /\ \A c \in Call : ids[c] \in Seq(0 .. MaxId) /\ Len(ids[c]) <= Size[c]
    /\ exchange \in [Call -> {"none", "lazy", "posted", "reading"}]
    /\ received \in [Call -> Nat]
    /\ \A c \in Call : answer[c] \in Seq(Request)
    /\ sent \in SUBSET Call

HttpInit ==
    /\ status = [c \in Call |-> "idle"] /\ counter = 0
    /\ ids = [c \in Call |-> <<>>] /\ exchange = [c \in Call |-> "none"]
    /\ received = [c \in Call |-> 0] /\ answer = [c \in Call |-> <<>>]
    /\ sent = {}

-----------------------------------------------------------------------------
(* next_request_id: the counter saturates. *)
NextCounter == IF counter < MaxId THEN counter + 1 ELSE MaxId

(* Transport::prepare, once for each request of a batch; others may prepare
   in between. *)
Prepare(c) ==
    /\ status[c] = "idle" /\ Len(ids[c]) < Size[c]
    /\ ids' = [ids EXCEPT ![c] = Append(@, counter)]
    /\ counter' = NextCounter
    /\ UNCHANGED <<status, exchange, received, answer, sent>>

(* send and send_batch; a batch takes one more id, for the log. *)
Send(c) ==
    /\ status[c] = "idle" /\ Len(ids[c]) = Size[c]
    /\ status' = [status EXCEPT ![c] = "waiting"]
    /\ exchange' = [exchange EXCEPT ![c] = "lazy"]
    /\ counter' = IF Size[c] > 1 THEN NextCounter ELSE counter
    /\ UNCHANGED <<ids, received, answer, sent>>

(* A caller cannot build its request: nothing reaches the transport. *)
GiveUp(c) ==
    /\ status[c] = "idle" /\ ids[c] = <<>>
    /\ status' = [status EXCEPT ![c] = "unsent"]
    /\ UNCHANGED <<counter, ids, exchange, received, answer, sent>>

(* The future is polled for the first time. *)
Post(c) ==
    /\ exchange[c] = "lazy" /\ exchange' = [exchange EXCEPT ![c] = "posted"]
    /\ UNCHANGED <<status, counter, ids, received, answer, sent>>

(* The future ends, or is dropped, and the buffer with it. *)
Settle(c, outcome, result) ==
    /\ status' = [status EXCEPT ![c] = outcome]
    /\ answer' = [answer EXCEPT ![c] = result]
    /\ exchange' = [exchange EXCEPT ![c] = "none"]
    /\ received' = [received EXCEPT ![c] = 0]
    /\ UNCHANGED <<counter, ids, sent>>

(* The request cannot be sent, or the connection fails under the response. *)
ConnectionFails(c) == exchange[c] \in {"posted", "reading"} /\ Settle(c, "failed", <<>>)

Cancel(c) == status[c] = "waiting" /\ Settle(c, "cancelled", <<>>)

(* The server receives the request. *)
Arrive(c) ==
    /\ exchange[c] = "posted" /\ c \notin sent
    /\ sent' = sent \cup {c}
    /\ UNCHANGED <<status, counter, ids, exchange, received, answer>>

(* The head of the response, which announces a length or, with 0, none. *)
ReadHead(c) ==
    /\ exchange[c] = "posted" /\ c \in sent
    /\ \E announced \in 0 .. MaxLength :
          IF announced > MaxResponseSize
            THEN Settle(c, "failed", <<>>)
            ELSE /\ exchange' = [exchange EXCEPT ![c] = "reading"]
                 /\ UNCHANGED <<status, counter, ids, received, answer, sent>>

(* A chunk is kept if the whole stays within the bound.  Mutant: the bound is
   on the chunk. *)
Buffers(c, n) ==
    /\ received' = [received EXCEPT ![c] = @ + n]
    /\ UNCHANGED <<status, counter, ids, exchange, answer, sent>>
ReadBoundedChunk(c) ==
    /\ exchange[c] = "reading"
    /\ \E n \in 1 .. MaxLength :
          IF n > MaxResponseSize THEN Settle(c, "failed", <<>>) ELSE Buffers(c, n)
ReadChunk(c) ==
    /\ exchange[c] = "reading"
    /\ \E n \in 1 .. MaxLength :
          IF received[c] + n > MaxResponseSize THEN Settle(c, "failed", <<>>) ELSE Buffers(c, n)

-----------------------------------------------------------------------------
(* What a body may hold.  The server answers each request of the call, in any
   order; a faulty one, or a proxy that tries again, repeats outputs, leaves
   some out, mistakes an id, or mixes in outputs of another call.  Two calls
   with an id in common are never mixed up: HTTP itself keeps them apart, and
   nothing in the outputs could. *)
IdsOf(c) == {ids[c][j] : j \in 1 .. Len(ids[c])}
Mixes(c) == {c} \cup {d \in sent : IdsOf(d) \cap IdsOf(c) = {}}
Outputs(c) == UNION {[id : {ids[r[1]][r[2]], NoId}, of : {r}] : r \in {r \in Request : r[1] \in Mixes(c)}}
Bodies(c) == UNION {[1 .. n -> Outputs(c)] : n \in 0 .. Size[c]}

(* handle_single_response: the id of the one output must be the request's. *)
Single(c, outputs) ==
    IF Len(outputs) = 1 /\ outputs[1].id = ids[c][1] THEN <<outputs[1].of>> ELSE <<>>

(* handle_batch_response: as many outputs as requests, in a map from ids to
   results in which a later output replaces an earlier one.  A result is taken
   out of the map for its request, so that a second request with the same id
   finds none, and the whole batch fails.  Mutant: the result is left in. *)
LatestOf(outputs, i) ==
    outputs[CHOOSE k \in DOMAIN outputs :
              outputs[k].id = i /\ \A l \in DOMAIN outputs : outputs[l].id = i => l <= k].of
Found(c, outputs) ==
    /\ Len(outputs) = Size[c]
    /\ \A k \in DOMAIN outputs : outputs[k].id # NoId
    /\ \A j \in 1 .. Size[c] : \E k \in DOMAIN outputs : outputs[k].id = ids[c][j]
BatchLeftIn(c, outputs) ==
    IF Found(c, outputs) THEN [j \in 1 .. Size[c] |-> LatestOf(outputs, ids[c][j])] ELSE <<>>
Batch(c, outputs) ==
    IF Found(c, outputs) /\ \A j, k \in 1 .. Size[c] : ids[c][j] = ids[c][k] => j = k
      THEN [j \in 1 .. Size[c] |-> LatestOf(outputs, ids[c][j])] ELSE <<>>

(* The end of the response.  A status other than success, a body that is no
   JSON, or an object for a batch, which is an error of the whole batch, fails
   the call. *)
ReadEnd(c) ==
    /\ exchange[c] = "reading"
    /\ \/ Settle(c, "failed", <<>>)
       \/ received[c] > 0 /\ \E outputs \in Bodies(c) :
             LET result == IF Size[c] = 1 THEN Single(c, outputs) ELSE Batch(c, outputs)
             IN  Settle(c, IF result = <<>> THEN "failed" ELSE "answered", result)

HttpStep(c) == \/ Send(c) \/ Post(c) \/ Arrive(c) \/ ReadHead(c) \/ ReadChunk(c)
               \/ ReadEnd(c) \/ ConnectionFails(c) \/ Cancel(c)

(* The transport alone, with callers that only want calls to be made. *)
HttpNext == \E c \in Call : Prepare(c) \/ GiveUp(c) \/ HttpStep(c)

HttpSpec == HttpInit /\ [][HttpNext]_httpVars

-----------------------------------------------------------------------------
(* No division of a response into chunks, and no announced length, makes the
   transport hold more than the bound, and an answered call had a response
   within it. *)
WithinBound == \A c \in Call : received[c] <= MaxResponseSize

(* A call is answered with the results of its own requests, in their order,
   whatever the order and number of the outputs and even when its requests
   share the last id. *)
Own(c) == [j \in 1 .. Size[c] |-> <<c, j>>]
OwnAnswer == \A c \in Call : status[c] = "answered" => answer[c] = Own(c)

(* The transport keeps the promise of RpcClient; an answer that is not the
   call's own is a status the promise does not know. *)
Promised(c) == IF status[c] = "answered" /\ answer[c] # Own(c) THEN "misanswered" ELSE status[c]
Client == INSTANCE RpcClient WITH status <- [c \in Call |-> Promised(c)], executed <- sent
ClientSpec == Client!Spec
=============================================================================
