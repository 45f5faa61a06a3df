---------------------------- MODULE IpcTransport ----------------------------
(***************************************************************************)
(* The IPC transport (src/src/transports/ipc.rs): callers put messages on  *)
(* a bounded queue; run_server takes them off, writes requests to a Unix   *)
(* socket, and cuts the bytes it reads into JSON messages.  Each request   *)
(* has a sender of its own, also within a batch.                           *)
(*                                                                         *)
(* A message of the peer is two pieces of the byte stream, and a piece is  *)
(* what the model counts for max_response_size.                            *)
(***************************************************************************)
EXTENDS NotificationStreams, FiniteSets, Functions, FiniteSetsExt

CONSTANTS
    Call,             \* One element per invocation of send or send_batch.
    BatchCall,        \* The invocations of send_batch.
    Size,             \* Size[c]: the number of requests in call c.
    MaxId,            \* usize::MAX: the last request id.
    ChannelCapacity,  \* channel_capacity of new_with_limits.
    MaxBuffer,        \* max_response_size, in pieces.
    PeerWindow,       \* Unanswered calls the socket and the peer take
                      \* before a write has to wait.
    WireCap,          \* Messages the peer sends ahead of the task.
    PeerFaults,       \* What the peer may do besides answering; see Faults.
    NoCall, NoRequest

Faults == {"outputs",    \* responses that do not match one call
           "malformed",  \* JSON that is no response and no notification
           "ignored",    \* a notification that notify only logs
           "end",        \* the peer closes the stream
           "large",      \* a message larger than max_response_size
           "break"}      \* the connection breaks

ASSUME ConstantsAssumption ==
    /\ BatchCall \subseteq Call
    /\ Size \in [Call -> Nat] /\ \A c \in Call \ BatchCall : Size[c] = 1
    /\ MaxId \in Nat \ {0}
    /\ ChannelCapacity \in Nat \ {0} /\ MaxBuffer \in Nat
    /\ PeerWindow \in Nat \ {0} /\ WireCap \in Nat \ {0}
    /\ PeerFaults \subseteq Faults
    /\ NoCall \notin Call

Request == UNION {{c} \X (1 .. Size[c]) : c \in Call}
ASSUME RequestAssumption == NoRequest \notin Request

VARIABLES
    counter,   \* Ipc::id, the next request id
    ids,       \* ids[c]: the request ids of call c, in request order
    issued,    \* calls given to send or send_batch
    handles,   \* some clone of the Ipc handle exists
    status,    \* status[r]: what the caller of request r knows
    answer,    \* answer[r]: the request whose result r resolved with
    queue,     \* the mpsc channel between callers and the task
    pending,   \* pending_response_txs: from a request id to its request
    batches,   \* pending_batches: from a first id to the ids of a batch
    writing,   \* the call whose bytes the task is writing, or NoCall
    closed,    \* the task saw the end of the queue
    buffered,  \* pieces of the wire that are in read_buffer
    task,      \* "running", "broken" (left its loop) or "done" (dropped)
    link,      \* "up", "ended", "cut" (ended inside a message), "broken", or
               \* "large": a message that does not fit follows those of the wire
    sent,      \* requests that were written to the socket
    owed,      \* calls the peer has to answer
    wire       \* messages from the peer the task has not decoded

callVars == <<counter, ids, issued, handles, status, answer>>
taskVars == <<queue, pending, batches, writing, closed, buffered, task>>
peerVars == <<link, sent, owed, wire>>
vars     == <<callVars, taskVars, peerVars, subVars>>

Id     == 1 .. MaxId
Status == {"idle", "waiting", "answered", "unsent", "failed", "cancelled"}

(* TransportMessage; Single and Batch differ only in their call. *)
RequestMsg(c)     == [kind |-> "request", call |-> c]
SubscribeMsg(h)   == [kind |-> "subscribe", stream |-> h]
UnsubscribeMsg(s) == [kind |-> "unsubscribe", id |-> s]
TransportMessage  == {RequestMsg(c) : c \in Call}
                     \cup {SubscribeMsg(h) : h \in Stream}
                     \cup {UnsubscribeMsg(s) : s \in SubId}

(* An rpc::Output: an id, and as its value the request the peer computed it
   for.  Id 0 stands for what output_request_id refuses. *)
IdOf(r)  == ids[r[1]][r[2]]
Output   == [id : Id \cup {0}, value : Request \cup {NoRequest}]
OutputOf(r) == IF r = NoRequest THEN [id |-> 0, value |-> r]
                                ELSE [id |-> IdOf(r), value |-> r]

SingleMsg(out)        == [kind |-> "single", outputs |-> <<out>>]
BatchMsg(outs)        == [kind |-> "batch", outputs |-> outs]
NotificationMsg(s, n) == [kind |-> "notification", id |-> s, number |-> n]
OddMsg(kind)          == [kind |-> kind]
WireMessage == [kind : {"single", "batch"}, outputs : Seq(Output)]
               \cup [kind : {"notification"}, id : SubId, number : Nat]
               \cup [kind : {"malformed", "ignored"}]

CallTypesOK ==
    /\ counter \in Id
    /\ ids \in [Call -> Seq(Id)]
    /\ issued \subseteq Call /\ handles \in BOOLEAN
    /\ status \in [Request -> Status]
    /\ answer \in [Request -> Request \cup {NoRequest}]
TaskTypesOK ==
    /\ queue \in Seq(TransportMessage)
    /\ DOMAIN pending \subseteq Id /\ pending \in [DOMAIN pending -> Request]
    /\ DOMAIN batches \subseteq Id /\ batches \in [DOMAIN batches -> SUBSET Id]
    /\ writing \in Call \cup {NoCall}
    /\ closed \in BOOLEAN /\ buffered \in Nat
    /\ task \in {"running", "broken", "done"}
PeerTypesOK ==
    /\ link \in {"up", "ended", "cut", "large", "broken"}
    /\ sent \subseteq Request /\ owed \subseteq Call
    /\ wire \in Seq(WireMessage)
TypeOK == CallTypesOK /\ TaskTypesOK /\ PeerTypesOK /\ SubTypesOK

Init ==
    /\ counter = 1
    /\ ids = [c \in Call |-> <<>>]
    /\ issued = {} /\ handles = TRUE
    /\ status = [r \in Request |-> "idle"]
    /\ answer = [r \in Request |-> NoRequest]
    /\ queue = <<>> /\ pending = <<>> /\ batches = <<>>
    /\ writing = NoCall /\ closed = FALSE /\ buffered = 0
    /\ task = "running"
    /\ link = "up"
    /\ sent = {} /\ owed = {} /\ wire = <<>>
    /\ SubInit

-----------------------------------------------------------------------------
(* Callers. *)

RequestsOf(C) == {r \in Request : r[1] \in C}

(* try_send: a tokio channel holds exactly its capacity. *)
Accepts == task # "done" /\ Len(queue) < ChannelCapacity

(* The status of each request of R whose caller still waits becomes s. *)
Settled(R, s) == [r \in Request |->
                    IF r \in R /\ status[r] = "waiting" THEN s ELSE status[r]]

(* next_request_id: the counter saturates. *)
Successor(i) == IF i < MaxId THEN i + 1 ELSE MaxId

Prepare(c) ==
    /\ handles /\ c \notin issued /\ Len(ids[c]) < Size[c]
    /\ ids' = [ids EXCEPT ![c] = Append(@, counter)]
    /\ counter' = Successor(counter)
    /\ UNCHANGED <<issued, handles, status, answer, taskVars, peerVars, subVars>>

(* Transport::send and BatchTransport::send_batch; an empty batch, too,
   takes a place in the queue. *)
Send(c) ==
    /\ handles /\ c \notin issued /\ Len(ids[c]) = Size[c]
    /\ issued' = issued \cup {c}
    /\ queue' = IF Accepts THEN Append(queue, RequestMsg(c)) ELSE queue
    /\ status' = [r \in Request |->
                    IF r[1] # c THEN status[r]
                    ELSE IF Accepts THEN "waiting" ELSE "unsent"]
    /\ UNCHANGED <<counter, ids, handles, answer>>
    /\ UNCHANGED <<pending, batches, writing, closed, buffered, task>>
    /\ UNCHANGED <<peerVars, subVars>>

(* The caller drops the SingleResponse or BatchResponse. *)
Cancel(c) ==
    /\ \E r \in RequestsOf({c}) : status[r] = "waiting"
    /\ status' = Settled(RequestsOf({c}), "cancelled")
    /\ UNCHANGED <<counter, ids, issued, handles, answer>>
    /\ UNCHANGED <<taskVars, peerVars, subVars>>

(* A subscribe or unsubscribe message, if the channel takes it. *)
Enqueue(m) == queue' = IF Accepts THEN Append(queue, m) ELSE queue

Subscribe(h) ==
    /\ handles /\ consumer[h] = "none"
    /\ Enqueue(SubscribeMsg(h))
    /\ Becomes(h, IF Accepts THEN "open" ELSE "refused")
    /\ UNCHANGED <<callVars, pending, batches, writing, closed, buffered, task>>
    /\ UNCHANGED peerVars

SinkAlive(h) == \/ \E i \in 1 .. Len(queue) : queue[i] = SubscribeMsg(h)
                \/ registered[sub[h]] = h

Poll(h) ==
    /\ consumer[h] = "open"
    /\ Receive(h, SinkAlive(h))
    /\ UNCHANGED <<callVars, taskVars, peerVars>>

Drop(h) ==
    /\ consumer[h] \in {"open", "ended"}
    /\ Enqueue(UnsubscribeMsg(sub[h]))
    /\ Becomes(h, "dropped")
    /\ UNCHANGED <<callVars, pending, batches, writing, closed, buffered, task>>
    /\ UNCHANGED peerVars

(* The last clone of the handle goes; every stream holds one. *)
DropHandles ==
    /\ handles /\ \A h \in Stream : consumer[h] \notin {"open", "ended"}
    /\ handles' = FALSE
    /\ UNCHANGED <<counter, ids, issued, status, answer>>
    /\ UNCHANGED <<taskVars, peerVars, subVars>>

CallerStep == \/ \E c \in Call : Prepare(c) \/ Send(c) \/ Cancel(c)
              \/ \E h \in Stream : Subscribe(h) \/ Poll(h) \/ Drop(h)
              \/ DropHandles

-----------------------------------------------------------------------------
(* The background task, run_server.  While it writes it polls nothing else,
   and it decodes every complete message of a chunk before it goes on. *)

PendingRequests == Range(pending)
QueuedCalls     == {c \in Call : \E i \in 1 .. Len(queue) : queue[i] = RequestMsg(c)}

(* The way out of run_server: what is left in the maps goes with it. *)
LeaveLoop == /\ pending' = <<>> /\ batches' = <<>>
             /\ writing' = NoCall
             /\ task' = "broken"

(* fail_all_pending, and the way out.  Mutant: only the requests of batches
   are told. *)
FailBatchesOnly ==
    /\ status' = Settled({pending[i] : i \in UNION Range(batches)}, "failed")
    /\ LeaveLoop
FailPending ==
    /\ status' = Settled(PendingRequests, "failed")
    /\ LeaveLoop

Decoding == task = "running" /\ writing = NoCall /\ buffered >= 2
Finished == closed /\ pending = <<>>
Polls    == /\ task = "running" /\ writing = NoCall /\ buffered < 2
            /\ ~Finished

(* The condition of the while loop. *)
Leave ==
    /\ task = "running" /\ writing = NoCall /\ buffered < 2 /\ Finished
    /\ LeaveLoop
    /\ UNCHANGED <<callVars, queue, closed, buffered, peerVars, subVars>>

(* The queue is empty and its last sender is gone.  Mutant: as in the
   WebSocket transport, nothing follows from it. *)
TakeClosedIgnored ==
    /\ Polls /\ ~closed /\ ~handles /\ queue = <<>>
    /\ UNCHANGED vars
TakeClosed ==
    /\ Polls /\ ~closed /\ ~handles /\ queue = <<>>
    /\ closed' = TRUE
    /\ UNCHANGED <<callVars, queue, pending, batches, writing, buffered, task>>
    /\ UNCHANGED <<peerVars, subVars>>

(* The requests of c that the task accepts: those whose id is not pending,
   the first of those that share an id.  Mutant: all of them. *)
EveryRequest(c) == 1 .. Size[c]
Fresh(c) == {j \in 1 .. Size[c] : /\ ids[c][j] \notin DOMAIN pending
                                  /\ \A i \in 1 .. j - 1 : ids[c][i] # ids[c][j]}

(* The requests that are told of an id collision.  Mutant: the requests whose
   entry is taken over. *)
Replaced(c) == {pending[i] : i \in Range(ids[c]) \cap DOMAIN pending}
Refused(c)  == {<<c, j>> : j \in 1 .. Size[c] \ Fresh(c)}

Take(c) ==
    /\ Polls /\ queue # <<>> /\ Head(queue) = RequestMsg(c)
    /\ queue' = Tail(queue)
    /\ LET accepted == Fresh(c)
           new == {ids[c][j] : j \in accepted} IN
         /\ pending' = [i \in DOMAIN pending \cup new |->
                          IF i \in new
                            THEN <<c, CHOOSE j \in accepted : ids[c][j] = i>>
                            ELSE pending[i]]
         /\ status' = Settled(Refused(c), "unsent")
         /\ writing' = IF accepted = {} THEN NoCall ELSE c
    /\ UNCHANGED <<counter, ids, issued, handles, answer>>
    /\ UNCHANGED <<batches, closed, buffered, task, peerVars, subVars>>

(* The accepted ids of the call that is being written.  Mutant: all of its
   ids. *)
AllIds(c)      == Range(ids[c])
AcceptedIds(c) == {i \in DOMAIN pending : pending[i][1] = c}
FirstId(c)     == ids[c][Min({j \in 1 .. Size[c] : ids[c][j] \in AcceptedIds(c)})]

(* socket_writer.write_all, which waits for the peer. *)
WriteAll ==
    /\ writing # NoCall /\ link # "broken"
    /\ Cardinality(owed) < PeerWindow
    /\ sent' = sent \cup {pending[i] : i \in AcceptedIds(writing)}
    /\ owed' = owed \cup {writing}
    /\ batches' = IF writing \notin BatchCall THEN batches
                  ELSE [k \in DOMAIN batches \cup {FirstId(writing)} |->
                          IF k = FirstId(writing) THEN AcceptedIds(writing)
                                                  ELSE batches[k]]
    /\ writing' = NoCall
    /\ UNCHANGED <<callVars, queue, pending, closed, buffered, task>>
    /\ UNCHANGED <<link, wire, subVars>>

WriteFails ==
    /\ writing # NoCall /\ link \notin {"up", "large"}
    /\ FailPending
    /\ UNCHANGED <<counter, ids, issued, handles, answer>>
    /\ UNCHANGED <<queue, closed, buffered, peerVars, subVars>>

TakeSubscribe(h) ==
    /\ Polls /\ queue # <<>> /\ Head(queue) = SubscribeMsg(h)
    /\ queue' = Tail(queue)
    /\ Register(h)
    /\ UNCHANGED <<callVars, pending, batches, writing, closed, buffered, task>>
    /\ UNCHANGED peerVars

TakeUnsubscribe(s) ==
    /\ Polls /\ queue # <<>> /\ Head(queue) = UnsubscribeMsg(s)
    /\ queue' = Tail(queue)
    /\ Unregister(s)
    /\ UNCHANGED <<callVars, pending, batches, writing, closed, buffered, task>>
    /\ UNCHANGED peerVars

(* The pieces the socket still has: the last one of a stream that ended
   inside a message never comes. *)
Unread == 2 * Len(wire) - buffered - (IF link = "cut" THEN 1 ELSE 0)

Read(n) ==
    /\ Polls /\ link # "broken" /\ n <= Unread
    /\ buffered + n <= MaxBuffer
    /\ buffered' = buffered + n
    /\ UNCHANGED <<callVars, queue, pending, batches, writing, closed, task>>
    /\ UNCHANGED <<peerVars, subVars>>

(* The reasons to give up that lie in the stream: too many bytes, an error,
   or the end of the stream.  Mutants: an end between messages is none; a full
   buffer waits for room. *)
FullBufferWaits == \/ link = "broken"
                   \/ link \in {"ended", "cut"} /\ Unread = 0
EndsInsideMessage == \/ link # "broken" /\ Unread > 0 /\ buffered + Unread > MaxBuffer
                     \/ link \in {"large", "broken"}
                     \/ link \in {"ended", "cut"} /\ Unread = 0 /\ buffered > 0
StreamFails == \/ link # "broken" /\ Unread > 0 /\ buffered + Unread > MaxBuffer
               \/ link \in {"large", "broken"}
               \/ link \in {"ended", "cut"} /\ Unread = 0

ReadFails ==
    /\ Polls /\ StreamFails
    /\ FailPending
    /\ UNCHANGED <<counter, ids, issued, handles, answer>>
    /\ UNCHANGED <<queue, closed, buffered, peerVars, subVars>>

(* The next value of the StreamDeserializer. *)
Decodes(kinds) == /\ Decoding /\ Head(wire).kind \in kinds
                  /\ wire' = Tail(wire)
                  /\ buffered' = buffered - 2

(* respond: what is refused before any output reaches its caller. *)
OutputIds(outs) == {outs[i].id : i \in DOMAIN outs} \ {0}
Touched(outs)   == {k \in DOMAIN batches : batches[k] \cap OutputIds(outs) # {}}
Distinct(outs)  == \A i, j \in DOMAIN outs :
                      outs[i].id = outs[j].id /\ outs[i].id # 0 => i = j
AllKnown(outs)  == \A i \in DOMAIN outs : outs[i].id \in DOMAIN pending

(* The outputs of a batch are exactly the answers to one pending batch, or
   answers to single requests.  Mutant: part of a batch is enough. *)
PartOfBatch(outs) ==
    /\ outs # <<>> /\ Distinct(outs) /\ Cardinality(Touched(outs)) <= 1
    /\ \A k \in Touched(outs) : OutputIds(outs) \subseteq batches[k]
WholeBatch(outs) ==
    /\ outs # <<>> /\ Distinct(outs) /\ Cardinality(Touched(outs)) <= 1
    /\ \A k \in Touched(outs) : /\ OutputIds(outs) = batches[k]
                                /\ \A i \in DOMAIN outs : outs[i].id # 0
OneRequest(outs) == AllKnown(outs) /\ Touched(outs) = {}

Correlates(msg) == CASE msg.kind = "single" -> OneRequest(msg.outputs)
                     [] msg.kind = "batch"  -> WholeBatch(msg.outputs)
                     [] OTHER -> FALSE

(* The requests that outs answers, and what they get.  Mutant: the outputs
   are dealt out in the order of the response. *)
Answered(outs) == {pending[i] : i \in OutputIds(outs) \cap DOMAIN pending}
AnswerInOrder(outs) ==
    answer' = [r \in Request |->
                 IF r \in Answered(outs) /\ status[r] = "waiting"
                   THEN outs[Min({r[2], Len(outs)})].value ELSE answer[r]]
AnswerWith(outs) ==
    answer' = [r \in Request |->
                 IF r \in Answered(outs) /\ status[r] = "waiting"
                   THEN outs[CHOOSE i \in DOMAIN outs : outs[i].id = IdOf(r)].value
                   ELSE answer[r]]

Respond ==
    /\ Decodes({"single", "batch"})
    /\ LET outs == Head(wire).outputs IN
         /\ Correlates(Head(wire)) /\ AllKnown(outs)
         /\ AnswerWith(outs)
         /\ status' = Settled(Answered(outs), "answered")
         /\ pending' = Restrict(pending, DOMAIN pending \ OutputIds(outs))
         /\ batches' = Restrict(batches, DOMAIN batches \ Touched(outs))
    /\ UNCHANGED <<counter, ids, issued, handles, queue, writing, closed, task>>
    /\ UNCHANGED <<link, sent, owed, subVars>>

(* Answers to single requests in one message with outputs that answer
   nothing: the first are delivered, then respond returns the error. *)
RespondPartly ==
    /\ Decodes({"batch"})
    /\ LET outs == Head(wire).outputs IN
         /\ Correlates(Head(wire)) /\ ~AllKnown(outs)
         /\ AnswerWith(outs)
         /\ status' = [r \in Request |->
                         IF r \in PendingRequests \ Answered(outs)
                           THEN Settled(PendingRequests, "failed")[r]
                           ELSE Settled(Answered(outs), "answered")[r]]
    /\ LeaveLoop
    /\ UNCHANGED <<counter, ids, issued, handles, queue, closed>>
    /\ UNCHANGED <<link, sent, owed, subVars>>

(* A value that is refused as a whole. *)
Reject ==
    /\ Decodes({"single", "batch", "malformed"}) /\ ~Correlates(Head(wire))
    /\ FailPending
    /\ UNCHANGED <<counter, ids, issued, handles, answer, queue, closed>>
    /\ UNCHANGED <<link, sent, owed, subVars>>

Notify ==
    /\ Decodes({"notification"})
    /\ Offer(Head(wire).id, Head(wire).number, ChannelCapacity)
    /\ UNCHANGED <<callVars, queue, pending, batches, writing, closed, task>>
    /\ UNCHANGED <<link, sent, owed>>

Ignore ==
    /\ Decodes({"ignored"})
    /\ UNCHANGED <<callVars, queue, pending, batches, writing, closed, task>>
    /\ UNCHANGED <<link, sent, owed, subVars>>

(* The end of run_server drops the sinks and the channel, and with it the
   senders in it: their callers see a RecvError.  Mutant: the messages stay
   in the closed channel. *)
FinishUndrained ==
    /\ task = "broken"
    /\ task' = "done"
    /\ CloseAll
    /\ UNCHANGED <<callVars, queue, pending, batches, writing, closed, buffered>>
    /\ UNCHANGED peerVars
Finish ==
    /\ task = "broken"
    /\ task' = "done"
    /\ status' = Settled(RequestsOf(QueuedCalls), "failed")
    /\ queue' = <<>>
    /\ CloseAll
    /\ UNCHANGED <<counter, ids, issued, handles, answer>>
    /\ UNCHANGED <<pending, batches, writing, closed, buffered, peerVars>>

TaskStep == \/ \E c \in Call : Take(c)
            \/ \E h \in Stream : TakeSubscribe(h)
            \/ \E s \in SubId : TakeUnsubscribe(s)
            \/ TakeClosed \/ Leave \/ WriteAll \/ WriteFails
            \/ \E n \in 1 .. 2 * WireCap : Read(n)
            \/ ReadFails \/ Respond \/ RespondPartly \/ Reject \/ Notify \/ Ignore
            \/ Finish

-----------------------------------------------------------------------------
(* The peer. *)

PeerSends(m) == link = "up" /\ Len(wire) < WireCap /\ wire' = Append(wire, m)

SentOf(c) == {r \in sent : r[1] = c}

(* The outputs of a batch come in any order. *)
PeerAnswers(c) ==
    /\ c \in owed
    /\ IF c \in BatchCall
         THEN \E p \in Bijection(1 .. Cardinality(SentOf(c)), SentOf(c)) :
                PeerSends(BatchMsg([i \in DOMAIN p |-> OutputOf(p[i])]))
         ELSE PeerSends(SingleMsg(OutputOf(<<c, 1>>)))
    /\ owed' = owed \ {c}
    /\ UNCHANGED <<callVars, taskVars, link, sent, subVars>>

PeerNotifies(s) ==
    /\ PeerSends(NotificationMsg(s, emitted[s] + 1))
    /\ Emit(s)
    /\ UNCHANGED <<callVars, taskVars, link, sent, owed>>

(* One output on its own, or up to two in a batch, for requests it has
   received or with an id it made up. *)
PeerMisanswers ==
    /\ "outputs" \in PeerFaults
    /\ \/ \E r \in sent \cup {NoRequest} : PeerSends(SingleMsg(OutputOf(r)))
       \/ \E n \in 0 .. 2 : \E r \in [1 .. n -> sent \cup {NoRequest}] :
            PeerSends(BatchMsg([i \in 1 .. n |-> OutputOf(r[i])]))
    /\ UNCHANGED <<callVars, taskVars, link, sent, owed, subVars>>

PeerSendsOdd ==
    /\ \E kind \in PeerFaults \cap {"malformed", "ignored"} : PeerSends(OddMsg(kind))
    /\ UNCHANGED <<callVars, taskVars, link, sent, owed, subVars>>

(* The stream ends after, or inside, the last message. *)
PeerEnds ==
    /\ "end" \in PeerFaults /\ link = "up"
    /\ link' \in IF Unread > 0 THEN {"ended", "cut"} ELSE {"ended"}
    /\ UNCHANGED <<callVars, taskVars, sent, owed, wire, subVars>>

(* A message too large for the buffer is on its way: whatever the chunk it
   begins in, one of them does not fit. *)
PeerOverflows ==
    /\ "large" \in PeerFaults /\ link = "up"
    /\ link' = "large"
    /\ UNCHANGED <<callVars, taskVars, sent, owed, wire, subVars>>

Break ==
    /\ "break" \in PeerFaults /\ link # "broken"
    /\ link' = "broken"
    /\ UNCHANGED <<callVars, taskVars, sent, owed, wire, subVars>>

PeerStep == \/ \E c \in Call : PeerAnswers(c)
            \/ \E s \in SubId : PeerNotifies(s)
            \/ PeerMisanswers \/ PeerSendsOdd \/ PeerEnds \/ PeerOverflows \/ Break

-----------------------------------------------------------------------------
Next == CallerStep \/ TaskStep \/ PeerStep

Spec == Init /\ [][Next]_vars

(* The runtime keeps polling the task, and consumers poll their streams. *)
FairSpec == Spec /\ WF_vars(TaskStep) /\ \A h \in Stream : WF_vars(Poll(h))

(* Besides, the peer answers what it owes. *)
LiveSpec == FairSpec /\ \A c \in Call : WF_vars(PeerAnswers(c))

-----------------------------------------------------------------------------
(* A request whose caller waits has its sender in the queue or in the pending
   map of a task that has not ended, and in one of them only: no path of
   run_server leaves a future that nothing will ever resolve. *)
CallerHeld ==
    \A r \in Request : status[r] = "waiting"
                       => /\ task # "done"
                          /\ ~(r[1] \in QueuedCalls <=> r \in PendingRequests)

(* pending_batches says of every batch exactly which ids it still waits for:
   the batches share no id, each is keyed by one of its own, and all of their
   ids are pending requests of one call, so that respond never meets an id of
   a matched batch that it cannot answer, and never refuses a single answer
   because of a batch that did not ask for it. *)
BatchesHeld ==
    \A k \in DOMAIN batches :
        /\ k \in batches[k]
        /\ \A i \in batches[k] : i \in DOMAIN pending /\ pending[i][1] = pending[k][1]
        /\ \A j \in DOMAIN batches : j # k => batches[j] \cap batches[k] = {}

(* A batch that was written is answered as a whole: no caller of send_batch
   holds some of its results while the others are still on their way, or fail. *)
BatchWhole ==
    \A c \in BatchCall :
        (\E r \in SentOf(c) : status[r] = "answered")
        => \A r \in SentOf(c) : status[r] \in {"answered", "cancelled"}

(* The inductive invariant behind CallerHeld and UnsentNeverSent.  What the
   transport holds, or has written, was issued and not refused. *)
Issued ==
    /\ \A c \in issued : Len(ids[c]) = Size[c]
    /\ \A r \in Request : status[r] = "idle" <=> r[1] \notin issued
    /\ QueuedCalls \subseteq issued
    /\ \A r \in Request :
          /\ r[1] \in QueuedCalls \/ r \in PendingRequests
             => status[r] \in {"waiting", "cancelled"}
          /\ r \in sent => status[r] \notin {"idle", "unsent"}

(* Each sender has one place: a position of the queue, from which nothing was
   written yet, or the entry of the pending map with the id of its request. *)
Ownership ==
    /\ \A r \in Request :
          status[r] = "waiting" => r[1] \in QueuedCalls \/ r \in PendingRequests
    /\ \A r \in PendingRequests \cup sent : r[1] \notin QueuedCalls
    /\ \A c \in Call : \A i, j \in 1 .. Len(queue) :
          queue[i] = RequestMsg(c) /\ queue[j] = RequestMsg(c) => i = j
    /\ \A i \in DOMAIN pending : IdOf(pending[i]) = i
    /\ task # "running" => DOMAIN pending = {} /\ writing = NoCall
    /\ task = "done" => queue = <<>>

IpcInv == TypeOK /\ Issued /\ Ownership

(* A request is answered with its own result, however the peer orders,
   splits or joins its answers. *)
OwnAnswer == \A r \in Request : status[r] = "answered" => answer[r] = r

(* An error that says the request was not sent is right: it was not written
   (the queue-full, task-finished and collision errors). *)
UnsentNeverSent == \A r \in Request : status[r] = "unsent" => r \notin sent

(* The task lets go of a stream only when the task itself ends, when the
   stream's reader is gone or has let its buffer fill up, or when another
   stream uses the same subscription id. *)
LetsGo(h) ==
    SinkAlive(h) /\ ~SinkAlive(h)' =>
        \/ task' = "done"
        \/ consumer[h] = "dropped"
        \/ Buffered(h) >= ChannelCapacity
        \/ \E g \in Stream \ {h} : sub[g] = sub[h]
StreamKept == [][\A h \in Stream : LetsGo(h)]_vars

(* The transport keeps the promise of RpcClient, request by request.  An
   answer that is not the request's own maps to a status the promise does not
   know. *)
Promised(r) == IF status[r] = "answered" /\ answer[r] # r
                 THEN "misanswered" ELSE status[r]
Client == INSTANCE RpcClient WITH Call <- Request,
                                  status <- [r \in Request |-> Promised(r)],
                                  executed <- sent
ClientSpec == Client!Spec

(* With a peer that answers what it was asked, every issued request
   resolves. *)
EveryCallResolves ==
    \A r \in Request : status[r] = "waiting" ~> status[r] # "waiting"

(* When the last handle is gone the task answers what is pending and ends,
   and with it the socket is closed. *)
TaskEnds == ~handles ~> task = "done"
=============================================================================
