---------------------------- MODULE WsTransport ----------------------------
(***************************************************************************)
(* The WebSocket transport (src/src/transports/ws.rs): callers put         *)
(* messages on a bounded queue; one background task takes them off, writes *)
(* requests to the socket, and reads responses and notifications from it.  *)
(*                                                                         *)
(* The peer and the socket are not in the repository: the peer is any      *)
(* process that answers each request once, and commits the faults in       *)
(* PeerFaults besides.                                                     *)
(***************************************************************************)
EXTENDS NotificationStreams, FiniteSets, Functions, FiniteSetsExt

CONSTANTS
    Call,             \* One element per invocation of send or send_batch.
    Size,             \* Size[c]: the number of requests in call c.
    MaxId,            \* usize::MAX: the last request id.
    ChannelCapacity,  \* channel_capacity of new_with_limits.
    PeerWindow,       \* Unanswered requests the socket and the peer take
                      \* before a write has to wait.
    WireCap,          \* Messages the peer sends ahead of the reading task.
    PeerFaults,       \* What the peer may do besides answering; see Faults.
    NoCall

Faults == {"outputs",    \* responses that do not match one request
           "malformed",  \* a frame that handle_message cannot use
           "ignored",    \* a notification other than eth_subscription
           "break"}      \* the connection breaks

ASSUME ConstantsAssumption ==
    /\ Size \in [Call -> Nat]
    /\ MaxId \in Nat \ {0}
    /\ ChannelCapacity \in Nat \ {0}
    /\ PeerWindow \in Nat \ {0} /\ WireCap \in Nat \ {0}
    /\ PeerFaults \subseteq Faults
    /\ NoCall \notin Call

VARIABLES
    counter,     \* WebSocket::id, the next request id
    ids,         \* ids[c]: the request ids of call c, in request order
    status,      \* status[c]: what the caller of c knows
    answer,      \* answer[c]: the results c resolved with
    queue,       \* the mpsc channel between callers and the task
    pending,     \* the task's map from a first id to the call waiting for it
    writing,     \* the call whose frame the task is writing, or NoCall
    task,        \* "running", "broken" (left its loop) or "done" (dropped)
    connected,   \* the socket works
    sent,        \* calls whose frame was handed to the socket
    owed,        \* calls the peer has to answer
    wire         \* messages from the peer the task has not read

callVars == <<counter, ids, status, answer>>
taskVars == <<queue, pending, writing, task>>
peerVars == <<connected, sent, owed, wire>>
vars     == <<callVars, taskVars, peerVars, subVars>>

Id     == 1 .. MaxId
Status == {"idle", "waiting", "answered", "unsent", "failed", "cancelled"}

(* TransportMessage *)
RequestMsg(c)     == [kind |-> "request", call |-> c]
SubscribeMsg(h)   == [kind |-> "subscribe", stream |-> h]
UnsubscribeMsg(s) == [kind |-> "unsubscribe", id |-> s]
TransportMessage  == {RequestMsg(c) : c \in Call}
                     \cup {SubscribeMsg(h) : h \in Stream}
                     \cup {UnsubscribeMsg(s) : s \in SubId}

(* An rpc::Output carries a request id and, as its value, the request the
   peer computed it for: request j of call c. *)
Value  == Call \X (Nat \ {0})
Output == [id : Id, value : Value]
OutputOf(c, j) == [id |-> ids[c][j], value |-> <<c, j>>]

ResponseMsg(outs)      == [kind |-> "response", outputs |-> outs]
NotificationMsg(s, n)  == [kind |-> "notification", id |-> s, number |-> n]
OddMsg(kind)           == [kind |-> kind]
WireMessage == [kind : {"response"}, outputs : Seq(Output)]
               \cup [kind : {"notification"}, id : SubId, number : Nat]
               \cup [kind : {"malformed", "ignored"}]

CallTypesOK ==
    /\ counter \in Id
    /\ ids \in [Call -> Seq(Id)]
    /\ status \in [Call -> Status]
    /\ answer \in [Call -> Seq(Value)]
TaskTypesOK ==
    /\ queue \in Seq(TransportMessage)
    /\ DOMAIN pending \subseteq Id /\ pending \in [DOMAIN pending -> Call]
    /\ writing \in Call \cup {NoCall}
    /\ task \in {"running", "broken", "done"}
PeerTypesOK ==
    /\ connected \in BOOLEAN
    /\ sent \subseteq Call /\ owed \subseteq Call
    /\ wire \in Seq(WireMessage)
TypeOK == CallTypesOK /\ TaskTypesOK /\ PeerTypesOK /\ SubTypesOK

Init ==
    /\ counter = 1
    /\ ids = [c \in Call |-> <<>>]
    /\ status = [c \in Call |-> "idle"]
    /\ answer = [c \in Call |-> <<>>]
    /\ queue = <<>>
    /\ pending = <<>>
    /\ writing = NoCall
    /\ task = "running"
    /\ connected = TRUE
    /\ sent = {} /\ owed = {}
    /\ wire = <<>>
    /\ SubInit

-----------------------------------------------------------------------------
(* Callers. *)

IdsOf(c) == Range(ids[c])

(* WebSocket::send: the channel of capacity n holds n messages and one more
   for its only sender; it is closed when the task has dropped its end. *)
Accepts == task # "done" /\ Len(queue) <= ChannelCapacity

(* Resolves the future of each call of C that a caller still holds. *)
Settle(C, s) ==
    status' = [c \in Call |->
                 IF c \in C /\ status[c] = "waiting" THEN s ELSE status[c]]

(* next_request_id: the counter saturates. *)
Successor(i) == IF i < MaxId THEN i + 1 ELSE MaxId

(* Transport::prepare, once per request of a call. *)
Prepare(c) ==
    /\ status[c] = "idle" /\ Len(ids[c]) < Size[c]
    /\ ids' = [ids EXCEPT ![c] = Append(@, counter)]
    /\ counter' = Successor(counter)
    /\ UNCHANGED <<status, answer, taskVars, peerVars, subVars>>

(* Transport::send and BatchTransport::send_batch. *)
Send(c) ==
    /\ status[c] = "idle" /\ Len(ids[c]) = Size[c]
    /\ IF Size[c] > 0 /\ Accepts
         THEN /\ queue' = Append(queue, RequestMsg(c))
              /\ status' = [status EXCEPT ![c] = "waiting"]
         ELSE /\ status' = [status EXCEPT ![c] = "unsent"]
              /\ UNCHANGED queue
    /\ UNCHANGED <<counter, ids, answer, pending, writing, task>>
    /\ UNCHANGED <<peerVars, subVars>>

(* The caller drops the Response; the task is not told. *)
Cancel(c) ==
    /\ status[c] = "waiting"
    /\ status' = [status EXCEPT ![c] = "cancelled"]
    /\ UNCHANGED <<counter, ids, answer, taskVars, peerVars, subVars>>

(* A subscribe or unsubscribe message, if the channel takes it. *)
Enqueue(m) == queue' = IF Accepts THEN Append(queue, m) ELSE queue

(* DuplexTransport::subscribe. *)
Subscribe(h) ==
    /\ consumer[h] = "none"
    /\ Enqueue(SubscribeMsg(h))
    /\ Becomes(h, IF Accepts THEN "open" ELSE "refused")
    /\ UNCHANGED <<callVars, pending, writing, task, peerVars>>

(* The sink of h is alive: on its way to the task, or registered there. *)
SinkAlive(h) == \/ \E i \in 1 .. Len(queue) : queue[i] = SubscribeMsg(h)
                \/ registered[sub[h]] = h

Poll(h) ==
    /\ consumer[h] = "open"
    /\ Receive(h, SinkAlive(h))
    /\ UNCHANGED <<callVars, taskVars, peerVars>>

(* SubscriptionStream::drop: a failure of unsubscribe is only logged. *)
Drop(h) ==
    /\ consumer[h] \in {"open", "ended"}
    /\ Enqueue(UnsubscribeMsg(sub[h]))
    /\ Becomes(h, "dropped")
    /\ UNCHANGED <<callVars, pending, writing, task, peerVars>>

CallerStep == \/ \E c \in Call : Prepare(c) \/ Send(c) \/ Cancel(c)
              \/ \E h \in Stream : Subscribe(h) \/ Poll(h) \/ Drop(h)

-----------------------------------------------------------------------------
(* The background task, into_task. While it writes it polls nothing else. *)

PendingCalls == Range(pending)
PendingIds   == UNION {IdsOf(c) : c \in PendingCalls}

(* fail_pending, and the way out of the loop.  Mutant: the task leaves
   without fail_pending, and callers see their senders dropped. *)
DropPending ==
    /\ Settle(PendingCalls, "unsent")
    /\ pending' = <<>>
    /\ writing' = NoCall
    /\ task' = "broken"
FailPending ==
    /\ Settle(PendingCalls, "failed")
    /\ pending' = <<>>
    /\ writing' = NoCall
    /\ task' = "broken"

Polls == task = "running" /\ writing = NoCall

(* A request the task does not refuse: it has ids, all different, and none
   of them is the id of a pending request.  Mutants: the ids of a batch are
   compared by its first id only; ids are not compared at all. *)
FirstIdFree(c)       == ids[c] # <<>> /\ ids[c][1] \notin DOMAIN pending
Acceptable(c) == /\ ids[c] # <<>>
                 /\ IsInjective(ids[c])
                 /\ IdsOf(c) \cap PendingIds = {}

TakeRequest(c) ==
    /\ Polls /\ queue # <<>> /\ Head(queue) = RequestMsg(c)
    /\ queue' = Tail(queue)
    /\ IF Acceptable(c)
         THEN /\ pending' = [k \in DOMAIN pending \cup {ids[c][1]} |->
                               IF k = ids[c][1] THEN c ELSE pending[k]]
              /\ writing' = c
              /\ UNCHANGED status
         ELSE /\ Settle({c}, "unsent")
              /\ UNCHANGED <<pending, writing>>
    /\ UNCHANGED <<counter, ids, answer, task, peerVars, subVars>>

(* sender.send_text: waits until the socket takes the frame.  Mutant: the
   frame stays in a buffer that is never flushed. *)
SendTextUnflushed ==
    /\ writing # NoCall /\ writing \notin sent
    /\ sent' = sent \cup {writing}
    /\ UNCHANGED <<callVars, taskVars, connected, owed, wire, subVars>>
SendText ==
    /\ writing # NoCall /\ writing \notin sent
    /\ Cardinality(owed) < PeerWindow
    /\ sent' = sent \cup {writing}
    /\ owed' = owed \cup {writing}
    /\ UNCHANGED <<callVars, taskVars, connected, wire, subVars>>

Flush ==
    /\ writing \in sent
    /\ writing' = NoCall
    /\ UNCHANGED <<callVars, queue, pending, task, peerVars, subVars>>

(* send_text or flush returns an error. *)
WriteFails ==
    /\ writing # NoCall /\ ~connected
    /\ FailPending
    /\ UNCHANGED <<counter, ids, answer, queue, peerVars, subVars>>

TakeSubscribe(h) ==
    /\ Polls /\ queue # <<>> /\ Head(queue) = SubscribeMsg(h)
    /\ queue' = Tail(queue)
    /\ Register(h)
    /\ UNCHANGED <<callVars, pending, writing, task, peerVars>>

TakeUnsubscribe(s) ==
    /\ Polls /\ queue # <<>> /\ Head(queue) = UnsubscribeMsg(s)
    /\ queue' = Tail(queue)
    /\ Unregister(s)
    /\ UNCHANGED <<callVars, pending, writing, task, peerVars>>

(* handle_message: the outputs are matched to the pending request that has
   the smallest id among them, and must have exactly the ids it has. *)
OutputIds(outs) == Range([i \in DOMAIN outs |-> outs[i].id])
Keys(outs)      == {k \in DOMAIN pending : Min(OutputIds(outs)) \in IdsOf(pending[k])}

Matches(outs, k) == /\ outs # <<>>
                    /\ IsInjective([i \in DOMAIN outs |-> outs[i].id])
                    /\ Keys(outs) # {} /\ k = Min(Keys(outs))
                    /\ Len(ids[pending[k]]) = Len(outs)
                    /\ IdsOf(pending[k]) \subseteq OutputIds(outs)

(* The outputs in the order of the requests of call c.  Mutant: in the order
   of the response. *)
InResponseOrder(c, outs) == [i \in 1 .. Len(outs) |-> outs[i].value]
InRequestOrder(c, outs) ==
    [j \in 1 .. Len(ids[c]) |->
       outs[CHOOSE i \in DOMAIN outs : outs[i].id = ids[c][j]].value]

Reads(kind) == Polls /\ wire # <<>> /\ Head(wire).kind = kind /\ wire' = Tail(wire)

ReadResponse(k) ==
    /\ Reads("response") /\ Matches(Head(wire).outputs, k)
    /\ pending' = Restrict(pending, DOMAIN pending \ {k})
    /\ LET c == pending[k] IN
         /\ Settle({c}, "answered")
         /\ answer' = IF status[c] = "waiting"
                        THEN [answer EXCEPT ![c] =
                                InRequestOrder(c, Head(wire).outputs)]
                        ELSE answer
    /\ UNCHANGED <<counter, ids, queue, writing, task>>
    /\ UNCHANGED <<connected, sent, owed, subVars>>

(* handle_message returns an error: the task gives everything up. *)
ReadUnusable ==
    /\ \/ /\ Reads("response")
          /\ \A k \in DOMAIN pending : ~Matches(Head(wire).outputs, k)
       \/ Reads("malformed")
    /\ FailPending
    /\ UNCHANGED <<counter, ids, answer, queue, connected, sent, owed, subVars>>

ReadIgnored ==
    /\ Reads("ignored")
    /\ UNCHANGED <<callVars, taskVars, connected, sent, owed, subVars>>

(* The channel of a stream, too, holds one item more than its capacity. *)
ReadNotification ==
    /\ Reads("notification")
    /\ Offer(Head(wire).id, Head(wire).number, ChannelCapacity + 1)
    /\ UNCHANGED <<callVars, taskVars, connected, sent, owed>>

(* The socket returns an error; frames in flight may be lost with it.
   Mutant: the task fails the pending calls but keeps looping. *)
ReadFailsAndContinues ==
    /\ Polls /\ ~connected
    /\ Settle(PendingCalls, "failed")
    /\ pending' = <<>>
    /\ UNCHANGED <<counter, ids, answer, queue, writing, task, peerVars, subVars>>
ReadFails ==
    /\ Polls /\ ~connected
    /\ FailPending
    /\ UNCHANGED <<counter, ids, answer, queue, peerVars, subVars>>

(* The end of into_task drops the sinks and the channel, and with it every
   message in it: a request dropped that way resolves with dropped_err. *)
QueuedCalls == {c \in Call : \E i \in 1 .. Len(queue) : queue[i] = RequestMsg(c)}

(* Mutant: the messages stay in the closed channel. *)
FinishUndrained ==
    /\ task = "broken"
    /\ task' = "done"
    /\ CloseAll
    /\ UNCHANGED <<callVars, queue, pending, writing, peerVars>>
Finish ==
    /\ task = "broken"
    /\ task' = "done"
    /\ Settle(QueuedCalls, "unsent")
    /\ queue' = <<>>
    /\ CloseAll
    /\ UNCHANGED <<counter, ids, answer, pending, writing, peerVars>>

TaskStep == \/ \E c \in Call : TakeRequest(c)
            \/ \E h \in Stream : TakeSubscribe(h)
            \/ \E s \in SubId : TakeUnsubscribe(s)
            \/ SendText \/ Flush \/ WriteFails
            \/ \E k \in Id : k \in DOMAIN pending /\ ReadResponse(k)
            \/ ReadUnusable \/ ReadIgnored \/ ReadNotification \/ ReadFails
            \/ Finish

-----------------------------------------------------------------------------
(* The peer. *)

PeerSends(m) == connected /\ Len(wire) < WireCap /\ wire' = Append(wire, m)

(* The outputs of a batch come in any order. *)
PeerAnswers(c) ==
    /\ c \in owed
    /\ \E p \in Bijection(1 .. Size[c], 1 .. Size[c]) :
         PeerSends(ResponseMsg([j \in 1 .. Size[c] |-> OutputOf(c, p[j])]))
    /\ owed' = owed \ {c}
    /\ UNCHANGED <<callVars, taskVars, connected, sent, subVars>>

PeerNotifies(s) ==
    /\ PeerSends(NotificationMsg(s, emitted[s] + 1))
    /\ Emit(s)
    /\ UNCHANGED <<callVars, taskVars, connected, sent, owed>>

(* Up to two outputs for requests it has received: part of a batch, two
   calls in one batch, the same answer again, or none at all. *)
SentRequests == UNION {{c} \X (1 .. Size[c]) : c \in sent}
PeerMisanswers ==
    /\ "outputs" \in PeerFaults
    /\ \E n \in 0 .. 2 : \E r \in [1 .. n -> SentRequests] :
         PeerSends(ResponseMsg([i \in 1 .. n |-> OutputOf(r[i][1], r[i][2])]))
    /\ UNCHANGED <<callVars, taskVars, connected, sent, owed, subVars>>

PeerSendsOdd ==
    /\ \E kind \in PeerFaults \cap {"malformed", "ignored"} : PeerSends(OddMsg(kind))
    /\ UNCHANGED <<callVars, taskVars, connected, sent, owed, subVars>>

Break ==
    /\ "break" \in PeerFaults /\ connected
    /\ connected' = FALSE
    /\ UNCHANGED <<callVars, taskVars, sent, owed, wire, subVars>>

PeerStep == \/ \E c \in Call : PeerAnswers(c)
            \/ \E s \in SubId : PeerNotifies(s)
            \/ PeerMisanswers \/ PeerSendsOdd \/ Break

-----------------------------------------------------------------------------
Next == CallerStep \/ TaskStep \/ PeerStep

Spec == Init /\ [][Next]_vars

(* The runtime keeps polling the task, and consumers poll their streams. *)
FairSpec == Spec /\ WF_vars(TaskStep) /\ \A h \in Stream : WF_vars(Poll(h))

(* Besides, the peer answers what it owes. *)
LiveSpec == FairSpec /\ \A c \in Call : WF_vars(PeerAnswers(c))

-----------------------------------------------------------------------------
(* A caller that waits has its sender in the queue or in the pending map of
   a task that has not ended, and in one of them only: no path of into_task
   leaves a Response that nothing will ever resolve. *)
CallerHeld ==
    \A c \in Call : status[c] = "waiting"
                    => /\ task # "done"
                       /\ ~(c \in QueuedCalls <=> c \in PendingCalls)

(* The pending map is keyed by first ids and no two entries share an id,
   whatever ids the saturated counter handed out: the search of
   handle_message for the entry of a response has at most one result. *)
PendingApart ==
    \A j, k \in DOMAIN pending :
        /\ ids[pending[k]][1] = k
        /\ j # k => IdsOf(pending[j]) \cap IdsOf(pending[k]) = {}

(* The inductive invariant behind CallerHeld and UnsentNeverSent.  A call
   the transport holds, or has written, was issued with all its ids. *)
Issued ==
    /\ \A c \in Call :
          /\ status[c] # "idle" => Len(ids[c]) = Size[c]
          /\ c \in QueuedCalls \cup PendingCalls => status[c] \in {"waiting", "cancelled"}
          /\ c \in sent => status[c] \notin {"idle", "unsent"}
    /\ owed \subseteq sent
    /\ writing \in PendingCalls \cup {NoCall}

(* Each sender has one place: a position of the queue, from which nothing
   was written yet, or an entry of the pending map. *)
Ownership ==
    /\ \A c \in Call : status[c] = "waiting" => c \in QueuedCalls \cup PendingCalls
    /\ QueuedCalls \cap (PendingCalls \cup sent) = {}
    /\ \A c \in Call : \A i, j \in 1 .. Len(queue) :
          queue[i] = RequestMsg(c) /\ queue[j] = RequestMsg(c) => i = j
    /\ IsInjective(pending)
    /\ \A k \in DOMAIN pending : ids[pending[k]] # <<>>
    /\ task # "running" => DOMAIN pending = {} /\ writing = NoCall
    /\ task = "done" => queue = <<>>

WsInv == TypeOK /\ Issued /\ Ownership /\ PendingApart

(* A call is answered with the results of its own requests, in the order of
   its requests, however the peer orders, splits or joins its answers. *)
OwnAnswer ==
    \A c \in Call : status[c] = "answered"
                    => answer[c] = [j \in 1 .. Size[c] |-> <<c, j>>]

(* An error that says the request was not sent is right: nothing of the call
   was given to the socket (the queue-full, task-finished, collision and
   dropped-sender errors of send, into_task and dropped_err). *)
UnsentNeverSent == \A c \in Call : status[c] = "unsent" => c \notin sent

(* The task lets go of a stream only when the task itself ends, when the
   stream's reader is gone or has let its buffer fill up, or when another
   stream uses the same subscription id. *)
LetsGo(h) ==
    SinkAlive(h) /\ ~SinkAlive(h)' =>
        \/ task' = "done"
        \/ consumer[h] = "dropped"
        \/ Buffered(h) > ChannelCapacity
        \/ \E g \in Stream \ {h} : sub[g] = sub[h]
StreamKept == [][\A h \in Stream : LetsGo(h)]_vars

(* The transport keeps the promise of RpcClient.  An answer that is not the
   call's own maps to a status the promise does not know. *)
Promised(c) == IF status[c] = "answered" /\ answer[c] # [j \in 1 .. Size[c] |-> <<c, j>>]
                 THEN "misanswered" ELSE status[c]
Client == INSTANCE RpcClient WITH status <- [c \in Call |-> Promised(c)],
                                  executed <- sent
ClientSpec == Client!Spec

(* With a peer that answers what it was asked, every issued call resolves. *)
EveryCallResolves ==
    \A c \in Call : status[c] = "waiting" ~> status[c] # "waiting"

(* Once the connection breaks the reader of every stream sees its end, after
   the notifications that had reached it. *)
BreakEndsStreams ==
    \A h \in Stream : ~connected ~> consumer[h] # "open"
=============================================================================
