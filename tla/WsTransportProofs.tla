------------------------- MODULE WsTransportProofs -------------------------
(***************************************************************************)
(* Theorems about WsTransport, for every value of its constants: its       *)
(* inductive invariant; that callers and unsent calls are held as promised; *)
(* that streams have no gap and are kept; whose results a call is answered *)
(* with; and that it implements RpcClient.                                 *)
(***************************************************************************)
EXTENDS WsTransport, NotificationStreamsProofs

LEMMA MessageTypes ==
    /\ \A c \in Call : RequestMsg(c) \in TransportMessage
    /\ \A h \in Stream : SubscribeMsg(h) \in TransportMessage
    /\ \A s \in SubId : UnsubscribeMsg(s) \in TransportMessage
BY DEF TransportMessage

LEMMA TailType ==
    ASSUME NEW S, NEW s \in Seq(S), s # <<>>
    PROVE  /\ Tail(s) \in Seq(S)
           /\ Head(s) \in S
           /\ Len(Tail(s)) = Len(s) - 1
           /\ \A i \in 1 .. Len(Tail(s)) : Tail(s)[i] = s[i + 1]
OBVIOUS

LEMMA SettleType ==
    ASSUME CallTypesOK, NEW C, NEW s \in Status, Settle(C, s)
    PROVE  status' \in [Call -> Status]
BY DEF CallTypesOK, Settle

LEMMA FailPendingType ==
    ASSUME TypeOK, FailPending
    PROVE  /\ status' \in [Call -> Status]
           /\ DOMAIN pending' \subseteq Id /\ pending' \in [DOMAIN pending' -> Call]
           /\ writing' \in Call \cup {NoCall}
           /\ task' \in {"running", "broken", "done"}
<1>1. status' \in [Call -> Status]
  BY SettleType DEF TypeOK, FailPending, Status
<1>2. DOMAIN pending' \subseteq Id /\ pending' \in [DOMAIN pending' -> Call]
  BY DEF FailPending
<1> QED
  BY <1>1, <1>2 DEF FailPending

LEMMA TypeInit == Init => TypeOK
<1> SUFFICES ASSUME Init PROVE TypeOK
  OBVIOUS
<1>1. DOMAIN pending \subseteq Id /\ pending \in [DOMAIN pending -> Call]
  BY DEF Init
<1>2. CallTypesOK
  BY ConstantsAssumption DEF Init, CallTypesOK, Id, Status
<1> QED
  BY <1>1, <1>2, SubInitType DEF Init, TypeOK, TaskTypesOK, PeerTypesOK


(* What a step leaves alone keeps its type. *)
LEMMA Unchanged ==
    /\ CallTypesOK /\ UNCHANGED callVars => CallTypesOK'
    /\ TaskTypesOK /\ UNCHANGED taskVars => TaskTypesOK'
    /\ PeerTypesOK /\ UNCHANGED peerVars => PeerTypesOK'
    /\ SubTypesOK /\ UNCHANGED subVars => SubTypesOK'
BY DEF callVars, taskVars, peerVars, subVars, CallTypesOK, TaskTypesOK, PeerTypesOK,
       SubTypesOK

(* A caller's step keeps the types. *)
LEMMA TypeCallerStep ==
    ASSUME TypeOK, CallerStep
    PROVE  TypeOK'
<1> USE Unchanged DEF TypeOK
<1>1. ASSUME NEW c \in Call, Prepare(c) PROVE TypeOK'
  <2>1. counter \in Id /\ counter' \in Id
    BY <1>1, ConstantsAssumption DEF CallTypesOK, Prepare, Successor, Id
  <2>2. Append(ids[c], counter) \in Seq(Id)
    BY <2>1 DEF CallTypesOK
  <2>3. CallTypesOK'
    BY <1>1, <2>1, <2>2 DEF CallTypesOK, Prepare
  <2> QED
    BY <1>1, <2>3 DEF Prepare
<1>2. ASSUME NEW c \in Call, Send(c) PROVE TypeOK'
  <2>1. CallTypesOK'
    BY <1>2 DEF CallTypesOK, Send, Status
  <2>2. TaskTypesOK'
    BY <1>2, MessageTypes DEF TaskTypesOK, Send
  <2> QED
    BY <1>2, <2>1, <2>2 DEF Send
<1>3. ASSUME NEW c \in Call, Cancel(c) PROVE TypeOK'
  <2>1. CallTypesOK'
    BY <1>3 DEF CallTypesOK, Cancel, Status
  <2> QED
    BY <1>3, <2>1 DEF Cancel
<1>4. ASSUME NEW h \in Stream, Subscribe(h) PROVE TypeOK'
  <2>1. TaskTypesOK'
    BY <1>4, MessageTypes DEF TaskTypesOK, Subscribe, Enqueue
  <2>2. SubTypesOK'
    BY <1>4, BecomesType DEF Subscribe, Reader
  <2> QED
    BY <1>4, <2>1, <2>2 DEF Subscribe
<1>5. ASSUME NEW h \in Stream, Poll(h) PROVE TypeOK'
  <2>1. SubTypesOK'
    BY <1>5, ReceiveType DEF Poll
  <2> QED
    BY <1>5, <2>1 DEF Poll
<1>6. ASSUME NEW h \in Stream, Drop(h) PROVE TypeOK'
  <2>1. UnsubscribeMsg(sub[h]) \in TransportMessage
    BY MessageTypes DEF SubTypesOK
  <2>2. TaskTypesOK'
    BY <1>6, <2>1 DEF TaskTypesOK, Drop, Enqueue
  <2>3. SubTypesOK'
    BY <1>6, BecomesType DEF Drop, Reader
  <2> QED
    BY <1>6, <2>2, <2>3 DEF Drop
<1> QED
  BY <1>1, <1>2, <1>3, <1>4, <1>5, <1>6 DEF CallerStep

(* The value a ReadResponse step gives its caller has the right type. *)
LEMMA OrderedType ==
    ASSUME TypeOK, NEW k \in DOMAIN pending, NEW outs \in Seq(Output), Matches(outs, k)
    PROVE  InRequestOrder(pending[k], outs) \in Seq(Value)
<1> DEFINE c == pending[k]
<1>1. c \in Call /\ ids[c] \in Seq(Id)
  BY DEF TypeOK, TaskTypesOK, CallTypesOK
<1>2. ASSUME NEW j \in 1 .. Len(ids[c])
      PROVE  \E i \in DOMAIN outs : outs[i].id = ids[c][j]
  <2>1. ids[c][j] \in IdsOf(c)
    BY <1>1 DEF IdsOf, Range
  <2>2. ids[c][j] \in OutputIds(outs)
    BY <2>1 DEF Matches
  <2> QED
    BY <2>2 DEF OutputIds, Range
<1>3. ASSUME NEW j \in 1 .. Len(ids[c])
      PROVE  outs[CHOOSE i \in DOMAIN outs : outs[i].id = ids[c][j]].value \in Value
  <2> DEFINE i == CHOOSE i \in DOMAIN outs : outs[i].id = ids[c][j]
  <2>1. i \in DOMAIN outs
    BY <1>2
  <2>2. outs[i] \in Output
    BY <2>1
  <2> QED
    BY <2>2 DEF Output
<1>4. Len(ids[c]) \in Nat
  BY <1>1
<1> QED
  BY <1>3, <1>4 DEF InRequestOrder

(* A step of the task keeps the types. *)
LEMMA TypeTaskStep ==
    ASSUME TypeOK, TaskStep
    PROVE  TypeOK'
<1> USE Unchanged DEF TypeOK
<1>1. ASSUME NEW c \in Call, TakeRequest(c) PROVE TypeOK'
  <2>1. queue' \in Seq(TransportMessage)
    BY <1>1, TailType DEF TaskTypesOK, TakeRequest
  <2>2. CASE Acceptable(c)
    <3>1. ids[c][1] \in Id
      BY <2>2 DEF CallTypesOK, Acceptable
    <3>2. TaskTypesOK'
      BY <1>1, <2>1, <2>2, <3>1 DEF TaskTypesOK, TakeRequest
    <3>3. CallTypesOK'
      BY <1>1, <2>2 DEF CallTypesOK, TakeRequest
    <3> QED
      BY <1>1, <3>2, <3>3 DEF TakeRequest
  <2>3. CASE ~Acceptable(c)
    <3>1. status' \in [Call -> Status]
      BY <1>1, <2>3, SettleType DEF TakeRequest, Status
    <3>2. TaskTypesOK'
      BY <1>1, <2>1, <2>3 DEF TaskTypesOK, TakeRequest
    <3>3. CallTypesOK'
      BY <1>1, <3>1 DEF CallTypesOK, TakeRequest
    <3> QED
      BY <1>1, <3>2, <3>3 DEF TakeRequest
  <2> QED
    BY <2>2, <2>3
<1>2. ASSUME NEW h \in Stream, TakeSubscribe(h) PROVE TypeOK'
  <2>1. TaskTypesOK'
    BY <1>2, TailType DEF TaskTypesOK, TakeSubscribe
  <2>2. SubTypesOK'
    BY <1>2, RegisterType DEF TakeSubscribe
  <2> QED
    BY <1>2, <2>1, <2>2 DEF TakeSubscribe
<1>3. ASSUME NEW s \in SubId, TakeUnsubscribe(s) PROVE TypeOK'
  <2>1. TaskTypesOK'
    BY <1>3, TailType DEF TaskTypesOK, TakeUnsubscribe
  <2>2. SubTypesOK'
    BY <1>3, UnregisterType DEF TakeUnsubscribe
  <2> QED
    BY <1>3, <2>1, <2>2 DEF TakeUnsubscribe
<1>4. CASE SendText
  <2>1. PeerTypesOK'
    BY <1>4 DEF TaskTypesOK, PeerTypesOK, SendText
  <2> QED
    BY <1>4, <2>1 DEF SendText
<1>5. CASE Flush
  <2>1. TaskTypesOK'
    BY <1>5 DEF TaskTypesOK, Flush
  <2> QED
    BY <1>5, <2>1 DEF Flush
<1>6. ASSUME FailPending, UNCHANGED <<counter, ids, answer, queue>>
      PROVE  CallTypesOK' /\ TaskTypesOK'
  BY <1>6, FailPendingType DEF CallTypesOK, TaskTypesOK
<1>7. CASE WriteFails
  BY <1>6, <1>7 DEF WriteFails
<1>8. ASSUME NEW k \in DOMAIN pending, ReadResponse(k) PROVE TypeOK'
  <2> DEFINE outs == Head(wire).outputs
  <2>1. wire' \in Seq(WireMessage) /\ outs \in Seq(Output)
    BY <1>8, TailType DEF PeerTypesOK, ReadResponse, Reads, WireMessage
  <2>2. InRequestOrder(pending[k], outs) \in Seq(Value)
    BY <1>8, <2>1, OrderedType DEF ReadResponse
  <2>3. answer' \in [Call -> Seq(Value)]
    BY <1>8, <2>2 DEF CallTypesOK, ReadResponse
  <2>4. status' \in [Call -> Status]
    BY <1>8, SettleType DEF ReadResponse, Status
  <2>5. CallTypesOK'
    BY <1>8, <2>3, <2>4 DEF CallTypesOK, ReadResponse
  <2>6. TaskTypesOK'
    BY <1>8 DEF TaskTypesOK, ReadResponse, Restrict
  <2>7. PeerTypesOK'
    BY <1>8, <2>1 DEF PeerTypesOK, ReadResponse
  <2> QED
    BY <1>8, <2>5, <2>6, <2>7 DEF ReadResponse
<1>9. ASSUME NEW kind, Reads(kind) PROVE wire' \in Seq(WireMessage)
  BY <1>9, TailType DEF PeerTypesOK, Reads
<1>10. CASE ReadUnusable
  <2>1. PeerTypesOK'
    BY <1>9, <1>10 DEF PeerTypesOK, ReadUnusable
  <2> QED
    BY <1>6, <1>10, <2>1 DEF ReadUnusable
<1>11. CASE ReadIgnored
  <2>1. PeerTypesOK'
    BY <1>9, <1>11 DEF PeerTypesOK, ReadIgnored
  <2> QED
    BY <1>11, <2>1 DEF ReadIgnored
<1>12. CASE ReadNotification
  <2>1. PeerTypesOK'
    BY <1>9, <1>12 DEF PeerTypesOK, ReadNotification
  <2>2. Head(wire).id \in SubId /\ Head(wire).number \in Nat
    BY <1>12, TailType DEF PeerTypesOK, ReadNotification, Reads, WireMessage
  <2>3. SubTypesOK'
    BY <1>12, <2>2, OfferType DEF ReadNotification
  <2> QED
    BY <1>12, <2>1, <2>3 DEF ReadNotification
<1>13. CASE ReadFails
  BY <1>6, <1>13 DEF ReadFails
<1>14. CASE Finish
  <2>1. status' \in [Call -> Status]
    BY <1>14, SettleType DEF Finish, Status
  <2>2. CallTypesOK' /\ TaskTypesOK' /\ SubTypesOK'
    BY <1>14, <2>1 DEF CallTypesOK, TaskTypesOK, SubTypesOK, Finish, CloseAll
  <2> QED
    BY <1>14, <2>2 DEF Finish
<1> QED
  BY <1>1, <1>2, <1>3, <1>4, <1>5, <1>7, <1>8, <1>10, <1>11, <1>12, <1>13, <1>14
  DEF TaskStep

(* A message of the peer keeps the types. *)
LEMMA PeerSendsType ==
    ASSUME TypeOK, NEW m \in WireMessage, PeerSends(m)
    PROVE  wire' \in Seq(WireMessage)
BY DEF TypeOK, PeerTypesOK, PeerSends

(* Output j of a call whose ids were all allocated is well typed. *)
LEMMA OutputOfType ==
    ASSUME TypeOK, NEW c \in Call, NEW j \in 1 .. Len(ids[c])
    PROVE  OutputOf(c, j) \in Output
<1>1. ids[c][j] \in Id /\ j \in Nat \ {0}
  BY DEF TypeOK, CallTypesOK
<1> QED
  BY <1>1 DEF OutputOf, Output, Value

-----------------------------------------------------------------------------
(* The inductive invariant. *)

OwnershipInv == Issued /\ Ownership /\ PendingApart

LEMMA MessagesDiffer ==
    \A c \in Call : /\ \A d \in Call : RequestMsg(c) = RequestMsg(d) => c = d
                    /\ \A h \in Stream : RequestMsg(c) # SubscribeMsg(h)
                    /\ \A s \in SubId : RequestMsg(c) # UnsubscribeMsg(s)
BY DEF RequestMsg, SubscribeMsg, UnsubscribeMsg

LEMMA AppendQueued ==
    ASSUME TaskTypesOK, NEW m \in TransportMessage, queue' = Append(queue, m)
    PROVE  QueuedCalls' = QueuedCalls \cup {c \in Call : m = RequestMsg(c)}
<1>1. /\ Len(queue') = Len(queue) + 1
      /\ \A i \in 1 .. Len(queue) : queue'[i] = queue[i]
      /\ queue'[Len(queue) + 1] = m
      /\ Len(queue) \in Nat
  BY DEF TaskTypesOK
<1> QED
  BY <1>1 DEF QueuedCalls

LEMMA TailQueued ==
    ASSUME TaskTypesOK, Ownership, queue # <<>>, queue' = Tail(queue)
    PROVE  /\ QueuedCalls' = QueuedCalls \ {c \in Call : Head(queue) = RequestMsg(c)}
           /\ \A c \in Call : \A i, j \in 1 .. Len(queue') :
                queue'[i] = RequestMsg(c) /\ queue'[j] = RequestMsg(c) => i = j
<1>1. /\ Len(queue) \in Nat \ {0} /\ Len(queue') = Len(queue) - 1
      /\ \A i \in 1 .. Len(queue') : queue'[i] = queue[i + 1]
      /\ Head(queue) = queue[1]
  BY TailType DEF TaskTypesOK
<1>2. \A i \in 2 .. Len(queue) : i - 1 \in 1 .. Len(queue') /\ queue'[i - 1] = queue[i]
  BY <1>1
<1>3. QueuedCalls' \subseteq QueuedCalls \ {c \in Call : Head(queue) = RequestMsg(c)}
  <2> SUFFICES ASSUME NEW c \in Call, NEW i \in 1 .. Len(queue'), queue'[i] = RequestMsg(c)
               PROVE  c \in QueuedCalls /\ Head(queue) # RequestMsg(c)
    BY DEF QueuedCalls
  <2>1. i + 1 \in 1 .. Len(queue) /\ 1 \in 1 .. Len(queue) /\ queue[i + 1] = RequestMsg(c)
    BY <1>1
  <2> QED
    BY <1>1, <2>1 DEF QueuedCalls, Ownership
<1>4. QueuedCalls \ {c \in Call : Head(queue) = RequestMsg(c)} \subseteq QueuedCalls'
  <2> SUFFICES ASSUME NEW c \in Call, NEW i \in 1 .. Len(queue), queue[i] = RequestMsg(c),
                      Head(queue) # RequestMsg(c)
               PROVE  c \in QueuedCalls'
    BY DEF QueuedCalls
  <2>1. i \in 2 .. Len(queue)
    BY <1>1
  <2> QED
    BY <1>2, <2>1 DEF QueuedCalls
<1>5. ASSUME NEW c \in Call, NEW i \in 1 .. Len(queue'), NEW j \in 1 .. Len(queue'),
             queue'[i] = RequestMsg(c), queue'[j] = RequestMsg(c)
      PROVE  i = j
  <2>1. /\ i + 1 \in 1 .. Len(queue) /\ j + 1 \in 1 .. Len(queue)
        /\ queue[i + 1] = RequestMsg(c) /\ queue[j + 1] = RequestMsg(c)
    BY <1>1, <1>5
  <2>2. i + 1 = j + 1
    BY <2>1 DEF Ownership
  <2> QED
    BY <2>2
<1> QED
  BY <1>3, <1>4, <1>5

(* Steps that touch neither calls, nor queue, nor pending map, nor what was
   written. *)
LEMMA OwnershipFrame ==
    ASSUME OwnershipInv, UNCHANGED <<ids, status, taskVars, sent>>, owed' \subseteq sent
    PROVE  OwnershipInv'
<1>1. /\ QueuedCalls' = QueuedCalls /\ PendingCalls' = PendingCalls
      /\ \A c : IdsOf(c)' = IdsOf(c)
  BY DEF taskVars, QueuedCalls, PendingCalls, IdsOf
<1>2. Issued'
  BY <1>1 DEF OwnershipInv, Issued, taskVars
<1>3. Ownership'
  BY <1>1 DEF OwnershipInv, Ownership, IsInjective, taskVars
<1>4. PendingApart'
  BY <1>1 DEF OwnershipInv, PendingApart, taskVars
<1> QED
  BY <1>2, <1>3, <1>4 DEF OwnershipInv

(* Steps that change the queue by a message that is no request. *)
LEMMA OwnershipQueue ==
    ASSUME OwnershipInv, UNCHANGED <<ids, status, pending, writing, task, sent, owed>>,
           QueuedCalls' = QueuedCalls,
           \A c \in Call : \A i, j \in 1 .. Len(queue') :
              queue'[i] = RequestMsg(c) /\ queue'[j] = RequestMsg(c) => i = j,
           task = "done" => queue' = <<>>
    PROVE  OwnershipInv'
<1>1. PendingCalls' = PendingCalls /\ \A c : IdsOf(c)' = IdsOf(c)
  BY DEF PendingCalls, IdsOf
<1>2. Issued'
  BY <1>1 DEF OwnershipInv, Issued
<1>3. Ownership'
  BY <1>1 DEF OwnershipInv, Ownership, IsInjective
<1>4. PendingApart'
  BY <1>1 DEF OwnershipInv, PendingApart
<1> QED
  BY <1>2, <1>3, <1>4 DEF OwnershipInv

LEMMA OwnershipFailPending ==
    ASSUME TypeOK, OwnershipInv, FailPending, task = "running", UNCHANGED <<ids, queue, sent, owed>>
    PROVE  OwnershipInv'
<1>1. QueuedCalls' = QueuedCalls
  BY DEF QueuedCalls
<1>2. PendingCalls' = {} /\ DOMAIN pending' = {}
  BY DEF FailPending, PendingCalls, Range
<1>3. \A c \in Call : status'[c] = IF c \in PendingCalls /\ status[c] = "waiting"
                                     THEN "failed" ELSE status[c]
  BY DEF FailPending, Settle
<1>4. Issued'
  BY <1>1, <1>2, <1>3 DEF OwnershipInv, Issued, Ownership, FailPending
<1>5. Ownership'
  BY <1>1, <1>2, <1>3 DEF OwnershipInv, Ownership, FailPending, IsInjective
<1>6. PendingApart'
  BY <1>2 DEF PendingApart
<1> QED
  BY <1>4, <1>5, <1>6 DEF OwnershipInv

LEMMA OwnershipInit == Init => OwnershipInv
<1> SUFFICES ASSUME Init PROVE OwnershipInv
  OBVIOUS
<1>1. QueuedCalls = {} /\ PendingCalls = {} /\ DOMAIN pending = {}
  BY DEF Init, QueuedCalls, PendingCalls, Range
<1> QED
  BY <1>1 DEF Init, OwnershipInv, Issued, Ownership, PendingApart, IsInjective

(* A caller's step keeps the ownership invariant. *)
LEMMA OwnershipCallerStep ==
    ASSUME TypeOK, OwnershipInv, CallerStep
    PROVE  OwnershipInv'
<1>1. ASSUME NEW c \in Call, Prepare(c) PROVE OwnershipInv'
  <2>1. /\ UNCHANGED <<status, pending, queue, writing, task, sent, owed>>
        /\ QueuedCalls' = QueuedCalls /\ PendingCalls' = PendingCalls
    BY <1>1 DEF Prepare, taskVars, peerVars, QueuedCalls, PendingCalls
  <2>2. c \notin QueuedCalls \cup PendingCalls
    BY <1>1 DEF OwnershipInv, Issued, Prepare
  <2>3. \A d \in Call : d # c => ids'[d] = ids[d] /\ IdsOf(d)' = IdsOf(d)
    BY <1>1 DEF TypeOK, CallTypesOK, Prepare, IdsOf
  <2>4. \A k \in DOMAIN pending : pending[k] \in PendingCalls /\ pending[k] \in Call
    BY DEF TypeOK, TaskTypesOK, PendingCalls, Range
  <2>5. Issued'
    BY <1>1, <2>1, <2>3 DEF OwnershipInv, Issued, Prepare
  <2>6. Ownership'
    BY <2>1, <2>2, <2>3, <2>4 DEF OwnershipInv, Ownership, IsInjective
  <2>7. PendingApart'
    BY <2>1, <2>2, <2>3, <2>4 DEF OwnershipInv, PendingApart
  <2> QED
    BY <2>5, <2>6, <2>7 DEF OwnershipInv
<1>2. ASSUME NEW c \in Call, Send(c) PROVE OwnershipInv'
  <2>1. /\ UNCHANGED <<ids, pending, writing, task, sent, owed>>
        /\ PendingCalls' = PendingCalls /\ \A d : IdsOf(d)' = IdsOf(d)
    BY <1>2 DEF Send, peerVars, PendingCalls, IdsOf
  <2>2. c \notin QueuedCalls \cup PendingCalls \cup sent
    BY <1>2 DEF OwnershipInv, Issued, Send
  <2>3. PendingApart'
    BY <2>1 DEF OwnershipInv, PendingApart
  <2>4. CASE Size[c] > 0 /\ Accepts
    <3>1. queue' = Append(queue, RequestMsg(c)) /\ status' = [status EXCEPT ![c] = "waiting"]
      BY <1>2, <2>4 DEF Send
    <3>2. QueuedCalls' = QueuedCalls \cup {c}
      BY <3>1, AppendQueued, MessageTypes, MessagesDiffer DEF TypeOK
    <3>3. ASSUME NEW d \in Call, NEW i \in 1 .. Len(queue'), NEW j \in 1 .. Len(queue'),
                 queue'[i] = RequestMsg(d), queue'[j] = RequestMsg(d)
          PROVE  i = j
      <4>1. /\ Len(queue') = Len(queue) + 1 /\ Len(queue) \in Nat
            /\ \A n \in 1 .. Len(queue) : queue'[n] = queue[n]
            /\ queue'[Len(queue) + 1] = RequestMsg(c)
        BY <3>1 DEF TypeOK, TaskTypesOK
      <4>2. \A n \in 1 .. Len(queue) : queue[n] # RequestMsg(c)
        BY <2>2 DEF QueuedCalls
      <4>3. CASE d = c
        BY <3>3, <4>1, <4>2, <4>3
      <4>4. CASE d # c
        <5>1. i \in 1 .. Len(queue) /\ j \in 1 .. Len(queue)
          BY <3>3, <4>1, <4>4, MessagesDiffer
        <5> QED
          BY <3>3, <4>1, <5>1 DEF OwnershipInv, Ownership
      <4> QED
        BY <4>3, <4>4
    <3>4. Issued'
      BY <1>2, <2>1, <2>2, <3>1, <3>2 DEF OwnershipInv, Issued, Send, TypeOK, CallTypesOK
    <3>5. Ownership'
      BY <2>1, <2>2, <2>4, <3>1, <3>2, <3>3
      DEF OwnershipInv, Ownership, Accepts, TypeOK, CallTypesOK, IsInjective
    <3> QED
      BY <2>3, <3>4, <3>5 DEF OwnershipInv
  <2>5. CASE ~(Size[c] > 0 /\ Accepts)
    <3>1. queue' = queue /\ status' = [status EXCEPT ![c] = "unsent"]
      BY <1>2, <2>5 DEF Send
    <3>2. QueuedCalls' = QueuedCalls
      BY <3>1 DEF QueuedCalls
    <3>3. Issued'
      BY <1>2, <2>1, <2>2, <3>1, <3>2 DEF OwnershipInv, Issued, Send, TypeOK, CallTypesOK
    <3>4. Ownership'
      BY <2>1, <2>2, <3>1, <3>2 DEF OwnershipInv, Ownership, TypeOK, CallTypesOK, IsInjective
    <3> QED
      BY <2>3, <3>3, <3>4 DEF OwnershipInv
  <2> QED
    BY <2>4, <2>5
<1>3. ASSUME NEW c \in Call, Cancel(c) PROVE OwnershipInv'
  <2>1. /\ UNCHANGED <<ids, pending, queue, writing, task, sent, owed>>
        /\ QueuedCalls' = QueuedCalls /\ PendingCalls' = PendingCalls
        /\ \A d : IdsOf(d)' = IdsOf(d)
    BY <1>3 DEF Cancel, taskVars, peerVars, QueuedCalls, PendingCalls, IdsOf
  <2>2. \A d \in Call : status'[d] = IF d = c THEN "cancelled" ELSE status[d]
    BY <1>3 DEF TypeOK, CallTypesOK, Cancel
  <2>3. Issued'
    BY <1>3, <2>1, <2>2 DEF OwnershipInv, Issued, Cancel
  <2>4. Ownership'
    BY <2>1, <2>2 DEF OwnershipInv, Ownership, IsInjective
  <2>5. PendingApart'
    BY <2>1 DEF OwnershipInv, PendingApart
  <2> QED
    BY <2>3, <2>4, <2>5 DEF OwnershipInv
<1>4. ASSUME NEW m \in TransportMessage, \A c \in Call : m # RequestMsg(c),
             queue' = Append(queue, m), task # "done",
             UNCHANGED <<ids, status, pending, writing, task, sent, owed>>
      PROVE  OwnershipInv'
  <2>1. QueuedCalls' = QueuedCalls
    BY <1>4, AppendQueued DEF TypeOK
  <2>2. /\ Len(queue') = Len(queue) + 1 /\ Len(queue) \in Nat
        /\ \A n \in 1 .. Len(queue) : queue'[n] = queue[n]
        /\ queue'[Len(queue) + 1] = m
    BY <1>4 DEF TypeOK, TaskTypesOK
  <2>3. \A c \in Call : \A i, j \in 1 .. Len(queue') :
           queue'[i] = RequestMsg(c) /\ queue'[j] = RequestMsg(c) => i = j
    BY <1>4, <2>2 DEF OwnershipInv, Ownership
  <2> QED
    BY <1>4, <2>1, <2>3, OwnershipQueue
<1>5. ASSUME NEW h \in Stream, Subscribe(h) PROVE OwnershipInv'
  <2>1. CASE Accepts
    BY <1>4, <1>5, <2>1, MessageTypes, MessagesDiffer
    DEF Subscribe, Enqueue, Accepts, callVars, peerVars
  <2>2. CASE ~Accepts
    BY <1>5, <2>2, OwnershipFrame
    DEF Subscribe, Enqueue, callVars, peerVars, taskVars, OwnershipInv, Issued
  <2> QED
    BY <2>1, <2>2
<1>6. ASSUME NEW h \in Stream, Poll(h) PROVE OwnershipInv'
  BY <1>6, OwnershipFrame DEF Poll, callVars, peerVars, OwnershipInv, Issued
<1>7. ASSUME NEW h \in Stream, Drop(h) PROVE OwnershipInv'
  <2>1. sub[h] \in SubId
    BY DEF TypeOK, SubTypesOK
  <2>2. CASE Accepts
    BY <1>4, <1>7, <2>1, <2>2, MessageTypes, MessagesDiffer
    DEF Drop, Enqueue, Accepts, callVars, peerVars
  <2>3. CASE ~Accepts
    BY <1>7, <2>3, OwnershipFrame
    DEF Drop, Enqueue, callVars, peerVars, taskVars, OwnershipInv, Issued
  <2> QED
    BY <2>2, <2>3
<1> QED
  BY <1>1, <1>2, <1>3, <1>5, <1>6, <1>7 DEF CallerStep

LEMMA OwnershipTakeRequest ==
    ASSUME TypeOK, OwnershipInv, NEW c \in Call, TakeRequest(c)
    PROVE  OwnershipInv'
<1>1. /\ UNCHANGED <<ids, task, sent, owed>> /\ \A d : IdsOf(d)' = IdsOf(d)
      /\ task = "running" /\ queue # <<>> /\ queue' = Tail(queue)
      /\ Head(queue) = RequestMsg(c)
  BY DEF TakeRequest, Polls, peerVars, IdsOf
<1>2. /\ QueuedCalls' = QueuedCalls \ {c}
      /\ \A d \in Call : \A i, j \in 1 .. Len(queue') :
           queue'[i] = RequestMsg(d) /\ queue'[j] = RequestMsg(d) => i = j
  BY <1>1, TailQueued, MessagesDiffer DEF TypeOK, OwnershipInv
<1>3. c \in QueuedCalls
  <2>1. 1 \in 1 .. Len(queue) /\ queue[1] = RequestMsg(c)
    BY <1>1 DEF TypeOK, TaskTypesOK
  <2> QED
    BY <2>1 DEF QueuedCalls
<1>4. c \notin PendingCalls /\ c \notin sent
  BY <1>3 DEF OwnershipInv, Ownership
<1>5. \A k \in DOMAIN pending : /\ pending[k] \in PendingCalls /\ pending[k] \in Call
                                /\ k \in IdsOf(pending[k])
  <2> SUFFICES ASSUME NEW k \in DOMAIN pending
               PROVE  /\ pending[k] \in PendingCalls /\ pending[k] \in Call
                      /\ k \in IdsOf(pending[k])
    OBVIOUS
  <2>1. pending[k] \in PendingCalls /\ pending[k] \in Call
    BY DEF TypeOK, TaskTypesOK, PendingCalls, Range
  <2>2. 1 \in DOMAIN ids[pending[k]] /\ ids[pending[k]][1] = k
    BY <2>1 DEF OwnershipInv, Ownership, PendingApart, TypeOK, CallTypesOK
  <2> QED
    BY <2>1, <2>2 DEF IdsOf, Range
<1>6. CASE Acceptable(c)
  <2> DEFINE n == ids[c][1]
  <2>1. /\ UNCHANGED status /\ writing' = c
        /\ pending' = [k \in DOMAIN pending \cup {n} |-> IF k = n THEN c ELSE pending[k]]
    BY <1>6 DEF TakeRequest
  <2>2. n \in IdsOf(c)
    BY <1>6 DEF Acceptable, TypeOK, CallTypesOK, IdsOf, Range
  <2>3. \A k \in DOMAIN pending : IdsOf(c) \cap IdsOf(pending[k]) = {}
    BY <1>5, <1>6 DEF Acceptable, PendingIds
  <2>4. n \notin DOMAIN pending
    BY <1>5, <2>2, <2>3
  <2>5. /\ DOMAIN pending' = DOMAIN pending \cup {n}
        /\ pending'[n] = c /\ \A k \in DOMAIN pending : pending'[k] = pending[k]
    BY <2>1, <2>4
  <2>6. PendingCalls' = PendingCalls \cup {c}
    BY <2>5 DEF PendingCalls, Range
  <2>7. Issued'
    BY <1>1, <1>2, <1>3, <2>1, <2>6 DEF OwnershipInv, Issued
  <2>8. IsInjective(pending')
    BY <1>4, <1>5, <2>5 DEF OwnershipInv, Ownership, IsInjective
  <2>9. Ownership'
    <3>1. \A k \in DOMAIN pending' : ids'[pending'[k]] # <<>>
      BY <1>1, <1>6, <2>5 DEF OwnershipInv, Ownership, Acceptable
    <3> QED
      BY <1>1, <1>2, <1>4, <2>1, <2>6, <2>8, <3>1 DEF OwnershipInv, Ownership
  <2>10. PendingApart'
    BY <1>1, <2>3, <2>5 DEF OwnershipInv, PendingApart
  <2> QED
    BY <2>7, <2>9, <2>10 DEF OwnershipInv
<1>7. CASE ~Acceptable(c)
  <2>1. /\ UNCHANGED <<pending, writing>> /\ PendingCalls' = PendingCalls
        /\ \A d \in Call : status'[d] = IF d = c /\ status[d] = "waiting"
                                          THEN "unsent" ELSE status[d]
    BY <1>7 DEF TakeRequest, Settle, PendingCalls
  <2>2. Issued'
    BY <1>1, <1>2, <1>4, <2>1 DEF OwnershipInv, Issued
  <2>3. Ownership'
    BY <1>1, <1>2, <2>1 DEF OwnershipInv, Ownership, IsInjective
  <2>4. PendingApart'
    BY <1>1, <2>1 DEF OwnershipInv, PendingApart
  <2> QED
    BY <2>2, <2>3, <2>4 DEF OwnershipInv
<1> QED
  BY <1>6, <1>7

LEMMA OwnershipReadResponse ==
    ASSUME TypeOK, OwnershipInv, NEW k \in DOMAIN pending, ReadResponse(k)
    PROVE  OwnershipInv'
<1> DEFINE c == pending[k]
<1>1. /\ UNCHANGED <<ids, queue, writing, task, sent, owed>>
      /\ task = "running" /\ writing = NoCall
      /\ QueuedCalls' = QueuedCalls /\ \A d : IdsOf(d)' = IdsOf(d)
  BY DEF ReadResponse, Reads, Polls, QueuedCalls, IdsOf
<1>2. /\ DOMAIN pending' = DOMAIN pending \ {k}
      /\ \A j \in DOMAIN pending' : pending'[j] = pending[j]
  BY DEF ReadResponse, Restrict
<1>3. PendingCalls' = PendingCalls \ {c} /\ c \in PendingCalls /\ c \in Call
  BY <1>2 DEF OwnershipInv, Ownership, PendingCalls, Range, IsInjective, TypeOK, TaskTypesOK
<1>4. \A d \in Call : status'[d] = IF d = c /\ status[d] = "waiting"
                                     THEN "answered" ELSE status[d]
  BY DEF ReadResponse, Settle
<1>5. Issued'
  BY <1>1, <1>3, <1>4 DEF OwnershipInv, Issued, Ownership
<1>6. Ownership'
  BY <1>1, <1>2, <1>3, <1>4 DEF OwnershipInv, Ownership, IsInjective
<1>7. PendingApart'
  BY <1>1, <1>2 DEF OwnershipInv, PendingApart
<1> QED
  BY <1>5, <1>6, <1>7 DEF OwnershipInv

LEMMA OwnershipFinish ==
    ASSUME TypeOK, OwnershipInv, Finish
    PROVE  OwnershipInv'
<1>1. /\ UNCHANGED <<ids, pending, writing, sent, owed>> /\ queue' = <<>>
      /\ PendingCalls' = PendingCalls /\ \A d : IdsOf(d)' = IdsOf(d)
      /\ task = "broken"
  BY DEF Finish, peerVars, PendingCalls, IdsOf
<1>2. QueuedCalls' = {}
  BY <1>1 DEF QueuedCalls
<1>3. \A d \in Call : status'[d] = IF d \in QueuedCalls /\ status[d] = "waiting"
                                     THEN "unsent" ELSE status[d]
  BY DEF Finish, Settle
<1>4. Issued'
  BY <1>1, <1>2, <1>3 DEF OwnershipInv, Issued, Ownership
<1>5. Ownership'
  BY <1>1, <1>2, <1>3 DEF OwnershipInv, Ownership, IsInjective
<1>6. PendingApart'
  BY <1>1 DEF OwnershipInv, PendingApart
<1> QED
  BY <1>4, <1>5, <1>6 DEF OwnershipInv

(* A step of the task keeps the ownership invariant. *)
LEMMA OwnershipTaskStep ==
    ASSUME TypeOK, OwnershipInv, TaskStep
    PROVE  OwnershipInv'
<1> USE DEF OwnershipInv
<1>1. ASSUME Polls, queue # <<>>, queue' = Tail(queue),
             \A c \in Call : Head(queue) # RequestMsg(c),
             UNCHANGED <<ids, status, pending, writing, task, sent, owed>>
      PROVE  OwnershipInv'
  BY <1>1, TailQueued, OwnershipQueue DEF TypeOK, Polls
<1>2. ASSUME NEW h \in Stream, TakeSubscribe(h) PROVE OwnershipInv'
  BY <1>1, <1>2, MessagesDiffer DEF TakeSubscribe, callVars, peerVars
<1>3. ASSUME NEW s \in SubId, TakeUnsubscribe(s) PROVE OwnershipInv'
  BY <1>1, <1>3, MessagesDiffer DEF TakeUnsubscribe, callVars, peerVars
<1>4. CASE SendText
  <2>1. /\ UNCHANGED <<ids, status, taskVars>> /\ writing \in PendingCalls
        /\ QueuedCalls' = QueuedCalls /\ PendingCalls' = PendingCalls
        /\ \A d : IdsOf(d)' = IdsOf(d)
        /\ sent' = sent \cup {writing} /\ owed' = owed \cup {writing}
    BY <1>4 DEF SendText, callVars, taskVars, QueuedCalls, PendingCalls, IdsOf, Issued
  <2>2. Issued'
    BY <2>1 DEF Issued, taskVars
  <2>3. Ownership'
    BY <2>1 DEF Ownership, taskVars, IsInjective
  <2>4. PendingApart'
    BY <2>1 DEF PendingApart, taskVars
  <2> QED
    BY <2>2, <2>3, <2>4
<1>5. CASE Flush
  <2>1. /\ UNCHANGED <<ids, status, queue, pending, task, sent, owed>> /\ writing' = NoCall
        /\ QueuedCalls' = QueuedCalls /\ PendingCalls' = PendingCalls
        /\ \A d : IdsOf(d)' = IdsOf(d)
    BY <1>5 DEF Flush, callVars, peerVars, QueuedCalls, PendingCalls, IdsOf
  <2>2. Issued'
    BY <2>1 DEF Issued
  <2>3. Ownership'
    BY <2>1 DEF Ownership, IsInjective
  <2>4. PendingApart'
    BY <2>1 DEF PendingApart
  <2> QED
    BY <2>2, <2>3, <2>4
<1>6. CASE WriteFails
  <2>1. task = "running"
    BY <1>6 DEF WriteFails, Ownership, TypeOK, TaskTypesOK
  <2> QED
    BY <1>6, <2>1, OwnershipFailPending DEF WriteFails, peerVars
<1>7. CASE ReadUnusable
  BY <1>7, OwnershipFailPending DEF ReadUnusable, Reads, Polls
<1>8. CASE ReadFails
  BY <1>8, OwnershipFailPending DEF ReadFails, Polls, peerVars
<1>9. CASE ReadIgnored
  BY <1>9, OwnershipFrame DEF ReadIgnored, callVars, Issued
<1>10. CASE ReadNotification
  BY <1>10, OwnershipFrame DEF ReadNotification, callVars, Issued
<1> QED
  BY <1>2, <1>3, <1>4, <1>5, <1>6, <1>7, <1>8, <1>9, <1>10,
     OwnershipTakeRequest, OwnershipReadResponse, OwnershipFinish
  DEF TaskStep

(* A step of the peer keeps types and ownership. *)
LEMMA PeerStepInv ==
    ASSUME TypeOK, OwnershipInv, PeerStep
    PROVE  TypeOK' /\ OwnershipInv'
<1>1. ASSUME NEW c \in sent, NEW j \in 1 .. Size[c] PROVE OutputOf(c, j) \in Output
  <2>1. c \in Call /\ Len(ids[c]) = Size[c]
    BY DEF TypeOK, PeerTypesOK, OwnershipInv, Issued
  <2> QED
    BY <2>1, OutputOfType
<1>2. ASSUME NEW outs \in Seq(Output) PROVE ResponseMsg(outs) \in WireMessage
  BY DEF ResponseMsg, WireMessage
<1>3. ASSUME NEW c \in Call, PeerAnswers(c) PROVE TypeOK' /\ OwnershipInv'
  <2>1. PICK p \in Bijection(1 .. Size[c], 1 .. Size[c]) :
          PeerSends(ResponseMsg([j \in 1 .. Size[c] |-> OutputOf(c, p[j])]))
    BY <1>3 DEF PeerAnswers
  <2>2. c \in sent /\ Size[c] \in Nat
    BY <1>3, ConstantsAssumption DEF PeerAnswers, OwnershipInv, Issued
  <2>3. \A j \in 1 .. Size[c] : p[j] \in 1 .. Size[c]
    BY DEF Bijection, Injection
  <2>4. [j \in 1 .. Size[c] |-> OutputOf(c, p[j])] \in Seq(Output)
    BY <1>1, <2>2, <2>3
  <2>5. wire' \in Seq(WireMessage)
    BY <1>2, <2>1, <2>4, PeerSendsType
  <2>6. TypeOK'
    BY <1>3, <2>5, Unchanged DEF TypeOK, PeerTypesOK, PeerAnswers
  <2> QED
    BY <1>3, <2>6, OwnershipFrame DEF PeerAnswers, callVars, OwnershipInv, Issued
<1>4. ASSUME NEW s \in SubId, PeerNotifies(s) PROVE TypeOK' /\ OwnershipInv'
  <2>1. emitted[s] + 1 \in Nat
    BY DEF TypeOK, SubTypesOK
  <2>2. NotificationMsg(s, emitted[s] + 1) \in WireMessage
    BY <2>1 DEF NotificationMsg, WireMessage
  <2>3. wire' \in Seq(WireMessage)
    BY <1>4, <2>2, PeerSendsType DEF PeerNotifies
  <2>4. SubTypesOK' /\ PeerTypesOK'
    BY <1>4, <2>3, EmitType DEF TypeOK, PeerTypesOK, PeerNotifies
  <2> QED
    BY <1>4, <2>4, Unchanged, OwnershipFrame
    DEF TypeOK, PeerNotifies, callVars, OwnershipInv, Issued
<1>5. CASE PeerMisanswers
  <2>1. PICK n \in 0 .. 2 : \E r \in [1 .. n -> SentRequests] :
          PeerSends(ResponseMsg([i \in 1 .. n |-> OutputOf(r[i][1], r[i][2])]))
    BY <1>5 DEF PeerMisanswers
  <2>2. PICK r \in [1 .. n -> SentRequests] :
          PeerSends(ResponseMsg([i \in 1 .. n |-> OutputOf(r[i][1], r[i][2])]))
    BY <2>1
  <2>3. ASSUME NEW i \in 1 .. n PROVE OutputOf(r[i][1], r[i][2]) \in Output
    <3>1. r[i][1] \in sent /\ r[i][2] \in 1 .. Size[r[i][1]]
      BY DEF SentRequests
    <3> QED
      BY <1>1, <3>1
  <2>4. [i \in 1 .. n |-> OutputOf(r[i][1], r[i][2])] \in Seq(Output)
    BY <2>3
  <2>5. wire' \in Seq(WireMessage)
    BY <1>2, <2>2, <2>4, PeerSendsType
  <2> QED
    BY <1>5, <2>5, Unchanged, OwnershipFrame
    DEF TypeOK, PeerTypesOK, PeerMisanswers, callVars, OwnershipInv, Issued
<1>6. CASE PeerSendsOdd
  <2>1. PICK kind \in PeerFaults \cap {"malformed", "ignored"} : PeerSends(OddMsg(kind))
    BY <1>6 DEF PeerSendsOdd
  <2>2. OddMsg(kind) \in WireMessage
    BY DEF OddMsg, WireMessage
  <2>3. wire' \in Seq(WireMessage)
    BY <2>1, <2>2, PeerSendsType
  <2> QED
    BY <1>6, <2>3, Unchanged, OwnershipFrame
    DEF TypeOK, PeerTypesOK, PeerSendsOdd, callVars, OwnershipInv, Issued
<1>7. CASE Break
  BY <1>7, Unchanged, OwnershipFrame
  DEF TypeOK, PeerTypesOK, Break, callVars, OwnershipInv, Issued
<1> QED
  BY <1>3, <1>4, <1>5, <1>6, <1>7 DEF PeerStep

-----------------------------------------------------------------------------
(* The theorems. *)

LEMMA InvInit == Init => WsInv
BY TypeInit, OwnershipInit DEF WsInv, OwnershipInv

LEMMA InvNext == WsInv /\ [Next]_vars => WsInv'
<1> SUFFICES ASSUME TypeOK, OwnershipInv, [Next]_vars PROVE TypeOK' /\ OwnershipInv'
  BY DEF WsInv, OwnershipInv
<1>1. CASE CallerStep
  BY <1>1, TypeCallerStep, OwnershipCallerStep
<1>2. CASE TaskStep
  BY <1>2, TypeTaskStep, OwnershipTaskStep
<1>3. CASE PeerStep
  BY <1>3, PeerStepInv
<1>4. CASE UNCHANGED vars
  BY <1>4, Unchanged, OwnershipFrame
  DEF vars, TypeOK, callVars, peerVars, OwnershipInv, Issued
<1> QED
  BY <1>1, <1>2, <1>3, <1>4 DEF Next

(* Every reachable state of the transport has well-typed variables, and each
   sender of a request has exactly one owner: the queue, the pending map of
   the task, or, once it is resolved, nobody. *)
THEOREM InvHolds == Spec => []WsInv
<1> QED
  BY InvInit, InvNext, PTL DEF Spec

(* Every variable keeps its type, with any number of calls and streams and a
   peer that commits any of the faults. *)
THEOREM TypeCorrect == Spec => []TypeOK
<1>1. WsInv => TypeOK
  BY DEF WsInv
<1> QED
  BY <1>1, InvHolds, PTL

(* No path of into_task forgets a waiting caller: its sender is in the queue
   or in the pending map of a task that has not ended, never in both. *)
THEOREM CallersAreHeld == Spec => []CallerHeld
<1>1. WsInv => CallerHeld
  <2> SUFFICES ASSUME WsInv, NEW c \in Call, status[c] = "waiting"
               PROVE  task # "done" /\ ~(c \in QueuedCalls <=> c \in PendingCalls)
    BY DEF CallerHeld
  <2>1. c \in QueuedCalls \cup PendingCalls /\ ~(c \in QueuedCalls /\ c \in PendingCalls)
    BY DEF WsInv, Ownership
  <2>2. task = "done" => QueuedCalls = {} /\ PendingCalls = {}
    BY DEF WsInv, Ownership, QueuedCalls, PendingCalls, Range
  <2> QED
    BY <2>1, <2>2
<1> QED
  BY <1>1, InvHolds, PTL

(* The queue-full, task-finished, collision and dropped-sender errors are
   right when they say that the request was not sent: nothing of it reached
   the socket. *)
THEOREM UnsentIsNeverSent == Spec => []UnsentNeverSent
<1>1. WsInv => UnsentNeverSent
  BY DEF WsInv, Issued, UnsentNeverSent
<1> QED
  BY <1>1, InvHolds, PTL

(* No two entries of the pending map share a request id, even when the id
   counter has saturated and hands out the same id again and again. *)
THEOREM PendingIdsApart == Spec => []PendingApart
<1>1. WsInv => PendingApart
  BY DEF WsInv
<1> QED
  BY <1>1, InvHolds, PTL

-----------------------------------------------------------------------------
(* The streams. *)

StreamInv == StreamsInv(queue, wire)

(* What a step does to the streams, besides ending the task. *)
StreamStep == task' = "done" \/ Kept(Waiting(queue), Waiting(queue'), ChannelCapacity + 1)

LEMMA MessageKinds ==
    /\ \A h \in Stream : SubscribeMsg(h) = SubscribeOf(h) /\ SubscribeOf(h) \in TransportMessage
    /\ \A s \in SubId : UnsubscribeMsg(s) = UnsubscribeOf(s) /\ UnsubscribeOf(s) \in TransportMessage
    /\ \A c \in Call : Other(RequestMsg(c))
    /\ \A s, n : NotificationMsg(s, n) = NoteOf(s, n)
    /\ Messages(WireMessage)
    /\ \A m \in WireMessage : m.kind # "notification" => \A s \in SubId : ~IsNote(m, s)
    /\ \A m \in WireMessage : m.kind = "notification" => m.id \in SubId /\ m.number \in Nat
    /\ \A outs : ResponseMsg(outs).kind = "response"
    /\ \A kind : OddMsg(kind).kind = kind
<1>1. \A m \in WireMessage : m.kind = "notification" => m.id \in SubId /\ m.number \in Nat
  BY DEF WireMessage
<1>2. Messages(WireMessage)
  BY <1>1 DEF Messages, IsNote
<1>3. \A m \in WireMessage : m.kind # "notification" => \A s \in SubId : ~IsNote(m, s)
  BY DEF IsNote
<1>4. \A c \in Call : Other(RequestMsg(c))
  BY DEF Other, RequestMsg, SubscribeOf, UnsubscribeOf
<1> QED
  BY <1>1, <1>2, <1>3, <1>4, MessageTypes
  DEF SubscribeMsg, SubscribeOf, UnsubscribeMsg, UnsubscribeOf, NotificationMsg, NoteOf,
      ResponseMsg, OddMsg

(* A sink that is alive in the model is one of the shared lemmas'. *)
LEMMA StepKeeps ==
    ASSUME TypeOK, StreamStep
    PROVE  \A h \in Stream : LetsGo(h)
<1> SUFFICES ASSUME NEW h \in Stream, SinkAlive(h), ~SinkAlive(h)', task' # "done"
             PROVE  \/ consumer[h] = "dropped" \/ Buffered(h) > ChannelCapacity
                    \/ \E g \in Stream \ {h} : sub[g] = sub[h]
  BY DEF LetsGo
<1>1. Alive(h, Waiting(queue))
  BY MessageKinds DEF SinkAlive, Alive, Waiting
<1>2. ~(h \in Waiting(queue') \/ registered'[sub'[h]] = h)
  BY MessageKinds DEF SinkAlive, Waiting
<1>3. MayGo(h, ChannelCapacity + 1)
  BY <1>1, <1>2 DEF StreamStep, Kept
<1>4. Buffered(h) \in Int /\ ChannelCapacity \in Nat
  BY ConstantsAssumption DEF TypeOK, SubTypesOK, Buffered
<1> QED
  BY <1>3, <1>4 DEF MayGo

LEMMA StreamCallerStep ==
    ASSUME TypeOK, StreamInv, CallerStep
    PROVE  StreamInv' /\ StreamStep
<1> USE DEF StreamInv, StreamStep
<1>1. /\ SubTypesOK /\ queue \in Seq(TransportMessage) /\ wire \in Seq(WireMessage)
      /\ Messages(WireMessage)
  BY MessageKinds DEF TypeOK, TaskTypesOK, PeerTypesOK
<1>2. ASSUME NEW c \in Call, Prepare(c) \/ Send(c) \/ Cancel(c) PROVE StreamInv' /\ StreamStep
  <2>1. /\ UNCHANGED <<wire, subVars>>
        /\ queue' = queue \/ queue' = Append(queue, RequestMsg(c))
    BY <1>2 DEF Prepare, Send, Cancel, taskVars, peerVars
  <2> QED
    BY <1>1, <2>1, MessageTypes, MessageKinds, StreamsIdle
<1>3. ASSUME NEW h \in Stream, Subscribe(h) PROVE StreamInv' /\ StreamStep
  <2>1. /\ consumer[h] = "none" /\ wire' = wire
        /\ \/ queue' = Append(queue, SubscribeOf(h)) /\ Becomes(h, "open")
           \/ queue' = queue /\ Becomes(h, "refused")
    BY <1>3, MessageKinds DEF Subscribe, Enqueue, peerVars
  <2> QED
    BY <1>1, <2>1, MessageKinds, StreamsSubscribe
<1>4. ASSUME NEW h \in Stream, Poll(h) PROVE StreamInv' /\ StreamStep
  <2>1. SinkAlive(h) <=> Alive(h, Waiting(queue))
    BY MessageKinds DEF SinkAlive, Alive, Waiting
  <2>2. consumer[h] = "open" /\ UNCHANGED <<queue, wire>> /\ Receive(h, Alive(h, Waiting(queue)))
    BY <1>4, <2>1 DEF Poll, taskVars, peerVars, Receive
  <2> QED
    BY <1>1, <2>2, StreamsPoll
<1>5. ASSUME NEW h \in Stream, Drop(h) PROVE StreamInv' /\ StreamStep
  <2>1. sub[h] \in SubId
    BY <1>1 DEF SubTypesOK
  <2>2. /\ consumer[h] \in {"open", "ended"} /\ wire' = wire /\ Becomes(h, "dropped")
        /\ queue' = queue \/ queue' = Append(queue, UnsubscribeOf(sub[h]))
    BY <1>5, <2>1, MessageKinds DEF Drop, Enqueue, peerVars
  <2> QED
    BY <1>1, <2>1, <2>2, MessageKinds, StreamsDrop
<1> QED
  BY <1>2, <1>3, <1>4, <1>5 DEF CallerStep

LEMMA StreamTaskStep ==
    ASSUME TypeOK, StreamInv, TaskStep
    PROVE  StreamInv' /\ StreamStep
<1> USE DEF StreamInv, StreamStep
<1>1. /\ SubTypesOK /\ queue \in Seq(TransportMessage) /\ wire \in Seq(WireMessage)
      /\ Messages(WireMessage)
  BY MessageKinds DEF TypeOK, TaskTypesOK, PeerTypesOK
<1>2. ASSUME UNCHANGED <<queue, subVars>>,
             \/ wire' = wire
             \/ wire # <<>> /\ wire' = Tail(wire) /\ Head(wire).kind # "notification"
      PROVE  StreamInv' /\ StreamStep
  <2>1. wire # <<>> => Head(wire) \in WireMessage
    BY <1>1
  <2> QED
    BY <1>1, <1>2, <2>1, MessageKinds, StreamsIdle
<1>3. ASSUME NEW c \in Call, TakeRequest(c) PROVE StreamInv' /\ StreamStep
  <2>1. /\ UNCHANGED <<wire, subVars>> /\ queue # <<>> /\ queue' = Tail(queue)
        /\ \A h \in Stream : Head(queue) # SubscribeOf(h)
    BY <1>3, MessageKinds DEF TakeRequest, peerVars, Other
  <2> QED
    BY <1>1, <2>1, StreamsIdle
<1>4. ASSUME NEW h \in Stream, TakeSubscribe(h) PROVE StreamInv' /\ StreamStep
  <2>1. /\ wire' = wire /\ queue # <<>> /\ queue' = Tail(queue)
        /\ Head(queue) = SubscribeOf(h) /\ Register(h)
    BY <1>4, MessageKinds DEF TakeSubscribe, peerVars
  <2> QED
    BY <1>1, <2>1, StreamsTake
<1>5. ASSUME NEW s \in SubId, TakeUnsubscribe(s) PROVE StreamInv' /\ StreamStep
  <2>1. /\ wire' = wire /\ queue # <<>> /\ queue' = Tail(queue)
        /\ Head(queue) = UnsubscribeOf(s) /\ Unregister(s)
    BY <1>5, MessageKinds DEF TakeUnsubscribe, peerVars
  <2> QED
    BY <1>1, <2>1, StreamsTake
<1>6. CASE SendText \/ Flush \/ WriteFails \/ ReadFails
  BY <1>2, <1>6 DEF SendText, Flush, WriteFails, ReadFails, taskVars, peerVars
<1>7. ASSUME NEW k, ReadResponse(k) PROVE StreamInv' /\ StreamStep
  BY <1>2, <1>7 DEF ReadResponse, Reads
<1>8. CASE ReadUnusable \/ ReadIgnored
  BY <1>2, <1>8 DEF ReadUnusable, ReadIgnored, Reads, taskVars
<1>9. CASE ReadNotification
  <2> DEFINE s == Head(wire).id
  <2>1. /\ wire # <<>> /\ wire' = Tail(wire) /\ Head(wire).kind = "notification"
        /\ queue' = queue /\ Offer(s, Head(wire).number, ChannelCapacity + 1)
    BY <1>9 DEF ReadNotification, Reads, taskVars
  <2>2. s \in SubId /\ IsNote(Head(wire), s)
    BY <1>1, <2>1, MessageKinds, TailType DEF IsNote
  <2>3. ChannelCapacity + 1 \in Nat
    BY ConstantsAssumption
  <2> QED
    BY <1>1, <2>1, <2>2, <2>3, StreamsOffer
<1>10. CASE Finish
  BY <1>1, <1>10, StreamsClose DEF Finish, peerVars
<1> QED
  BY <1>3, <1>4, <1>5, <1>6, <1>7, <1>8, <1>9, <1>10 DEF TaskStep

LEMMA StreamPeerStep ==
    ASSUME TypeOK, TypeOK', StreamInv, PeerStep
    PROVE  StreamInv' /\ StreamStep
<1> USE DEF StreamInv, StreamStep
<1>1. /\ SubTypesOK /\ queue \in Seq(TransportMessage) /\ wire \in Seq(WireMessage)
      /\ Messages(WireMessage)
  BY MessageKinds DEF TypeOK, TaskTypesOK, PeerTypesOK
<1>2. ASSUME NEW m, PeerSends(m) PROVE m \in WireMessage /\ wire' = Append(wire, m)
  <2>1. wire' \in Seq(WireMessage) /\ wire' = Append(wire, m)
    BY <1>2 DEF PeerSends, TypeOK, PeerTypesOK
  <2>2. Len(wire) + 1 \in DOMAIN wire' /\ wire'[Len(wire) + 1] = m
    BY <1>1, <2>1
  <2> QED
    BY <2>1, <2>2
<1>3. ASSUME UNCHANGED <<queue, subVars>>,
             wire' = wire \/ \E m : PeerSends(m) /\ m.kind # "notification"
      PROVE  StreamInv' /\ StreamStep
  BY <1>1, <1>2, <1>3, MessageKinds, StreamsIdle
<1>4. ASSUME NEW s \in SubId, PeerNotifies(s) PROVE StreamInv' /\ StreamStep
  BY <1>1, <1>2, <1>4, MessageKinds, StreamsEmit DEF PeerNotifies, taskVars
<1>5. ASSUME NEW c \in Call, PeerAnswers(c) PROVE StreamInv' /\ StreamStep
  BY <1>3, <1>5, MessageKinds DEF PeerAnswers, taskVars
<1>6. CASE PeerMisanswers
  <2>1. \E outs : PeerSends(ResponseMsg(outs))
    BY <1>6 DEF PeerMisanswers
  <2> QED
    BY <1>3, <1>6, <2>1, MessageKinds DEF PeerMisanswers, taskVars
<1>7. CASE PeerSendsOdd
  BY <1>3, <1>7, MessageKinds DEF PeerSendsOdd, taskVars
<1>8. CASE Break
  BY <1>3, <1>8 DEF Break, taskVars
<1> QED
  BY <1>4, <1>5, <1>6, <1>7, <1>8 DEF PeerStep

LEMMA StreamInvNext ==
    ASSUME TypeOK, TypeOK', StreamInv, [Next]_vars
    PROVE  StreamInv' /\ (StreamStep \/ UNCHANGED vars)
<1>1. CASE UNCHANGED vars
  <2>1. UNCHANGED <<queue, wire, subVars>>
    BY <1>1 DEF vars, taskVars, peerVars
  <2>2. SubTypesOK /\ queue \in Seq(TransportMessage) /\ wire \in Seq(WireMessage)
    BY DEF TypeOK, TaskTypesOK, PeerTypesOK
  <2> QED
    BY <1>1, <2>1, <2>2, MessageKinds, StreamsIdle DEF StreamInv
<1> QED
  BY <1>1, StreamCallerStep, StreamTaskStep, StreamPeerStep DEF Next

LEMMA StreamInvHolds == Spec => []StreamInv
<1>1. Init => StreamInv
  BY StreamsInit DEF Init, StreamInv
<1>2. TypeOK /\ TypeOK' /\ StreamInv /\ [Next]_vars => StreamInv'
  BY StreamInvNext
<1> QED
  BY <1>1, <1>2, TypeCorrect, PTL DEF Spec

(* No stream delivers a notification after one it lost, with any number of
   streams, also of the same subscription id, and any capacity. *)
THEOREM StreamsHaveNoGap == Spec => []NoGap
<1>1. StreamInv => NoGap
  BY DEF StreamInv, StreamsInv, FlowInv
<1> QED
  BY <1>1, StreamInvHolds, PTL

(* The task lets go of a stream only for the reasons that LetsGo lists. *)
THEOREM StreamsAreKept == Spec => StreamKept
<1>1. TypeOK /\ TypeOK' /\ StreamInv /\ [Next]_vars => [\A h \in Stream : LetsGo(h)]_vars
  BY StreamInvNext, StepKeeps
<1> QED
  BY <1>1, TypeCorrect, StreamInvHolds, PTL DEF Spec, StreamKept

-----------------------------------------------------------------------------
(* The answers. *)

(* No id was handed out twice; and the peer only answers what it owes. *)
IdsDiffer == \A c, d \in Call : \A i \in 1 .. Len(ids[c]), j \in 1 .. Len(ids[d]) :
                ids[c][i] = ids[d][j] => c = d /\ i = j
Honest == "outputs" \notin PeerFaults

Responses  == {n \in 1 .. Len(wire) : wire[n].kind = "response"}
From(o, c) == \E j \in 1 .. Size[c] : o = OutputOf(c, j)

(* A call leaves the pending map, unless it is being written, only after it
   was written. *)
Written == /\ \A c \in sent : ids[c] # <<>>
           /\ \A c \in PendingCalls : c = writing \/ c \in sent

(* Every output on its way carries the id of the request it is for. *)
Labelled == \A n \in Responses : \A i \in DOMAIN wire[n].outputs :
               \E c \in sent : From(wire[n].outputs[i], c)

(* Of an honest peer every response has all the outputs of one call, which is
   pending, and no other response has any of them. *)
Whole(outs, c) == /\ \A i \in DOMAIN outs : From(outs[i], c)
                  /\ \A j \in 1 .. Size[c] : \E i \in DOMAIN outs : outs[i] = OutputOf(c, j)
AnsweredOnce ==
    /\ \A n \in Responses : \E c \in sent : /\ c \notin owed
                                            /\ Whole(wire[n].outputs, c)
                                            /\ task = "running" => c \in PendingCalls
    /\ \A m, n \in Responses : \A i \in DOMAIN wire[m].outputs, j \in DOMAIN wire[n].outputs :
          wire[m].outputs[i].value[1] = wire[n].outputs[j].value[1] => m = n
    /\ \A c \in owed : task = "running" => c \in PendingCalls

AnswerInv == /\ Written /\ Labelled
             /\ Honest => AnsweredOnce
             /\ IdsDiffer \/ Honest => OwnAnswer

LEMMA SentSize ==
    ASSUME WsInv
    PROVE  /\ \A c \in sent \cup PendingCalls : c \in Call /\ Len(ids[c]) = Size[c] /\ ids[c] \in Seq(Id)
           /\ AnswerInv => \A c \in sent : Size[c] > 0
<1>1. \A c \in sent \cup PendingCalls : c \in Call /\ Len(ids[c]) = Size[c] /\ ids[c] \in Seq(Id)
  BY DEF WsInv, TypeOK, CallTypesOK, TaskTypesOK, PeerTypesOK, Issued, PendingCalls, Range
<1>2. ASSUME AnswerInv, NEW c \in sent PROVE Size[c] > 0
  <2>1. ids[c] # <<>> /\ ids[c] \in Seq(Id) /\ Len(ids[c]) = Size[c]
    BY <1>1, <1>2 DEF AnswerInv, Written
  <2> QED
    BY <2>1
<1> QED
  BY <1>1, <1>2

(* The ids of a call are only added to, and not once it was issued. *)
LEMMA IdsGrow ==
    ASSUME WsInv, [Next]_vars
    PROVE  /\ IdsDiffer' => IdsDiffer
           /\ \A c \in sent \cup PendingCalls : ids'[c] = ids[c]
<1>1. ids' = ids \/ \E c \in Call : Prepare(c)
  BY DEF Next, CallerStep, TaskStep, PeerStep, Send, Cancel, Subscribe, Poll, Drop, TakeRequest,
         TakeSubscribe, TakeUnsubscribe, SendText, Flush, WriteFails, ReadResponse, ReadUnusable,
         ReadIgnored, ReadNotification, ReadFails, Finish, PeerAnswers, PeerNotifies,
         PeerMisanswers, PeerSendsOdd, Break, vars, callVars
<1>2. ASSUME NEW c \in Call, Prepare(c)
      PROVE  /\ \A d \in Call : /\ Len(ids[d]) \in Nat /\ Len(ids'[d]) >= Len(ids[d])
                                /\ \A i \in 1 .. Len(ids[d]) : ids'[d][i] = ids[d][i]
             /\ \A d \in Call : d # c => ids'[d] = ids[d]
  BY <1>2 DEF WsInv, TypeOK, CallTypesOK, Prepare
<1>3. ASSUME NEW c \in Call, Prepare(c) PROVE c \notin sent \cup PendingCalls
  BY <1>3 DEF WsInv, Issued, Prepare
<1>4. ASSUME NEW c \in Call, Prepare(c), IdsDiffer' PROVE IdsDiffer
  <2> SUFFICES ASSUME NEW d \in Call, NEW e \in Call, NEW i \in 1 .. Len(ids[d]),
                      NEW j \in 1 .. Len(ids[e]), ids[d][i] = ids[e][j]
               PROVE  d = e /\ i = j
    BY DEF IdsDiffer
  <2>1. i \in 1 .. Len(ids'[d]) /\ j \in 1 .. Len(ids'[e]) /\ ids'[d][i] = ids'[e][j]
    <3>1. /\ Len(ids[d]) \in Nat /\ Len(ids'[d]) >= Len(ids[d]) /\ ids'[d][i] = ids[d][i]
          /\ Len(ids[e]) \in Nat /\ Len(ids'[e]) >= Len(ids[e]) /\ ids'[e][j] = ids[e][j]
      BY <1>2, <1>4
    <3>2. Len(ids'[d]) \in Nat /\ Len(ids'[e]) \in Nat
      BY <1>4 DEF WsInv, TypeOK, CallTypesOK, Prepare
    <3> QED
      BY <3>1, <3>2
  <2> QED
    BY <1>4, <2>1 DEF IdsDiffer
<1>5. ids' = ids => (IdsDiffer' => IdsDiffer)
  BY DEF IdsDiffer
<1>6. \A c \in sent \cup PendingCalls : c \in Call
  BY SentSize
<1> QED
  BY <1>1, <1>2, <1>3, <1>4, <1>5, <1>6

(* Steps that at most take a message off the wire and write a call, and
   answer nobody. *)
LEMMA AnswerFrame ==
    ASSUME WsInv, AnswerInv, [Next]_vars,
           NEW X \in SUBSET PendingCalls, \A c \in X : c \notin sent /\ ids[c] # <<>>,
           sent' = sent \cup X, owed' = owed \cup X,
           NEW d \in {0, 1},
           \A n \in Responses' : n + d \in Responses /\ wire'[n] = wire[n + d],
           task' = "running" => task = "running" /\ PendingCalls \subseteq PendingCalls',
           \A c \in PendingCalls' : c = writing' \/ c \in sent',
           \A c \in Call : status'[c] = "answered" => status[c] = "answered" /\ answer'[c] = answer[c]
    PROVE  AnswerInv'
<1>1. /\ \A c \in sent \cup X : ids'[c] = ids[c]
      /\ \A c \in sent : \A j : OutputOf(c, j)' = OutputOf(c, j)
  BY IdsGrow DEF OutputOf
<1>2. \A n \in Responses' : n + d \in Responses /\ wire'[n] = wire[n + d]
  OBVIOUS
<1>3. \A c \in sent : \A o : From(o, c) <=> From(o, c)'
  BY <1>1 DEF From
<1>4. Written'
  BY <1>1 DEF AnswerInv, Written
<1>5. Labelled'
  BY <1>2, <1>3 DEF AnswerInv, Labelled
<1>6. ASSUME Honest PROVE AnsweredOnce'
  <2>1. AnsweredOnce
    BY <1>6 DEF AnswerInv
  <2>2. ASSUME NEW c \in sent, NEW outs PROVE Whole(outs, c) => Whole(outs, c)'
    BY <1>1 DEF Whole, From
  <2>3. (\A n \in Responses : \E c \in sent : /\ c \notin owed
                                              /\ Whole(wire[n].outputs, c)
                                              /\ task = "running" => c \in PendingCalls)'
    <3> SUFFICES ASSUME NEW n \in Responses'
                 PROVE  (\E c \in sent : /\ c \notin owed
                                         /\ Whole(wire[n].outputs, c)
                                         /\ task = "running" => c \in PendingCalls)'
      OBVIOUS
    <3>1. PICK c \in sent : /\ c \notin owed /\ Whole(wire[n + d].outputs, c)
                            /\ task = "running" => c \in PendingCalls
      BY <1>2, <2>1 DEF AnsweredOnce
    <3> DEFINE outs == wire[n + d].outputs
    <3>2. wire'[n].outputs = outs
      BY <1>2
    <3>3. Whole(outs, c)
      BY <3>1
    <3> HIDE DEF outs
    <3>4. Whole(wire[n].outputs, c)'
      BY <1>1, <3>2, <3>3 DEF Whole, From
    <3> QED
      BY <3>1, <3>4
  <2>4. (\A m, n \in Responses : \A i \in DOMAIN wire[m].outputs, j \in DOMAIN wire[n].outputs :
          wire[m].outputs[i].value[1] = wire[n].outputs[j].value[1] => m = n)'
    <3> SUFFICES ASSUME NEW m \in Responses', NEW n \in Responses',
                        NEW i \in DOMAIN wire'[m].outputs, NEW j \in DOMAIN wire'[n].outputs,
                        wire'[m].outputs[i].value[1] = wire'[n].outputs[j].value[1]
                 PROVE  m = n
      OBVIOUS
    <3>1. m + d = n + d
      BY <1>2, <2>1 DEF AnsweredOnce
    <3>2. m \in Nat /\ n \in Nat
      BY DEF Responses
    <3> QED
      BY <3>1, <3>2
  <2>5. \A c \in owed' : task' = "running" => c \in PendingCalls'
    BY <2>1 DEF AnsweredOnce
  <2> QED
    BY <2>3, <2>4, <2>5 DEF AnsweredOnce
<1>7. ASSUME IdsDiffer' \/ Honest PROVE OwnAnswer'
  <2>1. OwnAnswer
    BY <1>7, IdsGrow DEF AnswerInv
  <2> QED
    BY <2>1 DEF OwnAnswer
<1>8. Honest' <=> Honest
  BY DEF Honest
<1> QED
  BY <1>4, <1>5, <1>6, <1>7, <1>8 DEF AnswerInv

(* The entry that a response matches is the only one left out. *)
LEMMA ReadPending ==
    ASSUME WsInv, NEW k \in DOMAIN pending, ReadResponse(k)
    PROVE  /\ pending[k] \in PendingCalls /\ PendingCalls' = PendingCalls \ {pending[k]}
           /\ wire # <<>> /\ 1 \in Responses /\ Head(wire) = wire[1]
           /\ wire[1].outputs \in Seq(Output) /\ wire' = Tail(wire)
<1>1. /\ DOMAIN pending' = DOMAIN pending \ {k}
      /\ \A j \in DOMAIN pending' : pending'[j] = pending[j]
  BY DEF ReadResponse, Restrict
<1>2. pending[k] \in PendingCalls /\ PendingCalls' = PendingCalls \ {pending[k]}
  BY <1>1 DEF WsInv, Ownership, PendingCalls, Range, IsInjective, TypeOK, TaskTypesOK
<1>3. wire # <<>> /\ Head(wire).kind = "response" /\ wire' = Tail(wire) /\ wire \in Seq(WireMessage)
  BY DEF ReadResponse, Reads, WsInv, TypeOK, PeerTypesOK
<1>4. 1 \in 1 .. Len(wire) /\ Head(wire) = wire[1] /\ wire[1] \in WireMessage
  BY <1>3
<1>5. wire[1].outputs \in Seq(Output)
  BY <1>3, <1>4 DEF WireMessage
<1> QED
  BY <1>2, <1>3, <1>4, <1>5 DEF Responses

(* The response that matches an entry holds the answers to its call. *)
LEMMA ReadOwn ==
    ASSUME WsInv, AnswerInv, NEW k \in DOMAIN pending, ReadResponse(k), IdsDiffer \/ Honest
    PROVE  /\ InRequestOrder(pending[k], wire[1].outputs) =
                [j \in 1 .. Size[pending[k]] |-> <<pending[k], j>>]
           /\ Honest => pending[k] \notin owed /\ Whole(wire[1].outputs, pending[k])
<1> DEFINE c == pending[k]
           outs == wire[1].outputs
<1>1. /\ c \in Call /\ Len(ids[c]) = Size[c] /\ ids[c] \in Seq(Id) /\ outs \in Seq(Output)
      /\ ids[c] # <<>> /\ c \in PendingCalls /\ 1 \in Responses
  BY ReadPending, SentSize DEF WsInv, Ownership
<1>2. /\ IsInjective([i \in DOMAIN outs |-> outs[i].id])
      /\ IdsOf(c) \subseteq OutputIds(outs)
  BY ReadPending DEF ReadResponse, Matches
<1>3. ASSUME NEW j \in 1 .. Len(ids[c]) PROVE \E i \in DOMAIN outs : outs[i].id = ids[c][j]
  <2>1. ids[c][j] \in IdsOf(c)
    BY <1>1 DEF IdsOf, Range
  <2> QED
    BY <1>2, <2>1 DEF OutputIds, Range
<1>4. \A i \in DOMAIN outs : \E d \in sent : From(outs[i], d)
  BY <1>1 DEF AnswerInv, Labelled
<1>5. Honest => c \notin owed /\ Whole(outs, c)
  <2> SUFFICES ASSUME Honest PROVE c \notin owed /\ Whole(outs, c)
    OBVIOUS
  <2>1. task = "running"
    BY DEF ReadResponse, Reads, Polls
  <2>2. PICK d \in sent : d \notin owed /\ Whole(outs, d) /\ d \in PendingCalls
    BY <1>1, <2>1 DEF AnswerInv, AnsweredOnce
  <2>3. PICK l \in DOMAIN pending : pending[l] = d
    BY <2>2 DEF PendingCalls, Range
  <2>4. /\ 1 \in 1 .. Len(ids[c]) /\ ids[c][1] \in IdsOf(c)
    BY <1>1 DEF IdsOf, Range
  <2>5. PICK i \in DOMAIN outs : outs[i].id = ids[c][1]
    BY <1>3, <2>4
  <2>6. PICK j \in 1 .. Size[d] : outs[i] = OutputOf(d, j)
    BY <2>2 DEF Whole, From
  <2>7. ids[c][1] \in IdsOf(d)
    BY <2>2, <2>5, <2>6, SentSize DEF OutputOf, IdsOf, Range
  <2>8. l = k
    BY <2>3, <2>4, <2>7 DEF WsInv, PendingApart
  <2> QED
    BY <2>2, <2>3, <2>8
<1>6. ASSUME NEW j \in 1 .. Len(ids[c]), NEW i \in DOMAIN outs, outs[i].id = ids[c][j]
      PROVE  outs[i].value = <<c, j>>
  <2>1. CASE IdsDiffer
    <3>1. PICK d \in sent : \E l \in 1 .. Size[d] : outs[i] = OutputOf(d, l)
      BY <1>4 DEF From
    <3>2. PICK l \in 1 .. Size[d] : outs[i] = OutputOf(d, l)
      BY <3>1
    <3>3. d \in Call /\ l \in 1 .. Len(ids[d]) /\ ids[d][l] = ids[c][j]
      BY <1>6, <3>2, SentSize DEF OutputOf
    <3>4. d = c /\ l = j
      BY <1>1, <2>1, <3>3 DEF IdsDiffer
    <3> QED
      BY <3>2, <3>4 DEF OutputOf
  <2>2. CASE Honest
    <3>1. PICK m \in DOMAIN outs : outs[m] = OutputOf(c, j)
      BY <1>1, <1>5, <2>2 DEF Whole
    <3>2. outs[m].id = outs[i].id /\ outs[m].value = <<c, j>>
      BY <1>6, <3>1 DEF OutputOf
    <3>3. m = i
      BY <1>2, <3>2 DEF IsInjective
    <3> QED
      BY <3>2, <3>3
  <2> QED
    BY <2>1, <2>2
<1>7. InRequestOrder(c, outs) = [j \in 1 .. Size[c] |-> <<c, j>>]
  <2>1. ASSUME NEW j \in 1 .. Len(ids[c])
        PROVE  outs[CHOOSE i \in DOMAIN outs : outs[i].id = ids[c][j]].value = <<c, j>>
    BY <1>3, <1>6
  <2> QED
    BY <1>1, <2>1 DEF InRequestOrder
<1> QED
  BY <1>5, <1>7

LEMMA AnswerRead ==
    ASSUME WsInv, AnswerInv, [Next]_vars, NEW k \in DOMAIN pending, ReadResponse(k)
    PROVE  AnswerInv'
<1> DEFINE c == pending[k]
           outs == wire[1].outputs
<1>1. /\ UNCHANGED <<ids, writing, task, sent, owed>> /\ task = "running"
      /\ \A d : \A j : OutputOf(d, j)' = OutputOf(d, j)
  BY DEF ReadResponse, Reads, Polls, OutputOf
<1>2. c \in PendingCalls /\ PendingCalls' = PendingCalls \ {c} /\ c \in Call /\ 1 \in Responses
  BY ReadPending, SentSize
<1>3. \A n \in Responses' : n + 1 \in Responses /\ wire'[n] = wire[n + 1] /\ n + 1 # 1 /\ n \in Nat
  BY ReadPending, TailType DEF Responses, WsInv, TypeOK, PeerTypesOK
<1>4. Written'
  BY <1>1, <1>2 DEF AnswerInv, Written
<1>5. Labelled'
  BY <1>1, <1>3 DEF AnswerInv, Labelled, From
<1>6. ASSUME Honest PROVE AnsweredOnce'
  <2>1. AnsweredOnce /\ c \notin owed /\ Whole(outs, c)
    BY <1>6, ReadOwn DEF AnswerInv
  <2>2. Size[c] > 0 /\ Size[c] \in Nat
    <3>1. ids[c] # <<>> /\ ids[c] \in Seq(Id) /\ Len(ids[c]) = Size[c]
      BY <1>2, SentSize DEF WsInv, Ownership
    <3> QED
      BY <3>1
  <2>3. (\A n \in Responses : \E d \in sent : /\ d \notin owed
                                              /\ Whole(wire[n].outputs, d)
                                              /\ task = "running" => d \in PendingCalls)'
    <3> SUFFICES ASSUME NEW n \in Responses'
                 PROVE  (\E d \in sent : /\ d \notin owed
                                         /\ Whole(wire[n].outputs, d)
                                         /\ task = "running" => d \in PendingCalls)'
      OBVIOUS
    <3>1. PICK d \in sent : d \notin owed /\ Whole(wire[n + 1].outputs, d) /\ d \in PendingCalls
      BY <1>1, <1>3, <2>1 DEF AnsweredOnce
    <3>2. d # c
      <4>1. 1 \in 1 .. Size[c]
        BY <2>2
      <4>2. PICK i \in DOMAIN outs : outs[i] = OutputOf(c, 1)
        BY <2>1, <4>1 DEF Whole
      <4>3. ASSUME d = c PROVE FALSE
        <5>1. PICK j \in DOMAIN wire[n + 1].outputs : wire[n + 1].outputs[j] = OutputOf(c, 1)
          BY <3>1, <4>1, <4>3 DEF Whole
        <5>2. 1 = n + 1
          BY <1>2, <1>3, <2>1, <4>2, <5>1 DEF AnsweredOnce, OutputOf
        <5> QED
          BY <1>3, <5>2
      <4> QED
        BY <4>3
    <3> DEFINE o == wire[n + 1].outputs
    <3>3. wire'[n].outputs = o /\ Whole(o, d)
      BY <1>3, <3>1
    <3> HIDE DEF o
    <3>4. Whole(wire[n].outputs, d)'
      BY <1>1, <3>3 DEF Whole, From
    <3> QED
      BY <1>1, <1>2, <3>1, <3>2, <3>4
  <2>4. (\A m, n \in Responses : \A i \in DOMAIN wire[m].outputs, j \in DOMAIN wire[n].outputs :
          wire[m].outputs[i].value[1] = wire[n].outputs[j].value[1] => m = n)'
    <3> SUFFICES ASSUME NEW m \in Responses', NEW n \in Responses',
                        NEW i \in DOMAIN wire'[m].outputs, NEW j \in DOMAIN wire'[n].outputs,
                        wire'[m].outputs[i].value[1] = wire'[n].outputs[j].value[1]
                 PROVE  m = n
      OBVIOUS
    <3>1. m + 1 = n + 1
      BY <1>3, <2>1 DEF AnsweredOnce
    <3> QED
      BY <1>3, <3>1
  <2>5. \A d \in owed' : task' = "running" => d \in PendingCalls'
    BY <1>1, <1>2, <2>1 DEF AnsweredOnce
  <2> QED
    BY <2>3, <2>4, <2>5 DEF AnsweredOnce
<1>7. ASSUME IdsDiffer' \/ Honest PROVE OwnAnswer'
  <2>1. OwnAnswer /\ (IdsDiffer \/ Honest)
    BY <1>7, IdsGrow DEF AnswerInv
  <2>2. InRequestOrder(c, Head(wire).outputs) = [j \in 1 .. Size[c] |-> <<c, j>>]
    BY <2>1, ReadOwn, ReadPending
  <2>3. \A d \in Call : status'[d] = "answered" => status[d] = "answered" \/ (d = c /\ status[c] = "waiting")
    BY DEF ReadResponse, Settle
  <2>4. answer' = IF status[c] = "waiting"
                    THEN [answer EXCEPT ![c] = [j \in 1 .. Size[c] |-> <<c, j>>]] ELSE answer
    BY <2>2 DEF ReadResponse
  <2>5. answer \in [Call -> Seq(Value)]
    BY DEF WsInv, TypeOK, CallTypesOK
  <2> QED
    BY <1>2, <2>1, <2>3, <2>4, <2>5 DEF OwnAnswer
<1>8. Honest' <=> Honest
  BY DEF Honest
<1> QED
  BY <1>4, <1>5, <1>6, <1>7, <1>8 DEF AnswerInv

(* The peer adds a response; everything before it stays. *)
LEMMA PeerAppends ==
    ASSUME WsInv, NEW outs, PeerSends(ResponseMsg(outs))
    PROVE  /\ Len(wire) \in Nat /\ Len(wire') = Len(wire) + 1
           /\ Responses' = Responses \cup {Len(wire) + 1}
           /\ wire'[Len(wire) + 1].outputs = outs
           /\ \A n \in Responses : n \in 1 .. Len(wire) /\ wire'[n] = wire[n]
<1>1. /\ Len(wire) \in Nat /\ Len(wire') = Len(wire) + 1
      /\ \A n \in 1 .. Len(wire) : wire'[n] = wire[n]
      /\ wire'[Len(wire) + 1] = ResponseMsg(outs)
  BY DEF WsInv, TypeOK, PeerTypesOK, PeerSends
<1>2. \A n \in 1 .. Len(wire') : n \in 1 .. Len(wire) \/ n = Len(wire) + 1
  BY <1>1
<1>3. Len(wire) + 1 \in 1 .. Len(wire') /\ \A n \in 1 .. Len(wire) : n \in 1 .. Len(wire')
  BY <1>1
<1> QED
  BY <1>1, <1>2, <1>3 DEF Responses, ResponseMsg

(* An answer is labelled, is whole, and is the only one to its call. *)
LEMMA AnswerPeerAnswers ==
    ASSUME WsInv, AnswerInv, [Next]_vars, NEW c \in Call, PeerAnswers(c)
    PROVE  AnswerInv'
<1>1. /\ UNCHANGED <<ids, status, answer, pending, writing, task, sent>> /\ owed' = owed \ {c}
      /\ PendingCalls' = PendingCalls /\ c \in owed
      /\ \A d : \A j : OutputOf(d, j)' = OutputOf(d, j)
  BY DEF PeerAnswers, callVars, taskVars, PendingCalls, OutputOf
<1>2. PICK p \in Bijection(1 .. Size[c], 1 .. Size[c]) :
          PeerSends(ResponseMsg([j \in 1 .. Size[c] |-> OutputOf(c, p[j])]))
  BY DEF PeerAnswers
<1> DEFINE outs == [j \in 1 .. Size[c] |-> OutputOf(c, p[j])]
<1>3. /\ \A j \in 1 .. Size[c] : p[j] \in 1 .. Size[c]
      /\ \A j \in 1 .. Size[c] : \E i \in 1 .. Size[c] : p[i] = j
  BY DEF Bijection, Injection, Surjection, IsInjective
<1>4. Whole(outs, c)
  BY <1>3 DEF Whole, From
<1>5. c \in sent
  BY <1>1 DEF WsInv, Issued
<1>6. PICK last : /\ Responses' = Responses \cup {last} /\ wire'[last].outputs = outs
                  /\ \A n \in Responses : wire'[n] = wire[n]
  BY <1>2, PeerAppends
<1> HIDE DEF outs
<1>7. Written'
  BY <1>1 DEF AnswerInv, Written
<1>8. Labelled'
  BY <1>1, <1>4, <1>5, <1>6 DEF AnswerInv, Labelled, From, Whole
<1>9. ASSUME Honest PROVE AnsweredOnce'
  <2>1. AnsweredOnce
    BY <1>9 DEF AnswerInv
  <2>2. (\A n \in Responses : \E d \in sent : /\ d \notin owed
                                              /\ Whole(wire[n].outputs, d)
                                              /\ task = "running" => d \in PendingCalls)'
    <3>1. ASSUME NEW d \in sent, NEW o, Whole(o, d), NEW n, wire'[n].outputs = o
          PROVE  Whole(wire[n].outputs, d)'
      BY <1>1, <3>1 DEF Whole, From
    <3>2. \A n \in Responses : \E d \in sent : /\ d \notin owed /\ Whole(wire[n].outputs, d)'
                                               /\ task = "running" => d \in PendingCalls
      BY <1>6, <2>1, <3>1 DEF AnsweredOnce
    <3>3. Whole(wire[last].outputs, c)'
      BY <1>4, <1>5, <1>6, <3>1
    <3>4. c \notin owed' /\ (task' = "running" => c \in PendingCalls')
      BY <1>1, <2>1 DEF AnsweredOnce
    <3>5. \A n \in Responses : \E d \in sent : /\ d \notin owed' /\ Whole(wire[n].outputs, d)'
                                               /\ task' = "running" => d \in PendingCalls'
      BY <1>1, <3>2
    <3> QED
      BY <1>1, <1>5, <1>6, <3>3, <3>4, <3>5
  <2>3. ASSUME NEW n \in Responses, NEW i \in DOMAIN wire[n].outputs
        PROVE  wire[n].outputs[i].value[1] # c
    <3>1. PICK d \in sent : d \notin owed /\ Whole(wire[n].outputs, d)
      BY <2>1 DEF AnsweredOnce
    <3>2. PICK j \in 1 .. Size[d] : wire[n].outputs[i] = OutputOf(d, j)
      BY <3>1 DEF Whole, From
    <3> QED
      BY <1>1, <3>1, <3>2 DEF OutputOf
  <2>4. \A i \in DOMAIN outs : outs[i].value[1] = c
    BY <1>4 DEF Whole, From, OutputOf
  <2>5. (\A m, n \in Responses : \A i \in DOMAIN wire[m].outputs, j \in DOMAIN wire[n].outputs :
          wire[m].outputs[i].value[1] = wire[n].outputs[j].value[1] => m = n)'
    BY <1>6, <2>1, <2>3, <2>4 DEF AnsweredOnce
  <2>6. \A d \in owed' : task' = "running" => d \in PendingCalls'
    BY <1>1, <2>1 DEF AnsweredOnce
  <2> QED
    BY <2>2, <2>5, <2>6 DEF AnsweredOnce
<1>10. ASSUME IdsDiffer' \/ Honest PROVE OwnAnswer'
  BY <1>1, <1>10, IdsGrow DEF AnswerInv, OwnAnswer
<1>11. Honest' <=> Honest
  BY DEF Honest
<1> QED
  BY <1>7, <1>8, <1>9, <1>10, <1>11 DEF AnswerInv

(* What a peer makes up is labelled as well. *)
LEMMA AnswerPeerMisanswers ==
    ASSUME WsInv, AnswerInv, [Next]_vars, PeerMisanswers
    PROVE  AnswerInv'
<1>1. /\ UNCHANGED <<ids, status, answer, pending, writing, task, sent, owed>>
      /\ PendingCalls' = PendingCalls /\ ~Honest
      /\ \A d : \A j : OutputOf(d, j)' = OutputOf(d, j)
  BY DEF PeerMisanswers, callVars, taskVars, PendingCalls, OutputOf, Honest
<1>2. PICK n \in 0 .. 2 : \E r \in [1 .. n -> SentRequests] :
          PeerSends(ResponseMsg([i \in 1 .. n |-> OutputOf(r[i][1], r[i][2])]))
  BY DEF PeerMisanswers
<1>3. PICK r \in [1 .. n -> SentRequests] :
          PeerSends(ResponseMsg([i \in 1 .. n |-> OutputOf(r[i][1], r[i][2])]))
  BY <1>2
<1> DEFINE outs == [i \in 1 .. n |-> OutputOf(r[i][1], r[i][2])]
<1>4. \A i \in DOMAIN outs : \E c \in sent : From(outs[i], c)
  <2> SUFFICES ASSUME NEW i \in 1 .. n PROVE \E c \in sent : From(outs[i], c)
    OBVIOUS
  <2>1. r[i][1] \in sent /\ r[i][2] \in 1 .. Size[r[i][1]]
    BY DEF SentRequests
  <2> QED
    BY <2>1 DEF From
<1>5. /\ Responses' = Responses \cup {Len(wire) + 1} /\ wire'[Len(wire) + 1].outputs = outs
      /\ \A m \in Responses : wire'[m] = wire[m]
  BY <1>3, PeerAppends
<1> HIDE DEF outs
<1>6. Written' /\ Labelled'
  BY <1>1, <1>4, <1>5 DEF AnswerInv, Written, Labelled, From
<1>7. ASSUME IdsDiffer' PROVE OwnAnswer'
  BY <1>1, <1>7, IdsGrow DEF AnswerInv, OwnAnswer
<1>8. Honest' <=> Honest
  BY DEF Honest
<1> QED
  BY <1>1, <1>6, <1>7, <1>8 DEF AnswerInv

LEMMA AnswerStill ==
    ASSUME WsInv, AnswerInv, [Next]_vars, UNCHANGED <<sent, owed>>,
           \/ wire' = wire
           \/ wire # <<>> /\ wire' = Tail(wire)
           \/ \E m : PeerSends(m) /\ m.kind # "response",
           task' = "running" => task = "running" /\ PendingCalls \subseteq PendingCalls',
           \A c \in PendingCalls' : c = writing' \/ c \in sent,
           \A c \in Call : status'[c] = "answered" => status[c] = "answered" /\ answer'[c] = answer[c]
    PROVE  AnswerInv'
<1>1. wire \in Seq(WireMessage) /\ Len(wire) \in Nat
  BY DEF WsInv, TypeOK, PeerTypesOK
<1>2. ASSUME wire' = wire
      PROVE  \A n \in Responses' : n + 0 \in Responses /\ wire'[n] = wire[n + 0]
  BY <1>1, <1>2 DEF Responses
<1>3. ASSUME wire # <<>>, wire' = Tail(wire)
      PROVE  \A n \in Responses' : n + 1 \in Responses /\ wire'[n] = wire[n + 1]
  BY <1>1, <1>3, TailType DEF Responses
<1>4. ASSUME NEW m, PeerSends(m), m.kind # "response"
      PROVE  \A n \in Responses' : n + 0 \in Responses /\ wire'[n] = wire[n + 0]
  <2>1. /\ Len(wire') = Len(wire) + 1 /\ wire'[Len(wire) + 1] = m
        /\ \A n \in 1 .. Len(wire) : wire'[n] = wire[n]
    BY <1>1, <1>4 DEF PeerSends
  <2>2. \A n \in 1 .. Len(wire') : n \in 1 .. Len(wire) \/ n = Len(wire) + 1
    BY <1>1, <2>1
  <2> QED
    BY <1>1, <1>4, <2>1, <2>2 DEF Responses
<1>5. ASSUME NEW d \in {0, 1}, \A n \in Responses' : n + d \in Responses /\ wire'[n] = wire[n + d]
      PROVE  AnswerInv'
  <2>1. {} \in SUBSET PendingCalls /\ sent' = sent \cup {} /\ owed' = owed \cup {}
    OBVIOUS
  <2> QED
    BY <1>5, <2>1, AnswerFrame
<1> QED
  BY <1>2, <1>3, <1>4, <1>5

LEMMA AnswerCallerStep ==
    ASSUME WsInv, AnswerInv, CallerStep
    PROVE  AnswerInv'
<1>1. /\ [Next]_vars /\ PendingCalls' = PendingCalls
      /\ UNCHANGED <<pending, writing, task, sent, owed, wire, answer>>
  BY DEF Next, CallerStep, Prepare, Send, Cancel, Subscribe, Poll, Drop, callVars, taskVars, peerVars,
         PendingCalls
<1>2. \A c \in Call : status'[c] = "answered" => status[c] = "answered"
  BY DEF CallerStep, Prepare, Send, Cancel, Subscribe, Poll, Drop, callVars, WsInv, TypeOK, CallTypesOK
<1>3. \A c \in PendingCalls : c = writing \/ c \in sent
  BY DEF AnswerInv, Written
<1> QED
  BY <1>1, <1>2, <1>3, AnswerStill

LEMMA AnswerTaskStep ==
    ASSUME WsInv, AnswerInv, TaskStep
    PROVE  AnswerInv'
<1>1. [Next]_vars /\ \A c \in PendingCalls : c = writing \/ c \in sent
  BY DEF Next, AnswerInv, Written
<1>2. ASSUME NEW c \in Call, TakeRequest(c) PROVE AnswerInv'
  <2>1. CASE Acceptable(c)
    <3> DEFINE n == ids[c][1]
    <3>1. /\ UNCHANGED <<status, answer, task, sent, owed, wire>> /\ writing' = c
          /\ pending' = [k \in DOMAIN pending \cup {n} |-> IF k = n THEN c ELSE pending[k]]
          /\ writing = NoCall
      BY <1>2, <2>1 DEF TakeRequest, Polls, peerVars
    <3>2. n \notin DOMAIN pending
      <4> SUFFICES ASSUME n \in DOMAIN pending PROVE FALSE
        OBVIOUS
      <4>1. pending[n] \in PendingCalls /\ ids[pending[n]][1] = n /\ ids[pending[n]] # <<>>
        BY DEF WsInv, PendingApart, Ownership, PendingCalls, Range
      <4>2. ids[c] \in Seq(Id) /\ ids[pending[n]] \in Seq(Id) /\ ids[c] # <<>>
        BY <2>1, <4>1, SentSize DEF WsInv, TypeOK, CallTypesOK, Acceptable
      <4>3. n \in IdsOf(pending[n]) /\ n \in IdsOf(c)
        BY <4>1, <4>2 DEF IdsOf, Range
      <4> QED
        BY <2>1, <4>1, <4>3 DEF Acceptable, PendingIds
    <3>3. PendingCalls' = PendingCalls \cup {c}
      BY <3>1, <3>2 DEF PendingCalls, Range
    <3>4. \A d \in PendingCalls : d \in sent
      BY <1>1, <3>1, SentSize, ConstantsAssumption
    <3> QED
      BY <1>1, <3>1, <3>3, <3>4, AnswerStill
  <2>2. CASE ~Acceptable(c)
    <3>1. /\ UNCHANGED <<pending, writing, answer, task, sent, owed, wire>> /\ PendingCalls' = PendingCalls
          /\ \A d \in Call : status'[d] = "answered" => status[d] = "answered"
      BY <1>2, <2>2 DEF TakeRequest, Settle, peerVars, PendingCalls
    <3> QED
      BY <1>1, <3>1, AnswerStill
  <2> QED
    BY <2>1, <2>2
<1>3. ASSUME UNCHANGED <<status, answer, pending, writing, task, sent, owed>>,
             wire' = wire \/ (wire # <<>> /\ wire' = Tail(wire))
      PROVE  AnswerInv'
  <2>1. PendingCalls' = PendingCalls
    BY <1>3 DEF PendingCalls
  <2> QED
    BY <1>1, <1>3, <2>1, AnswerStill
<1>4. ASSUME NEW h, TakeSubscribe(h) \/ TakeUnsubscribe(h) PROVE AnswerInv'
  BY <1>3, <1>4 DEF TakeSubscribe, TakeUnsubscribe, callVars, peerVars
<1>5. CASE SendText
  <2>1. /\ UNCHANGED <<status, answer, pending, writing, task, wire>> /\ PendingCalls' = PendingCalls
        /\ writing \in PendingCalls /\ writing \notin sent
        /\ sent' = sent \cup {writing} /\ owed' = owed \cup {writing}
    BY <1>5 DEF SendText, callVars, taskVars, PendingCalls, WsInv, Issued
  <2>2. ids[writing] # <<>>
    BY <2>1 DEF WsInv, Ownership, PendingCalls, Range
  <2>3. \A n \in Responses' : n + 0 \in Responses /\ wire'[n] = wire[n + 0]
    BY <2>1 DEF Responses, WsInv, TypeOK, PeerTypesOK
  <2> DEFINE X == {writing}
  <2>4. X \in SUBSET PendingCalls /\ \A c \in X : c \notin sent /\ ids[c] # <<>>
    BY <2>1, <2>2
  <2>5. sent' = sent \cup X /\ owed' = owed \cup X
    BY <2>1
  <2> HIDE DEF X
  <2> QED
    BY <1>1, <2>1, <2>3, <2>4, <2>5, AnswerFrame
<1>6. CASE Flush
  <2>1. UNCHANGED <<status, answer, pending, task, sent, owed, wire>> /\ writing \in sent
    BY <1>6 DEF Flush, callVars, peerVars
  <2>2. PendingCalls' = PendingCalls
    BY <2>1 DEF PendingCalls
  <2> QED
    BY <1>1, <2>1, <2>2, AnswerStill
<1>7. ASSUME FailPending, UNCHANGED <<answer, sent, owed>>,
             wire' = wire \/ (wire # <<>> /\ wire' = Tail(wire))
      PROVE  AnswerInv'
  <2>1. PendingCalls' = {} /\ task' = "broken"
    BY <1>7 DEF FailPending, PendingCalls, Range
  <2>2. \A c \in Call : status'[c] = "answered" => status[c] = "answered"
    BY <1>7 DEF FailPending, Settle
  <2> QED
    BY <1>1, <1>7, <2>1, <2>2, AnswerStill
<1>8. CASE WriteFails \/ ReadFails
  BY <1>7, <1>8 DEF WriteFails, ReadFails, peerVars
<1>9. CASE ReadUnusable
  BY <1>7, <1>9 DEF ReadUnusable, Reads
<1>10. CASE ReadIgnored \/ ReadNotification
  BY <1>3, <1>10 DEF ReadIgnored, ReadNotification, Reads, callVars, taskVars
<1>11. CASE Finish
  <2>1. UNCHANGED <<answer, pending, writing, sent, owed, wire>> /\ task' = "done"
    BY <1>11 DEF Finish, peerVars
  <2>2. PendingCalls' = PendingCalls /\ \A c \in Call : status'[c] = "answered" => status[c] = "answered"
    BY <1>11, <2>1 DEF Finish, Settle, PendingCalls
  <2> QED
    BY <1>1, <2>1, <2>2, AnswerStill
<1> QED
  BY <1>1, <1>2, <1>4, <1>5, <1>6, <1>8, <1>9, <1>10, <1>11, AnswerRead DEF TaskStep

LEMMA AnswerPeerStep ==
    ASSUME WsInv, AnswerInv, PeerStep
    PROVE  AnswerInv'
<1>1. [Next]_vars /\ \A c \in PendingCalls : c = writing \/ c \in sent
  BY DEF Next, AnswerInv, Written
<1>2. ASSUME UNCHANGED <<callVars, taskVars, sent, owed>>,
             wire' = wire \/ \E m : PeerSends(m) /\ m.kind # "response"
      PROVE  AnswerInv'
  <2>1. UNCHANGED <<status, answer, pending, writing, task>> /\ PendingCalls' = PendingCalls
    BY <1>2 DEF callVars, taskVars, PendingCalls
  <2> QED
    BY <1>1, <1>2, <2>1, AnswerStill
<1>3. ASSUME NEW s \in SubId, PeerNotifies(s) PROVE AnswerInv'
  <2>1. \E m : PeerSends(m) /\ m.kind # "response"
    BY <1>3 DEF PeerNotifies, NotificationMsg
  <2> QED
    BY <1>2, <1>3, <2>1 DEF PeerNotifies
<1>4. CASE PeerSendsOdd
  <2>1. \E m : PeerSends(m) /\ m.kind # "response"
    BY <1>4, MessageKinds DEF PeerSendsOdd
  <2> QED
    BY <1>2, <1>4, <2>1 DEF PeerSendsOdd
<1>5. CASE Break
  BY <1>2, <1>5 DEF Break
<1> QED
  BY <1>1, <1>3, <1>4, <1>5, AnswerPeerAnswers, AnswerPeerMisanswers DEF PeerStep

LEMMA AnswerInvHolds == Spec => []AnswerInv
<1>1. Init => AnswerInv
  BY DEF Init, AnswerInv, Written, Labelled, AnsweredOnce, Responses, OwnAnswer, PendingCalls, Range
<1>2. WsInv /\ AnswerInv /\ [Next]_vars => AnswerInv'
  <2> SUFFICES ASSUME WsInv, AnswerInv, [Next]_vars PROVE AnswerInv'
    OBVIOUS
  <2>1. CASE UNCHANGED vars
    <3>1. /\ UNCHANGED <<status, answer, pending, writing, task, sent, owed, wire>>
          /\ PendingCalls' = PendingCalls
          /\ \A c \in PendingCalls : c = writing \/ c \in sent
      BY <2>1 DEF vars, callVars, taskVars, peerVars, PendingCalls, AnswerInv, Written
    <3> QED
      BY <3>1, AnswerStill
  <2> QED
    BY <2>1, AnswerCallerStep, AnswerTaskStep, AnswerPeerStep DEF Next
<1> QED
  BY <1>1, <1>2, InvHolds, PTL DEF Spec

(* A call that is answered gets the results of its own requests, in their
   order: as long as no id was handed out twice, whatever the peer sends; and
   even with a saturated counter if the peer answers each call once. *)
THEOREM AnswersAreOwn == Spec => [](IdsDiffer \/ Honest => OwnAnswer)
<1>1. AnswerInv => (IdsDiffer \/ Honest => OwnAnswer)
  BY DEF AnswerInv
<1> QED
  BY <1>1, AnswerInvHolds, PTL

(* next_request_id repeats an id only once the counter has reached MaxId. *)
IdsBelow == counter < MaxId => /\ IdsDiffer
                               /\ \A c \in Call : \A i \in 1 .. Len(ids[c]) : ids[c][i] < counter

LEMMA IdsBelowNext ==
    ASSUME WsInv, IdsBelow, [Next]_vars
    PROVE  IdsBelow'
<1>1. UNCHANGED <<counter, ids>> \/ \E c \in Call : Prepare(c)
  BY DEF Next, CallerStep, TaskStep, PeerStep, Send, Cancel, Subscribe, Poll, Drop, TakeRequest,
         TakeSubscribe, TakeUnsubscribe, SendText, Flush, WriteFails, ReadResponse, ReadUnusable,
         ReadIgnored, ReadNotification, ReadFails, Finish, PeerAnswers, PeerNotifies,
         PeerMisanswers, PeerSendsOdd, Break, vars, callVars
<1>2. CASE UNCHANGED <<counter, ids>>
  BY <1>2 DEF IdsBelow, IdsDiffer
<1>3. ASSUME NEW c \in Call, Prepare(c), counter' < MaxId PROVE IdsBelow'
  <2>1. counter \in Nat /\ MaxId \in Nat /\ counter <= MaxId
    BY ConstantsAssumption DEF WsInv, TypeOK, CallTypesOK, Id
  <2>2. counter < MaxId /\ counter' = counter + 1
    BY <1>3, <2>1 DEF Prepare, Successor
  <2>3. /\ ids[c] \in Seq(Id) /\ ids' = [ids EXCEPT ![c] = Append(ids[c], counter)]
        /\ ids \in [Call -> Seq(Id)] /\ Len(ids[c]) \in Nat
    BY <1>3 DEF WsInv, TypeOK, CallTypesOK, Prepare
  <2>4. /\ Len(ids'[c]) = Len(ids[c]) + 1 /\ ids'[c][Len(ids[c]) + 1] = counter
        /\ \A i \in 1 .. Len(ids[c]) : ids'[c][i] = ids[c][i]
        /\ \A d \in Call : d # c => ids'[d] = ids[d]
    BY <2>3
  <2>5. \A d \in Call : \A i \in 1 .. Len(ids'[d]) :
          \/ i \in 1 .. Len(ids[d]) /\ ids'[d][i] = ids[d][i]
          \/ d = c /\ i = Len(ids[c]) + 1 /\ ids'[d][i] = counter
    BY <2>3, <2>4
  <2>6. \A d \in Call : \A i \in 1 .. Len(ids[d]) : ids[d][i] \in Nat /\ ids[d][i] < counter
    <3> SUFFICES ASSUME NEW d \in Call, NEW i \in 1 .. Len(ids[d])
                 PROVE  ids[d][i] \in Nat /\ ids[d][i] < counter
      OBVIOUS
    <3>1. ids[d] \in Seq(Id)
      BY <2>3
    <3>2. ids[d][i] \in Id
      BY <3>1
    <3> QED
      BY <2>2, <3>2 DEF IdsBelow, Id
  <2>7. IdsDiffer'
    <3> SUFFICES ASSUME NEW d \in Call, NEW e \in Call, NEW i \in 1 .. Len(ids'[d]),
                        NEW j \in 1 .. Len(ids'[e]), ids'[d][i] = ids'[e][j]
                 PROVE  d = e /\ i = j
      BY DEF IdsDiffer
    <3>1. /\ \/ i \in 1 .. Len(ids[d]) /\ ids'[d][i] = ids[d][i]
             \/ d = c /\ i = Len(ids[c]) + 1 /\ ids'[d][i] = counter
          /\ \/ j \in 1 .. Len(ids[e]) /\ ids'[e][j] = ids[e][j]
             \/ e = c /\ j = Len(ids[c]) + 1 /\ ids'[e][j] = counter
      BY <2>5
    <3>2. /\ i \in 1 .. Len(ids[d]) => ids[d][i] \in Nat /\ ids[d][i] < counter
          /\ j \in 1 .. Len(ids[e]) => ids[e][j] \in Nat /\ ids[e][j] < counter
      BY <2>6
    <3>3. ASSUME i \in 1 .. Len(ids[d]), j \in 1 .. Len(ids[e]), ids[d][i] = ids[e][j]
          PROVE  d = e /\ i = j
      BY <2>2, <3>3 DEF IdsBelow, IdsDiffer
    <3> QED
      BY <2>1, <3>1, <3>2, <3>3
  <2>8. (\A d \in Call : \A i \in 1 .. Len(ids[d]) : ids[d][i] < counter)'
    BY <2>1, <2>2, <2>5, <2>6
  <2> QED
    BY <2>7, <2>8 DEF IdsBelow
<1>4. ASSUME ~(counter' < MaxId) PROVE IdsBelow'
  BY <1>4 DEF IdsBelow
<1> QED
  BY <1>1, <1>2, <1>3, <1>4

LEMMA IdsBelowHolds == Spec => []IdsBelow
<1>1. Init => IdsBelow
  BY DEF Init, IdsBelow, IdsDiffer
<1>2. WsInv /\ IdsBelow /\ [Next]_vars => IdsBelow'
  BY IdsBelowNext
<1> QED
  BY <1>1, <1>2, InvHolds, PTL DEF Spec

(* Until MaxId requests were prepared, no peer can make the task resolve a
   call with another call's results. *)
THEOREM AnswersAreOwnBelowMaxId == Spec => [](counter < MaxId => OwnAnswer)
<1>1. IdsBelow /\ AnswerInv => (counter < MaxId => OwnAnswer)
  BY DEF AnswerInv, IdsBelow
<1> QED
  BY <1>1, AnswerInvHolds, IdsBelowHolds, PTL

-----------------------------------------------------------------------------
(* The refinement. *)

LEMMA PromisedIsStatus ==
    ASSUME TypeOK, OwnAnswer PROVE [c \in Call |-> Promised(c)] = status
BY DEF TypeOK, CallTypesOK, OwnAnswer, Promised

LEMMA PromisedIsStatusNext ==
    ASSUME TypeOK', OwnAnswer' PROVE [c \in Call |-> Promised(c)]' = status'
BY DEF TypeOK, CallTypesOK, OwnAnswer, Promised

(* A step that writes nothing and only ends waiting calls, each the way its
   having been written allows. *)
LEMMA ResolveRefines ==
    ASSUME TypeOK, TypeOK', OwnAnswer, OwnAnswer', sent' = sent,
           \A c \in Call : status'[c] # status[c] =>
              /\ status[c] = "waiting"
              /\ \/ status'[c] \in {"failed", "cancelled"}
                 \/ c \in sent /\ status'[c] = "answered"
                 \/ c \notin sent /\ status'[c] = "unsent"
    PROVE  Client!Next
<1>1. status' \in [Call -> Client!Status] /\ DOMAIN status = Call
  BY DEF TypeOK, CallTypesOK, Status, Client!Status
<1>2. \A c \in Call : status'[c] # status[c]
                     => status[c] = "waiting" /\ status'[c] \in Client!Outcome(c)
  BY DEF Client!Outcome
<1>3. Client!Resolve
  BY <1>1, <1>2, PromisedIsStatus, PromisedIsStatusNext DEF Client!Resolve
<1> QED
  BY <1>3 DEF Client!Next

LEMMA CallerRefines ==
    ASSUME WsInv, WsInv', OwnAnswer, OwnAnswer', CallerStep
    PROVE  Client!Next
<1> USE DEF WsInv
<1>1. ASSUME NEW c \in Call, Send(c) PROVE Client!Next
  <2>1. /\ status[c] = "idle" /\ sent' = sent
        /\ \E s \in {"waiting", "unsent"} : status' = [status EXCEPT ![c] = s]
    BY <1>1 DEF Send, peerVars
  <2>2. \E s \in {"waiting", "unsent"} :
          status' = [d \in Call |-> IF d \in {c} THEN s ELSE status[d]]
    BY <2>1 DEF TypeOK, CallTypesOK
  <2>3. Client!Issue({c})
    BY <2>1, <2>2, PromisedIsStatus, PromisedIsStatusNext DEF Client!Issue
  <2> QED
    BY <2>3 DEF Client!Next
<1>2. ASSUME NEW c \in Call, Cancel(c) PROVE Client!Next
  <2>1. /\ sent' = sent
        /\ \A d \in Call : status'[d] # status[d] => status[d] = "waiting" /\ status'[d] = "cancelled"
    BY <1>2 DEF Cancel, peerVars, TypeOK, CallTypesOK
  <2> QED
    BY <2>1, ResolveRefines
<1>3. ASSUME UNCHANGED <<status, sent>> PROVE Client!Next
  BY <1>3, ResolveRefines
<1>4. ASSUME NEW c \in Call, Prepare(c) PROVE UNCHANGED <<status, sent>>
  BY <1>4 DEF Prepare, peerVars
<1>5. ASSUME NEW h \in Stream, Subscribe(h) \/ Poll(h) \/ Drop(h) PROVE UNCHANGED <<status, sent>>
  BY <1>5 DEF Subscribe, Poll, Drop, callVars, peerVars
<1> QED
  BY <1>1, <1>2, <1>3, <1>4, <1>5 DEF CallerStep

LEMMA TaskRefines ==
    ASSUME WsInv, WsInv', Written, OwnAnswer, OwnAnswer', TaskStep
    PROVE  Client!Next
<1> USE DEF WsInv
<1>1. ASSUME NEW C, NEW s, Settle(C, s), sent' = sent,
             \A c \in C : \/ s = "failed"
                          \/ c \in sent /\ s = "answered"
                          \/ c \notin sent /\ s = "unsent"
      PROVE  Client!Next
  <2>1. \A c \in Call : status'[c] # status[c] => c \in C /\ status[c] = "waiting" /\ status'[c] = s
    BY <1>1 DEF Settle
  <2> QED
    BY <1>1, <2>1, ResolveRefines
<1>2. ASSUME UNCHANGED <<status, sent>> PROVE Client!Next
  BY <1>2, ResolveRefines
<1>3. QueuedCalls \cap sent = {}
  BY DEF Ownership
<1>4. ASSUME NEW c \in Call, TakeRequest(c) PROVE Client!Next
  <2>1. c \in QueuedCalls
    BY <1>4 DEF TakeRequest, QueuedCalls, TypeOK, TaskTypesOK
  <2> QED
    BY <1>1, <1>2, <1>3, <1>4, <2>1 DEF TakeRequest, peerVars
<1>5. CASE SendText
  <2>1. /\ writing \in Call /\ writing \notin sent /\ sent' = sent \cup {writing}
        /\ status' = status
    BY <1>5 DEF SendText, callVars, TypeOK, TaskTypesOK
  <2>2. status[writing] \in {"waiting", "cancelled"}
    BY <1>5, <2>1 DEF SendText, Issued
  <2>3. Client!Execute({writing})
    BY <2>1, <2>2, PromisedIsStatus, PromisedIsStatusNext DEF Client!Execute
  <2> QED
    BY <2>1, <2>3 DEF Client!Next
<1>6. CASE WriteFails \/ ReadUnusable \/ ReadFails
  <2>1. Settle(PendingCalls, "failed") /\ sent' = sent
    BY <1>6 DEF WriteFails, ReadUnusable, ReadFails, FailPending, peerVars
  <2> QED
    BY <1>1, <2>1
<1>7. ASSUME NEW k \in DOMAIN pending, ReadResponse(k) PROVE Client!Next
  <2>1. pending[k] \in Call /\ pending[k] \in PendingCalls
    BY DEF TypeOK, TaskTypesOK, PendingCalls, Range
  <2>2. pending[k] \in sent
    BY <1>7, <2>1, ConstantsAssumption DEF Written, ReadResponse, Reads, Polls
  <2>3. Settle({pending[k]}, "answered") /\ sent' = sent
    BY <1>7 DEF ReadResponse
  <2> QED
    BY <1>1, <2>2, <2>3
<1>8. CASE Finish
  BY <1>1, <1>3, <1>8 DEF Finish, peerVars
<1>9. ASSUME NEW h \in Stream, TakeSubscribe(h) PROVE UNCHANGED <<status, sent>>
  BY <1>9 DEF TakeSubscribe, callVars, peerVars
<1>10. ASSUME NEW s \in SubId, TakeUnsubscribe(s) PROVE UNCHANGED <<status, sent>>
  BY <1>10 DEF TakeUnsubscribe, callVars, peerVars
<1>11. CASE Flush \/ ReadIgnored \/ ReadNotification
  BY <1>2, <1>11 DEF Flush, ReadIgnored, ReadNotification, callVars, peerVars
<1> QED
  BY <1>2, <1>4, <1>5, <1>6, <1>7, <1>8, <1>9, <1>10, <1>11 DEF TaskStep

LEMMA StepRefines ==
    ASSUME WsInv, WsInv', AnswerInv, OwnAnswer, OwnAnswer', [Next]_vars
    PROVE  Client!Next \/ UNCHANGED Client!vars
<1>1. ASSUME UNCHANGED <<status, sent>> PROVE UNCHANGED Client!vars
  BY <1>1, PromisedIsStatus, PromisedIsStatusNext DEF Client!vars, WsInv
<1>2. CASE PeerStep
  BY <1>1, <1>2 DEF PeerStep, PeerAnswers, PeerNotifies, PeerMisanswers, PeerSendsOdd, Break, callVars
<1>3. UNCHANGED vars => UNCHANGED <<status, sent>>
  BY DEF vars, callVars, peerVars
<1> QED
  BY <1>1, <1>2, <1>3, CallerRefines, TaskRefines DEF Next, AnswerInv

(* The WebSocket transport implements the promise of RpcClient, for every
   execution that prepares fewer than MaxId requests, and for every execution
   with a peer that answers each call once. *)
THEOREM ImplementsRpcClient == Spec /\ [](counter < MaxId \/ Honest) => ClientSpec
<1>1. Init /\ TypeOK /\ OwnAnswer => Client!Init
  BY PromisedIsStatus DEF Init, Client!Init
<1>2. WsInv /\ AnswerInv /\ IdsBelow /\ (counter < MaxId \/ Honest) => TypeOK /\ OwnAnswer
  BY DEF WsInv, AnswerInv, IdsBelow
<1>3. WsInv /\ WsInv' /\ AnswerInv /\ OwnAnswer /\ OwnAnswer' /\ [Next]_vars
        => [Client!Next]_(Client!vars)
  BY StepRefines
<1> QED
  BY <1>1, <1>2, <1>3, InvHolds, AnswerInvHolds, IdsBelowHolds, PTL DEF Spec, ClientSpec, Client!Spec
=============================================================================
