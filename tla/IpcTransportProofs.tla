------------------------ MODULE IpcTransportProofs ------------------------
(***************************************************************************)
(* Theorems about IpcTransport, for every value of its constants: its      *)
(* inductive invariant; that callers, unsent calls and batches are held as *)
(* promised; that streams have no gap and are kept; whose results a call is *)
(* answered with; and that it implements RpcClient.                        *)
(***************************************************************************)
EXTENDS IpcTransport, NotificationStreamsProofs, FiniteSetTheorems, WellFoundedInduction

LEMMA MessageTypes ==
    /\ \A c \in Call : RequestMsg(c) \in TransportMessage
    /\ \A h \in Stream : SubscribeMsg(h) \in TransportMessage
    /\ \A s \in SubId : UnsubscribeMsg(s) \in TransportMessage
BY DEF TransportMessage

LEMMA MessagesDiffer ==
    \A c \in Call : /\ \A d \in Call : RequestMsg(c) = RequestMsg(d) => c = d
                    /\ \A h \in Stream : RequestMsg(c) # SubscribeMsg(h)
                    /\ \A s \in SubId : RequestMsg(c) # UnsubscribeMsg(s)
BY DEF RequestMsg, SubscribeMsg, UnsubscribeMsg

LEMMA TailType ==
    ASSUME NEW S, NEW s \in Seq(S), s # <<>>
    PROVE  /\ Tail(s) \in Seq(S)
           /\ Head(s) \in S
           /\ Len(Tail(s)) = Len(s) - 1
           /\ \A i \in 1 .. Len(Tail(s)) : Tail(s)[i] = s[i + 1]
OBVIOUS

LEMMA RequestShape ==
    /\ \A r \in Request : r[1] \in Call /\ r[2] \in 1 .. Size[r[1]] /\ r = <<r[1], r[2]>>
    /\ \A c \in Call : \A j \in 1 .. Size[c] : <<c, j>> \in Request
BY DEF Request

LEMMA LessIsWellFounded == IsWellFoundedOn({p \in Nat \X Nat : p[1] < p[2]}, Nat)
BY NatLessThanWellFounded, Zenon DEF OpToRel

(* The minimum of a nonempty set of naturals is one of them. *)
LEMMA MinIn == ASSUME NEW T, T \subseteq Nat, T # {} PROVE Min(T) \in T
<1> DEFINE Less == {p \in Nat \X Nat : p[1] < p[2]}
<1>1. PICK x \in T : \A y \in T : ~ (<<y, x>> \in Less)
  <2>1. IsWellFoundedOn(Less, Nat)
    BY LessIsWellFounded
  <2> HIDE DEF Less
  <2> QED
    BY <2>1, WFMin
<1>2. ASSUME NEW y \in T PROVE x <= y
  <2>1. y \in Nat /\ x \in Nat
    OBVIOUS
  <2>2. CASE y < x
    <3>1. <<y, x>> \in Less
      BY <2>1, <2>2
    <3> QED
      BY <1>1, <3>1
  <2> QED
    BY <2>1, <2>2
<1> QED
  BY <1>2 DEF Min

-----------------------------------------------------------------------------
(* The invariant.  The buffer holds no more than the wire does; what the task
   is writing has an accepted request; what the peer owes was written. *)
Buffering == buffered <= 2 * Len(wire)
Writing   == /\ writing # NoCall => AcceptedIds(writing) # {}
             /\ \A c \in owed : SentOf(c) # {}

HeldInv == IpcInv /\ Buffering /\ Writing

LEMMA HeldInit == Init => HeldInv
<1> SUFFICES ASSUME Init PROVE HeldInv
  OBVIOUS
<1>1. /\ DOMAIN pending = {} /\ PendingRequests = {} /\ QueuedCalls = {}
      /\ DOMAIN pending \subseteq Id /\ pending \in [DOMAIN pending -> Request]
      /\ DOMAIN batches \subseteq Id /\ batches \in [DOMAIN batches -> SUBSET Id]
  BY DEF Init, PendingRequests, QueuedCalls, Range
<1>2. CallTypesOK
  BY ConstantsAssumption DEF Init, CallTypesOK, Id, Status
<1>3. TypeOK
  <2>1. TaskTypesOK
    <3>1. queue \in Seq(TransportMessage) /\ writing \in Call \cup {NoCall}
      BY DEF Init
    <3>2. closed \in BOOLEAN /\ buffered \in Nat /\ task \in {"running", "broken", "done"}
      BY DEF Init
    <3> QED
      BY <1>1, <3>1, <3>2 DEF TaskTypesOK
  <2>2. PeerTypesOK
    BY DEF Init, PeerTypesOK
  <2> QED
    BY <1>2, <2>1, <2>2, SubInitType DEF Init, TypeOK
<1>4. Issued
  BY <1>1 DEF Init, Issued
<1>5. Ownership
  BY <1>1 DEF Init, Ownership
<1>6. Buffering /\ Writing
  BY DEF Init, Buffering, Writing
<1> QED
  BY <1>3, <1>4, <1>5, <1>6 DEF HeldInv, IpcInv

(* What a step leaves alone keeps its type. *)
LEMMA Unchanged ==
    /\ CallTypesOK /\ UNCHANGED callVars => CallTypesOK'
    /\ TaskTypesOK /\ UNCHANGED taskVars => TaskTypesOK'
    /\ PeerTypesOK /\ UNCHANGED peerVars => PeerTypesOK'
    /\ SubTypesOK /\ UNCHANGED subVars => SubTypesOK'
BY DEF callVars, taskVars, peerVars, subVars, CallTypesOK, TaskTypesOK, PeerTypesOK,
       SubTypesOK

LEMMA SettledType ==
    ASSUME CallTypesOK, NEW R, NEW s \in Status
    PROVE  Settled(R, s) \in [Request -> Status]
BY DEF CallTypesOK, Settled

(* A caller's step keeps the types. *)
LEMMA TypeCallerStep ==
    ASSUME TypeOK, CallerStep
    PROVE  TypeOK'
<1> USE Unchanged DEF TypeOK
<1>1. ASSUME NEW c \in Call, Prepare(c) PROVE TypeOK'
  <2>1. counter \in Id /\ counter' \in Id
    BY <1>1, ConstantsAssumption DEF CallTypesOK, Prepare, Successor, Id
  <2>2. Append(ids[c], counter) \in Seq(Id)
    BY <2>1 DEF CallTypesOK
  <2>3. CallTypesOK'
    BY <1>1, <2>1, <2>2 DEF CallTypesOK, Prepare
  <2> QED
    BY <1>1, <2>3 DEF Prepare
<1>2. ASSUME NEW c \in Call, Send(c) PROVE TypeOK'
  <2>1. status' \in [Request -> Status]
    BY <1>2 DEF CallTypesOK, Send, Status
  <2>2. CallTypesOK'
    BY <1>2, <2>1 DEF CallTypesOK, Send
  <2>3. TaskTypesOK'
    BY <1>2, MessageTypes DEF TaskTypesOK, Send
  <2> QED
    BY <1>2, <2>2, <2>3 DEF Send
<1>3. ASSUME NEW c \in Call, Cancel(c) PROVE TypeOK'
  <2>1. CallTypesOK'
    BY <1>3, SettledType DEF CallTypesOK, Cancel, Status
  <2> QED
    BY <1>3, <2>1 DEF Cancel
<1>4. ASSUME NEW h \in Stream, Subscribe(h) PROVE TypeOK'
  <2>1. TaskTypesOK'
    BY <1>4, MessageTypes DEF TaskTypesOK, Subscribe, Enqueue
  <2>2. SubTypesOK'
    BY <1>4, BecomesType DEF Subscribe, Reader
  <2> QED
    BY <1>4, <2>1, <2>2 DEF Subscribe
<1>5. ASSUME NEW h \in Stream, Poll(h) PROVE TypeOK'
  <2>1. SubTypesOK'
    BY <1>5, ReceiveType DEF Poll
  <2> QED
    BY <1>5, <2>1 DEF Poll
<1>6. ASSUME NEW h \in Stream, Drop(h) PROVE TypeOK'
  <2>1. UnsubscribeMsg(sub[h]) \in TransportMessage
    BY MessageTypes DEF SubTypesOK
  <2>2. TaskTypesOK'
    BY <1>6, <2>1 DEF TaskTypesOK, Drop, Enqueue
  <2>3. SubTypesOK'
    BY <1>6, BecomesType DEF Drop, Reader
  <2> QED
    BY <1>6, <2>2, <2>3 DEF Drop
<1>7. CASE DropHandles
  <2>1. CallTypesOK'
    BY <1>7 DEF CallTypesOK, DropHandles
  <2> QED
    BY <1>7, <2>1 DEF DropHandles
<1> QED
  BY <1>1, <1>2, <1>3, <1>4, <1>5, <1>6, <1>7 DEF CallerStep

(* The status, the maps and the call being written after FailPending. *)
LEMMA LeaveLoopType ==
    ASSUME LeaveLoop
    PROVE  /\ DOMAIN pending' \subseteq Id /\ pending' \in [DOMAIN pending' -> Request]
           /\ DOMAIN batches' \subseteq Id /\ batches' \in [DOMAIN batches' -> SUBSET Id]
           /\ writing' \in Call \cup {NoCall}
           /\ task' \in {"running", "broken", "done"}
BY DEF LeaveLoop

LEMMA FailPendingType ==
    ASSUME TypeOK, FailPending, UNCHANGED <<counter, ids, issued, handles, answer, queue, closed>>,
           buffered' \in Nat
    PROVE  CallTypesOK' /\ TaskTypesOK'
<1>1. CallTypesOK'
  BY SettledType DEF TypeOK, CallTypesOK, FailPending, Status
<1>2. TaskTypesOK'
  BY LeaveLoopType DEF TypeOK, TaskTypesOK, FailPending
<1> QED
  BY <1>1, <1>2

(* What the task decodes is there. *)
LEMMA DecodesType ==
    ASSUME HeldInv, NEW K, Decodes(K)
    PROVE  /\ wire # <<>> /\ wire \in Seq(WireMessage) /\ Head(wire) \in WireMessage
           /\ wire' \in Seq(WireMessage) /\ buffered' \in Nat /\ Buffering'
           /\ task = "running" /\ writing = NoCall
           /\ Head(wire).kind \in {"single", "batch"} => Head(wire).outputs \in Seq(Output)
           /\ Head(wire).kind = "notification" => Head(wire).id \in SubId /\ Head(wire).number \in Nat
<1>1. wire \in Seq(WireMessage) /\ Len(wire) \in Nat /\ buffered \in Nat /\ buffered >= 2
  BY DEF HeldInv, IpcInv, TypeOK, PeerTypesOK, TaskTypesOK, Decodes, Decoding
<1>2. wire # <<>>
  BY <1>1 DEF HeldInv, Buffering
<1>3. wire' \in Seq(WireMessage) /\ Len(wire') = Len(wire) - 1 /\ Head(wire) \in WireMessage
  BY <1>1, <1>2, TailType DEF Decodes
<1>4. buffered' = buffered - 2
  BY DEF Decodes
<1>5. buffered' \in Nat /\ Buffering'
  BY <1>1, <1>3, <1>4 DEF HeldInv, Buffering
<1>6. /\ Head(wire).kind \in {"single", "batch"} => Head(wire).outputs \in Seq(Output)
      /\ Head(wire).kind = "notification" => Head(wire).id \in SubId /\ Head(wire).number \in Nat
  BY <1>3 DEF WireMessage
<1> QED
  BY <1>1, <1>2, <1>3, <1>5, <1>6 DEF Decodes, Decoding

(* The outputs that are delivered have the right type. *)
LEMMA AnswerType ==
    ASSUME HeldInv, NEW outs \in Seq(Output), AnswerWith(outs)
    PROVE  answer' \in [Request -> Request \cup {NoRequest}]
<1>1. ASSUME NEW r \in Answered(outs)
      PROVE  outs[CHOOSE i \in DOMAIN outs : outs[i].id = IdOf(r)].value \in Request \cup {NoRequest}
  <2>1. PICK k \in OutputIds(outs) \cap DOMAIN pending : r = pending[k]
    BY DEF Answered
  <2>2. IdOf(r) = k
    BY <2>1 DEF HeldInv, IpcInv, Ownership
  <2>3. \E i \in DOMAIN outs : outs[i].id = IdOf(r)
    BY <2>1, <2>2 DEF OutputIds
  <2> DEFINE j == CHOOSE i \in DOMAIN outs : outs[i].id = IdOf(r)
  <2>4. j \in DOMAIN outs
    BY <2>3
  <2> HIDE DEF j
  <2>5. outs[j] \in Output
    BY <2>4
  <2>6. outs[j].value \in Request \cup {NoRequest}
    BY <2>5 DEF Output
  <2> QED
    BY <2>6 DEF j
<1>2. answer \in [Request -> Request \cup {NoRequest}]
  BY DEF HeldInv, IpcInv, TypeOK, CallTypesOK
<1> QED
  BY <1>1, <1>2 DEF AnswerWith

(* A request the task accepts is the only one of its call with its id. *)
LEMMA FreshRequests ==
    ASSUME TypeOK, NEW c \in Call
    PROVE  /\ Fresh(c) \subseteq 1 .. Size[c]
           /\ \A j \in Fresh(c) : (CHOOSE n \in Fresh(c) : ids[c][n] = ids[c][j]) = j
           /\ \A j \in Fresh(c) : ids[c][j] \notin DOMAIN pending
<1>1. Fresh(c) \subseteq 1 .. Size[c] /\ \A j \in Fresh(c) : ids[c][j] \notin DOMAIN pending
  BY DEF Fresh
<1>2. Size[c] \in Nat
  BY ConstantsAssumption
<1>3. ASSUME NEW j \in Fresh(c), NEW n \in Fresh(c), ids[c][n] = ids[c][j] PROVE n = j
  <2>1. j \in 1 .. Size[c] /\ n \in 1 .. Size[c]
    BY <1>1
  <2>2. ~(n < j) /\ ~(j < n)
    BY <1>2, <1>3, <2>1 DEF Fresh
  <2> QED
    BY <1>2, <2>1, <2>2
<1> QED
  BY <1>1, <1>3

(* What Take does to the pending map, for the call at the head of the queue,
   all ids of which were handed out. *)
LEMMA TakePending ==
    ASSUME TypeOK, NEW c \in Call, Take(c), Len(ids[c]) = Size[c]
    PROVE  /\ \A j \in Fresh(c) : ids[c][j] \in Id
           /\ DOMAIN pending' = DOMAIN pending \cup {ids[c][j] : j \in Fresh(c)}
           /\ \A i \in DOMAIN pending : pending'[i] = pending[i]
           /\ \A j \in Fresh(c) : pending'[ids[c][j]] = <<c, j>>
<1> DEFINE new == {ids[c][j] : j \in Fresh(c)}
<1>1. pending' = [i \in DOMAIN pending \cup new |->
                    IF i \in new THEN <<c, CHOOSE j \in Fresh(c) : ids[c][j] = i>> ELSE pending[i]]
  BY DEF Take
<1>2. \A j \in Fresh(c) : ids[c][j] \in Id
  BY FreshRequests DEF TypeOK, CallTypesOK
<1>3. new \cap DOMAIN pending = {}
  BY FreshRequests
<1>4. ASSUME NEW j \in Fresh(c) PROVE pending'[ids[c][j]] = <<c, j>>
  <2>1. ids[c][j] \in new
    OBVIOUS
  <2> QED
    BY <1>1, <2>1, FreshRequests
<1>5. ASSUME NEW i \in DOMAIN pending PROVE pending'[i] = pending[i]
  <2>1. i \notin new
    BY <1>3
  <2> QED
    BY <1>1, <2>1
<1>6. DOMAIN pending' = DOMAIN pending \cup new
  BY <1>1
<1> QED
  BY <1>2, <1>4, <1>5, <1>6

(* The batch that WriteAll records is keyed by one of its ids. *)
LEMMA FirstIdType ==
    ASSUME HeldInv, writing # NoCall
    PROVE  /\ writing \in Call /\ FirstId(writing) \in AcceptedIds(writing)
           /\ AcceptedIds(writing) \subseteq DOMAIN pending
           /\ FirstId(writing) \in Id /\ AcceptedIds(writing) \subseteq Id
<1> DEFINE T == {j \in 1 .. Size[writing] : ids[writing][j] \in AcceptedIds(writing)}
<1>1. writing \in Call
  BY DEF HeldInv, IpcInv, TypeOK, TaskTypesOK
<1>2. PICK i \in DOMAIN pending : pending[i][1] = writing
  BY DEF HeldInv, Writing, AcceptedIds
<1>3. pending[i] \in Request /\ IdOf(pending[i]) = i
  BY DEF HeldInv, IpcInv, TypeOK, TaskTypesOK, Ownership
<1>4. pending[i][2] \in T
  BY <1>2, <1>3, RequestShape DEF IdOf, AcceptedIds
<1>5. Min(T) \in T
  <2>1. T \subseteq Nat
    BY <1>1, ConstantsAssumption
  <2> HIDE DEF T
  <2> QED
    BY <1>4, <2>1, MinIn
<1>6. AcceptedIds(writing) \subseteq DOMAIN pending /\ DOMAIN pending \subseteq Id
  BY DEF AcceptedIds, HeldInv, IpcInv, TypeOK, TaskTypesOK
<1> QED
  BY <1>1, <1>5, <1>6 DEF FirstId

(* A step of the task keeps the types. *)
LEMMA TypeTaskStep ==
    ASSUME HeldInv, TaskStep
    PROVE  TypeOK'
<1> USE Unchanged DEF TypeOK
<1>0. CallTypesOK /\ TaskTypesOK /\ PeerTypesOK /\ SubTypesOK
  BY DEF HeldInv, IpcInv
<1>1. ASSUME NEW c \in Call, Take(c) PROVE TypeOK'
  <2>1. /\ queue' \in Seq(TransportMessage)
        /\ Len(ids[c]) = Size[c]
    <3>1. queue # <<>> /\ queue' = Tail(queue) /\ Head(queue) = RequestMsg(c)
      BY <1>1 DEF Take
    <3>2. queue[1] = RequestMsg(c) /\ 1 \in 1 .. Len(queue)
      BY <1>0, <3>1 DEF TaskTypesOK
    <3> QED
      BY <1>0, <3>1, <3>2, TailType DEF TaskTypesOK, HeldInv, IpcInv, Issued, QueuedCalls
  <2>2. /\ \A j \in Fresh(c) : ids[c][j] \in Id
        /\ DOMAIN pending' = DOMAIN pending \cup {ids[c][j] : j \in Fresh(c)}
        /\ \A i \in DOMAIN pending : pending'[i] = pending[i]
        /\ \A j \in Fresh(c) : pending'[ids[c][j]] = <<c, j>>
    BY <1>0, <1>1, <2>1, TakePending
  <2>3. \A j \in Fresh(c) : <<c, j>> \in Request
    BY <1>0, FreshRequests, RequestShape
  <2>4. DOMAIN pending' \subseteq Id /\ pending' \in [DOMAIN pending' -> Request]
    <3>1. ASSUME NEW i \in DOMAIN pending' PROVE i \in Id /\ pending'[i] \in Request
      <4>1. CASE i \in DOMAIN pending
        BY <1>0, <2>2, <4>1 DEF TaskTypesOK
      <4>2. CASE \E j \in Fresh(c) : i = ids[c][j]
        BY <2>2, <2>3, <4>2
      <4> QED
        BY <2>2, <3>1, <4>1, <4>2
    <3>2. pending' = [i \in DOMAIN pending' |-> pending'[i]]
      BY <1>1 DEF Take
    <3> QED
      BY <3>1, <3>2
  <2>5. TaskTypesOK'
    BY <1>0, <1>1, <2>1, <2>4 DEF TaskTypesOK, Take
  <2>6. CallTypesOK'
    BY <1>0, <1>1, SettledType DEF CallTypesOK, Take, Status
  <2> QED
    BY <1>0, <1>1, <2>5, <2>6 DEF Take
<1>2. ASSUME NEW h \in Stream, TakeSubscribe(h) PROVE TypeOK'
  <2>1. TaskTypesOK'
    BY <1>0, <1>2, TailType DEF TaskTypesOK, TakeSubscribe
  <2>2. SubTypesOK'
    BY <1>0, <1>2, RegisterType DEF TakeSubscribe
  <2> QED
    BY <1>0, <1>2, <2>1, <2>2 DEF TakeSubscribe
<1>3. ASSUME NEW s \in SubId, TakeUnsubscribe(s) PROVE TypeOK'
  <2>1. TaskTypesOK'
    BY <1>0, <1>3, TailType DEF TaskTypesOK, TakeUnsubscribe
  <2>2. SubTypesOK'
    BY <1>0, <1>3, UnregisterType DEF TakeUnsubscribe
  <2> QED
    BY <1>0, <1>3, <2>1, <2>2 DEF TakeUnsubscribe
<1>4. CASE TakeClosed
  <2>1. TaskTypesOK'
    BY <1>0, <1>4 DEF TaskTypesOK, TakeClosed
  <2> QED
    BY <1>0, <1>4, <2>1 DEF TakeClosed
<1>5. CASE Leave
  <2>1. TaskTypesOK'
    BY <1>0, <1>5, LeaveLoopType DEF TaskTypesOK, Leave
  <2> QED
    BY <1>0, <1>5, <2>1 DEF Leave
<1>6. CASE WriteAll
  <2>1. batches' \in [DOMAIN batches' -> SUBSET Id] /\ DOMAIN batches' \subseteq Id
    BY <1>0, <1>6, FirstIdType DEF TaskTypesOK, WriteAll
  <2>2. TaskTypesOK'
    BY <1>0, <1>6, <2>1 DEF TaskTypesOK, WriteAll
  <2>3. sent' \subseteq Request /\ owed' \subseteq Call
    BY <1>0, <1>6, FirstIdType DEF TaskTypesOK, PeerTypesOK, WriteAll
  <2>4. PeerTypesOK'
    BY <1>0, <1>6, <2>3 DEF PeerTypesOK, WriteAll
  <2> QED
    BY <1>0, <1>6, <2>2, <2>4 DEF WriteAll
<1>7. CASE WriteFails \/ ReadFails
  <2>1. CallTypesOK' /\ TaskTypesOK'
    BY <1>0, <1>7, FailPendingType DEF WriteFails, ReadFails, TaskTypesOK
  <2> QED
    BY <1>0, <1>7, <2>1 DEF WriteFails, ReadFails
<1>8. ASSUME NEW n \in 1 .. 2 * WireCap, Read(n) PROVE TypeOK'
  <2>1. WireCap \in Nat
    BY ConstantsAssumption
  <2>2. buffered' \in Nat
    BY <1>0, <1>8, <2>1 DEF TaskTypesOK, Read
  <2>3. TaskTypesOK'
    BY <1>0, <1>8, <2>2 DEF TaskTypesOK, Read
  <2> QED
    BY <1>0, <1>8, <2>3 DEF Read
<1>9. CASE Respond
  <2>1. /\ wire' \in Seq(WireMessage) /\ buffered' \in Nat /\ Head(wire).outputs \in Seq(Output)
    BY <1>9, DecodesType DEF Respond, Decodes
  <2>2. answer' \in [Request -> Request \cup {NoRequest}]
    BY <1>9, <2>1, AnswerType DEF Respond
  <2>3. CallTypesOK'
    BY <1>0, <1>9, <2>2, SettledType DEF CallTypesOK, Respond, Status
  <2>4. TaskTypesOK'
    BY <1>0, <1>9, <2>1 DEF TaskTypesOK, Respond, Restrict
  <2>5. PeerTypesOK'
    BY <1>0, <1>9, <2>1 DEF PeerTypesOK, Respond
  <2> QED
    BY <1>0, <1>9, <2>3, <2>4, <2>5 DEF Respond
<1>10. CASE RespondPartly
  <2>1. /\ wire' \in Seq(WireMessage) /\ buffered' \in Nat /\ Head(wire).outputs \in Seq(Output)
    BY <1>10, DecodesType DEF RespondPartly, Decodes
  <2>2. answer' \in [Request -> Request \cup {NoRequest}]
    BY <1>10, <2>1, AnswerType DEF RespondPartly
  <2>3. status' \in [Request -> Status]
    BY <1>0, <1>10 DEF CallTypesOK, RespondPartly, Status, Settled
  <2>4. CallTypesOK'
    BY <1>0, <1>10, <2>2, <2>3 DEF CallTypesOK, RespondPartly
  <2>5. TaskTypesOK'
    BY <1>0, <1>10, <2>1, LeaveLoopType DEF TaskTypesOK, RespondPartly
  <2>6. PeerTypesOK'
    BY <1>0, <1>10, <2>1 DEF PeerTypesOK, RespondPartly
  <2> QED
    BY <1>0, <1>10, <2>4, <2>5, <2>6 DEF RespondPartly
<1>11. CASE Reject
  <2>1. wire' \in Seq(WireMessage) /\ buffered' \in Nat
    BY <1>11, DecodesType DEF Reject
  <2>2. CallTypesOK' /\ TaskTypesOK'
    BY <1>0, <1>11, <2>1, FailPendingType DEF Reject
  <2>3. PeerTypesOK'
    BY <1>0, <1>11, <2>1 DEF PeerTypesOK, Reject
  <2> QED
    BY <1>0, <1>11, <2>2, <2>3 DEF Reject
<1>12. CASE Notify
  <2>1. /\ wire' \in Seq(WireMessage) /\ buffered' \in Nat
        /\ Head(wire).id \in SubId /\ Head(wire).number \in Nat
    BY <1>12, DecodesType DEF Notify, Decodes
  <2>2. SubTypesOK'
    BY <1>0, <1>12, <2>1, OfferType DEF Notify
  <2>3. TaskTypesOK' /\ PeerTypesOK'
    BY <1>0, <1>12, <2>1 DEF TaskTypesOK, PeerTypesOK, Notify
  <2> QED
    BY <1>0, <1>12, <2>2, <2>3 DEF Notify
<1>13. CASE Ignore
  <2>1. wire' \in Seq(WireMessage) /\ buffered' \in Nat
    BY <1>13, DecodesType DEF Ignore
  <2>2. TaskTypesOK' /\ PeerTypesOK'
    BY <1>0, <1>13, <2>1 DEF TaskTypesOK, PeerTypesOK, Ignore
  <2> QED
    BY <1>0, <1>13, <2>2 DEF Ignore
<1>14. CASE Finish
  <2>1. CallTypesOK'
    BY <1>0, <1>14, SettledType DEF CallTypesOK, Finish, Status
  <2>2. TaskTypesOK' /\ SubTypesOK'
    BY <1>0, <1>14 DEF TaskTypesOK, SubTypesOK, Finish, CloseAll
  <2> QED
    BY <1>0, <1>14, <2>1, <2>2 DEF Finish
<1> QED
  BY <1>1, <1>2, <1>3, <1>4, <1>5, <1>6, <1>7, <1>8, <1>9, <1>10, <1>11, <1>12, <1>13, <1>14
  DEF TaskStep

-----------------------------------------------------------------------------
(* Who holds the sender of a request. *)

OwnerInv == Issued /\ Ownership /\ Writing

LEMMA AppendQueued ==
    ASSUME HeldInv, NEW m \in TransportMessage, queue' = Append(queue, m),
           \A c \in QueuedCalls : m # RequestMsg(c)
    PROVE  /\ QueuedCalls' = QueuedCalls \cup {c \in Call : m = RequestMsg(c)}
           /\ \A c \in Call : \A i, j \in 1 .. Len(queue') :
                queue'[i] = RequestMsg(c) /\ queue'[j] = RequestMsg(c) => i = j
<1>1. /\ Len(queue') = Len(queue) + 1 /\ Len(queue) \in Nat
      /\ \A n \in 1 .. Len(queue) : queue'[n] = queue[n]
      /\ queue'[Len(queue) + 1] = m
  BY DEF HeldInv, IpcInv, TypeOK, TaskTypesOK
<1>2. \A c \in Call : m = RequestMsg(c) => \A n \in 1 .. Len(queue) : queue[n] # RequestMsg(c)
  BY DEF QueuedCalls
<1>3. \A c \in Call : \A i, j \in 1 .. Len(queue) :
        queue[i] = RequestMsg(c) /\ queue[j] = RequestMsg(c) => i = j
  BY DEF HeldInv, IpcInv, Ownership
<1>4. QueuedCalls' = QueuedCalls \cup {c \in Call : m = RequestMsg(c)}
  BY <1>1 DEF QueuedCalls
<1>5. ASSUME NEW c \in Call, NEW i \in 1 .. Len(queue'), NEW j \in 1 .. Len(queue'),
             queue'[i] = RequestMsg(c), queue'[j] = RequestMsg(c)
      PROVE  i = j
  <2>1. CASE m = RequestMsg(c)
    BY <1>1, <1>2, <1>5, <2>1
  <2>2. CASE m # RequestMsg(c)
    <3>1. i \in 1 .. Len(queue) /\ j \in 1 .. Len(queue)
      BY <1>1, <1>5, <2>2
    <3> QED
      BY <1>1, <1>3, <1>5, <3>1
  <2> QED
    BY <2>1, <2>2
<1> QED
  BY <1>4, <1>5

LEMMA TailQueued ==
    ASSUME HeldInv, queue # <<>>, queue' = Tail(queue)
    PROVE  /\ QueuedCalls' = QueuedCalls \ {c \in Call : Head(queue) = RequestMsg(c)}
           /\ \A c \in Call : Head(queue) = RequestMsg(c) => c \in QueuedCalls
           /\ \A c \in Call : \A i, j \in 1 .. Len(queue') :
                queue'[i] = RequestMsg(c) /\ queue'[j] = RequestMsg(c) => i = j
<1>1. /\ Len(queue) \in Nat \ {0} /\ Len(queue') = Len(queue) - 1
      /\ \A i \in 1 .. Len(queue') : queue'[i] = queue[i + 1]
      /\ Head(queue) = queue[1]
  BY TailType DEF HeldInv, IpcInv, TypeOK, TaskTypesOK
<1>2. \A i \in 2 .. Len(queue) : i - 1 \in 1 .. Len(queue') /\ queue'[i - 1] = queue[i]
  BY <1>1
<1>3. \A c \in Call : \A i, j \in 1 .. Len(queue) :
        queue[i] = RequestMsg(c) /\ queue[j] = RequestMsg(c) => i = j
  BY DEF HeldInv, IpcInv, Ownership
<1>4. QueuedCalls' \subseteq QueuedCalls \ {c \in Call : Head(queue) = RequestMsg(c)}
  <2> SUFFICES ASSUME NEW c \in Call, NEW i \in 1 .. Len(queue'), queue'[i] = RequestMsg(c)
               PROVE  c \in QueuedCalls /\ Head(queue) # RequestMsg(c)
    BY DEF QueuedCalls
  <2>1. i + 1 \in 1 .. Len(queue) /\ 1 \in 1 .. Len(queue) /\ queue[i + 1] = RequestMsg(c)
    BY <1>1
  <2> QED
    BY <1>1, <1>3, <2>1 DEF QueuedCalls
<1>5. QueuedCalls \ {c \in Call : Head(queue) = RequestMsg(c)} \subseteq QueuedCalls'
  <2> SUFFICES ASSUME NEW c \in Call, NEW i \in 1 .. Len(queue), queue[i] = RequestMsg(c),
                      Head(queue) # RequestMsg(c)
               PROVE  c \in QueuedCalls'
    BY DEF QueuedCalls
  <2>1. i \in 2 .. Len(queue)
    BY <1>1
  <2> QED
    BY <1>2, <2>1 DEF QueuedCalls
<1>6. ASSUME NEW c \in Call, NEW i \in 1 .. Len(queue'), NEW j \in 1 .. Len(queue'),
             queue'[i] = RequestMsg(c), queue'[j] = RequestMsg(c)
      PROVE  i = j
  <2>1. /\ i + 1 \in 1 .. Len(queue) /\ j + 1 \in 1 .. Len(queue)
        /\ queue[i + 1] = RequestMsg(c) /\ queue[j + 1] = RequestMsg(c)
    BY <1>1, <1>6
  <2>2. i + 1 = j + 1
    BY <1>3, <2>1
  <2> QED
    BY <2>2
<1>7. \A c \in Call : Head(queue) = RequestMsg(c) => c \in QueuedCalls
  BY <1>1 DEF QueuedCalls
<1> QED
  BY <1>4, <1>5, <1>6, <1>7

(* Pending requests are known by their place. *)
LEMMA PendingFacts ==
    ASSUME HeldInv
    PROVE  /\ \A i \in DOMAIN pending : /\ pending[i] \in PendingRequests /\ pending[i] \in Request
                                        /\ IdOf(pending[i]) = i /\ i \in Id
           /\ \A r \in PendingRequests : /\ r \in Request /\ IdOf(r) \in DOMAIN pending
                                         /\ pending[IdOf(r)] = r
           /\ \A r \in PendingRequests \cup sent : r \in Request /\ r[1] \in issued /\ r[1] \notin QueuedCalls
           /\ \A r \in PendingRequests : status[r] \in {"waiting", "cancelled"}
           /\ status \in [Request -> Status]
BY DEF HeldInv, IpcInv, TypeOK, CallTypesOK, TaskTypesOK, PeerTypesOK, Issued, Ownership,
       PendingRequests, Range

(* Steps that change the queue at most by a message that is no request, and
   nothing else that matters here. *)
LEMMA OwnerFrame ==
    ASSUME HeldInv, UNCHANGED <<ids, issued, status, pending, writing, task, sent>>,
           owed' \subseteq owed, QueuedCalls' = QueuedCalls,
           \A c \in Call : \A i, j \in 1 .. Len(queue') :
              queue'[i] = RequestMsg(c) /\ queue'[j] = RequestMsg(c) => i = j,
           task = "done" => queue' = <<>>
    PROVE  OwnerInv'
<1>1. /\ PendingRequests' = PendingRequests
      /\ \A c : SentOf(c)' = SentOf(c) /\ AcceptedIds(c)' = AcceptedIds(c)
      /\ \A r : IdOf(r)' = IdOf(r)
  BY DEF PendingRequests, SentOf, AcceptedIds, IdOf
<1>2. Issued'
  BY <1>1 DEF HeldInv, IpcInv, Issued
<1>3. Ownership'
  BY <1>1 DEF HeldInv, IpcInv, Ownership
<1>4. Writing'
  BY <1>1 DEF HeldInv, Writing
<1> QED
  BY <1>2, <1>3, <1>4 DEF OwnerInv

LEMMA OwnerSame ==
    ASSUME HeldInv, UNCHANGED <<ids, issued, status, queue, pending, writing, task, sent>>, owed' \subseteq owed
    PROVE  OwnerInv'
<1>1. QueuedCalls' = QueuedCalls
  BY DEF QueuedCalls
<1> QED
  BY <1>1, OwnerFrame DEF HeldInv, IpcInv, Ownership

(* A message of a stream enters the queue. *)
LEMMA OwnerEnqueue ==
    ASSUME HeldInv, NEW m \in TransportMessage, \A c \in Call : m # RequestMsg(c), Enqueue(m),
           UNCHANGED <<ids, issued, status, pending, writing, task, sent, owed>>
    PROVE  OwnerInv'
<1>1. CASE Accepts
  <2>1. queue' = Append(queue, m) /\ task # "done"
    BY <1>1 DEF Enqueue, Accepts
  <2>2. \A c \in QueuedCalls : m # RequestMsg(c)
    BY DEF QueuedCalls
  <2>3. /\ QueuedCalls' = QueuedCalls
        /\ \A c \in Call : \A i, j \in 1 .. Len(queue') :
             queue'[i] = RequestMsg(c) /\ queue'[j] = RequestMsg(c) => i = j
    BY <2>1, <2>2, AppendQueued
  <2> QED
    BY <2>1, <2>3, OwnerFrame
<1>2. CASE ~Accepts
  BY <1>2, OwnerSame DEF Enqueue
<1> QED
  BY <1>1, <1>2

(* The task ends its loop. *)
LEMMA OwnerLeave ==
    ASSUME HeldInv, LeaveLoop, task = "running", UNCHANGED <<ids, issued, queue, sent, owed>>,
           \A r \in Request : \/ status'[r] = status[r]
                              \/ status[r] = "waiting" /\ status'[r] \in {"failed", "answered"},
           \A r \in PendingRequests : status'[r] # "waiting",
           \A r \in Request : r[1] \in QueuedCalls => status'[r] = status[r]
    PROVE  OwnerInv'
<1>1. /\ PendingRequests' = {} /\ DOMAIN pending' = {} /\ QueuedCalls' = QueuedCalls
      /\ writing' = NoCall /\ task' = "broken"
      /\ \A c : SentOf(c)' = SentOf(c)
  BY DEF LeaveLoop, PendingRequests, QueuedCalls, SentOf, Range
<1>2. Issued'
  BY <1>1, PendingFacts DEF HeldInv, IpcInv, Issued
<1>3. Ownership'
  BY <1>1 DEF HeldInv, IpcInv, Ownership
<1>4. Writing'
  BY <1>1 DEF HeldInv, Writing
<1> QED
  BY <1>2, <1>3, <1>4 DEF OwnerInv

LEMMA OwnerFailPending ==
    ASSUME HeldInv, FailPending, task = "running", UNCHANGED <<ids, issued, queue, sent, owed>>
    PROVE  OwnerInv'
<1>1. /\ LeaveLoop
      /\ \A r \in Request : status'[r] = IF r \in PendingRequests /\ status[r] = "waiting"
                                           THEN "failed" ELSE status[r]
  BY DEF FailPending, Settled
<1> QED
  BY <1>1, OwnerLeave, PendingFacts

LEMMA OwnerPrepare ==
    ASSUME HeldInv, NEW c \in Call, Prepare(c)
    PROVE  OwnerInv'
<1>1. /\ UNCHANGED <<issued, status, pending, queue, writing, task, sent, owed>>
      /\ c \notin issued
      /\ PendingRequests' = PendingRequests /\ QueuedCalls' = QueuedCalls
      /\ \A d : SentOf(d)' = SentOf(d) /\ AcceptedIds(d)' = AcceptedIds(d)
  BY DEF Prepare, taskVars, peerVars, PendingRequests, QueuedCalls, SentOf, AcceptedIds
<1>2. \A d \in Call : d # c => ids'[d] = ids[d]
  BY DEF Prepare, HeldInv, IpcInv, TypeOK, CallTypesOK
<1>3. \A r \in PendingRequests : ids'[r[1]] = ids[r[1]]
  BY <1>1, <1>2, PendingFacts, RequestShape
<1>4. Issued'
  BY <1>1, <1>2 DEF HeldInv, IpcInv, Issued, TypeOK, CallTypesOK
<1>5. (\A i \in DOMAIN pending : IdOf(pending[i]) = i)'
  BY <1>1, <1>3, PendingFacts DEF IdOf
<1>6. Ownership'
  BY <1>1, <1>5 DEF HeldInv, IpcInv, Ownership
<1>7. Writing'
  BY <1>1 DEF HeldInv, Writing
<1> QED
  BY <1>4, <1>6, <1>7 DEF OwnerInv

LEMMA OwnerSend ==
    ASSUME HeldInv, NEW c \in Call, Send(c)
    PROVE  OwnerInv'
<1>1. /\ UNCHANGED <<ids, pending, writing, task, sent, owed>>
      /\ issued' = issued \cup {c} /\ c \notin issued /\ Len(ids[c]) = Size[c]
      /\ PendingRequests' = PendingRequests
      /\ \A d : SentOf(d)' = SentOf(d) /\ AcceptedIds(d)' = AcceptedIds(d)
      /\ \A r : IdOf(r)' = IdOf(r)
  BY DEF Send, peerVars, PendingRequests, SentOf, AcceptedIds, IdOf
<1>2. c \notin QueuedCalls /\ \A r \in PendingRequests \cup sent : r[1] # c
  BY <1>1, PendingFacts DEF HeldInv, IpcInv, Issued
<1>3. Writing'
  BY <1>1 DEF HeldInv, Writing
<1>4. CASE Accepts
  <2>1. /\ queue' = Append(queue, RequestMsg(c)) /\ task # "done"
        /\ \A r \in Request : status'[r] = IF r[1] = c THEN "waiting" ELSE status[r]
    BY <1>4 DEF Send, Accepts
  <2>2. /\ QueuedCalls' = QueuedCalls \cup {c}
        /\ \A d \in Call : \A i, j \in 1 .. Len(queue') :
             queue'[i] = RequestMsg(d) /\ queue'[j] = RequestMsg(d) => i = j
    <3>1. \A d \in QueuedCalls : RequestMsg(c) # RequestMsg(d)
      BY <1>2, MessagesDiffer DEF QueuedCalls
    <3>2. {d \in Call : RequestMsg(c) = RequestMsg(d)} = {c}
      BY MessagesDiffer
    <3> QED
      BY <2>1, <3>1, <3>2, AppendQueued, MessageTypes
  <2>3. Issued'
    BY <1>1, <1>2, <2>1, <2>2, PendingFacts DEF HeldInv, IpcInv, Issued
  <2>4. Ownership'
    BY <1>1, <1>2, <2>1, <2>2 DEF HeldInv, IpcInv, Ownership
  <2> QED
    BY <1>3, <2>3, <2>4 DEF OwnerInv
<1>5. CASE ~Accepts
  <2>1. /\ queue' = queue /\ QueuedCalls' = QueuedCalls
        /\ \A r \in Request : status'[r] = IF r[1] = c THEN "unsent" ELSE status[r]
    BY <1>5 DEF Send, QueuedCalls
  <2>2. Issued'
    BY <1>1, <1>2, <2>1, PendingFacts DEF HeldInv, IpcInv, Issued
  <2>3. Ownership'
    BY <1>1, <1>2, <2>1 DEF HeldInv, IpcInv, Ownership
  <2> QED
    BY <1>3, <2>2, <2>3 DEF OwnerInv
<1> QED
  BY <1>4, <1>5

LEMMA OwnerCancel ==
    ASSUME HeldInv, NEW c \in Call, Cancel(c)
    PROVE  OwnerInv'
<1>1. /\ UNCHANGED <<ids, issued, queue, pending, writing, task, sent, owed>>
      /\ PendingRequests' = PendingRequests /\ QueuedCalls' = QueuedCalls
      /\ \A d : SentOf(d)' = SentOf(d) /\ AcceptedIds(d)' = AcceptedIds(d)
      /\ \A r : IdOf(r)' = IdOf(r)
  BY DEF Cancel, taskVars, peerVars, PendingRequests, QueuedCalls, SentOf, AcceptedIds, IdOf
<1>2. \A r \in Request : \/ status'[r] = status[r]
                         \/ status[r] = "waiting" /\ status'[r] = "cancelled"
  BY DEF Cancel, Settled
<1>3. Issued'
  BY <1>1, <1>2, PendingFacts DEF HeldInv, IpcInv, Issued
<1>4. Ownership'
  BY <1>1, <1>2 DEF HeldInv, IpcInv, Ownership
<1>5. Writing'
  BY <1>1 DEF HeldInv, Writing
<1> QED
  BY <1>3, <1>4, <1>5 DEF OwnerInv

LEMMA OwnerCallerStep ==
    ASSUME HeldInv, CallerStep
    PROVE  OwnerInv'
<1>1. ASSUME NEW h \in Stream, Subscribe(h) PROVE OwnerInv'
  BY <1>1, OwnerEnqueue, MessageTypes, MessagesDiffer DEF Subscribe, callVars, peerVars
<1>2. ASSUME NEW h \in Stream, Poll(h) PROVE OwnerInv'
  BY <1>2, OwnerSame DEF Poll, callVars, taskVars, peerVars
<1>3. ASSUME NEW h \in Stream, Drop(h) PROVE OwnerInv'
  <2>1. sub[h] \in SubId
    BY DEF HeldInv, IpcInv, TypeOK, SubTypesOK
  <2> QED
    BY <1>3, <2>1, OwnerEnqueue, MessageTypes, MessagesDiffer DEF Drop, callVars, peerVars
<1>4. CASE DropHandles
  BY <1>4, OwnerSame DEF DropHandles, taskVars, peerVars
<1> QED
  BY <1>1, <1>2, <1>3, <1>4, OwnerPrepare, OwnerSend, OwnerCancel DEF CallerStep

(* What Take does to the requests of the call it takes. *)
LEMMA TakeFacts ==
    ASSUME HeldInv, NEW c \in Call, Take(c)
    PROVE  /\ UNCHANGED <<ids, issued, batches, task, sent, owed>> /\ task = "running" /\ writing = NoCall
           /\ c \in QueuedCalls /\ QueuedCalls' = QueuedCalls \ {c}
           /\ \A r \in PendingRequests \cup sent : r[1] # c
           /\ DOMAIN pending \subseteq DOMAIN pending'
           /\ \A i \in DOMAIN pending : pending'[i] = pending[i]
           /\ PendingRequests' = PendingRequests \cup {<<c, j>> : j \in Fresh(c)}
           /\ \A i \in DOMAIN pending' \ DOMAIN pending : \E j \in Fresh(c) : i = ids[c][j] /\ pending'[i] = <<c, j>>
           /\ writing' = IF Fresh(c) = {} THEN NoCall ELSE c
           /\ \A r \in Request : status'[r] = IF r \in Refused(c) /\ status[r] = "waiting"
                                                THEN "unsent" ELSE status[r]
<1>1. /\ UNCHANGED <<ids, issued, batches, task, sent, owed>> /\ task = "running" /\ writing = NoCall
      /\ writing' = IF Fresh(c) = {} THEN NoCall ELSE c
      /\ queue # <<>> /\ queue' = Tail(queue) /\ Head(queue) = RequestMsg(c)
  BY DEF Take, Polls, peerVars
<1>2. c \in QueuedCalls /\ QueuedCalls' = QueuedCalls \ {c}
  <2>1. {d \in Call : Head(queue) = RequestMsg(d)} = {c}
    BY <1>1, MessagesDiffer
  <2> QED
    BY <1>1, <2>1, TailQueued
<1>3. \A r \in PendingRequests \cup sent : r[1] # c
  BY <1>2, PendingFacts
<1>4. /\ \A j \in Fresh(c) : ids[c][j] \in Id
      /\ DOMAIN pending' = DOMAIN pending \cup {ids[c][j] : j \in Fresh(c)}
      /\ \A i \in DOMAIN pending : pending'[i] = pending[i]
      /\ \A j \in Fresh(c) : pending'[ids[c][j]] = <<c, j>>
  <2>1. Len(ids[c]) = Size[c]
    BY <1>2 DEF HeldInv, IpcInv, Issued
  <2> QED
    BY <2>1, TakePending DEF HeldInv, IpcInv
<1>5. PendingRequests' = PendingRequests \cup {<<c, j>> : j \in Fresh(c)}
  <2>1. \A i \in DOMAIN pending' : pending'[i] \in PendingRequests \cup {<<c, j>> : j \in Fresh(c)}
    BY <1>4 DEF PendingRequests, Range
  <2>2. \A i \in DOMAIN pending : i \in DOMAIN pending' /\ pending'[i] = pending[i]
    BY <1>4
  <2>3. \A j \in Fresh(c) : ids[c][j] \in DOMAIN pending' /\ pending'[ids[c][j]] = <<c, j>>
    BY <1>4
  <2> QED
    BY <2>1, <2>2, <2>3 DEF PendingRequests, Range
<1>6. \A r \in Request : status'[r] = IF r \in Refused(c) /\ status[r] = "waiting"
                                        THEN "unsent" ELSE status[r]
  BY DEF Take, Settled
<1>7. \A i \in DOMAIN pending' \ DOMAIN pending : \E j \in Fresh(c) : i = ids[c][j] /\ pending'[i] = <<c, j>>
  BY <1>4
<1> QED
  BY <1>1, <1>2, <1>3, <1>4, <1>5, <1>6, <1>7

LEMMA OwnerTake ==
    ASSUME HeldInv, NEW c \in Call, Take(c)
    PROVE  OwnerInv'
<1>1. /\ UNCHANGED <<ids, issued, task, sent, owed>> /\ task = "running"
      /\ c \in QueuedCalls /\ QueuedCalls' = QueuedCalls \ {c}
      /\ \A r \in PendingRequests \cup sent : r[1] # c
      /\ \A i \in DOMAIN pending : i \in DOMAIN pending' /\ pending'[i] = pending[i]
      /\ PendingRequests' = PendingRequests \cup {<<c, j>> : j \in Fresh(c)}
      /\ \A i \in DOMAIN pending' \ DOMAIN pending : \E j \in Fresh(c) : i = ids[c][j] /\ pending'[i] = <<c, j>>
      /\ writing' = IF Fresh(c) = {} THEN NoCall ELSE c
  BY TakeFacts
<1>2. /\ \A r : IdOf(r)' = IdOf(r)
      /\ \A d : SentOf(d)' = SentOf(d)
  BY <1>1 DEF IdOf, SentOf
<1>3. \A r \in Request : status'[r] = IF r \in Refused(c) /\ status[r] = "waiting"
                                        THEN "unsent" ELSE status[r]
  BY TakeFacts
<1>4. \A r \in Refused(c) : r \in Request /\ r[1] = c /\ r[2] \notin Fresh(c)
  BY RequestShape DEF Refused
<1>5. ASSUME NEW r \in Request, r[1] = c
      PROVE  r \in Refused(c) \/ r \in {<<c, j>> : j \in Fresh(c)}
  BY <1>5, RequestShape DEF Refused
<1>6. \A j \in Fresh(c) : <<c, j>> \in Request /\ <<c, j>> \notin Refused(c)
  BY <1>4, FreshRequests, RequestShape DEF HeldInv, IpcInv
<1>7. Issued'
  <2>1. \A r \in Request : (status'[r] = "idle" <=> r[1] \notin issued')
    BY <1>1, <1>3 DEF HeldInv, IpcInv, Issued
  <2>2. ASSUME NEW r \in Request, r[1] \in QueuedCalls' \/ r \in PendingRequests'
        PROVE  status'[r] \in {"waiting", "cancelled"}
    <3>1. status[r] \in {"waiting", "cancelled"}
      BY <1>1, <2>2, PendingFacts DEF HeldInv, IpcInv, Issued
    <3>2. r \notin Refused(c)
      BY <1>1, <1>4, <1>6, <2>2
    <3> QED
      BY <1>3, <3>1, <3>2
  <2>3. \A r \in Request : r \in sent' => status'[r] \notin {"idle", "unsent"}
    BY <1>1, <1>3, <1>4 DEF HeldInv, IpcInv, Issued
  <2> QED
    BY <1>1, <2>1, <2>2, <2>3 DEF HeldInv, IpcInv, Issued
<1>8. Ownership'
  <2>1. \A r \in Request : status'[r] = "waiting" => r[1] \in QueuedCalls' \/ r \in PendingRequests'
    BY <1>1, <1>3, <1>5 DEF HeldInv, IpcInv, Ownership
  <2>2. \A r \in PendingRequests' \cup sent' : r[1] \notin QueuedCalls'
    BY <1>1, PendingFacts
  <2>3. ASSUME NEW i \in DOMAIN pending' PROVE (IdOf(pending[i]) = i)'
    <3>1. CASE i \in DOMAIN pending
      BY <1>1, <3>1, PendingFacts DEF IdOf
    <3>2. CASE i \notin DOMAIN pending
      <4>1. PICK j \in Fresh(c) : i = ids[c][j] /\ pending'[i] = <<c, j>>
        BY <1>1, <3>2
      <4> QED
        BY <1>1, <4>1 DEF IdOf
    <3> QED
      BY <3>1, <3>2
  <2>4. \A d \in Call : \A i, j \in 1 .. Len(queue') :
          queue'[i] = RequestMsg(d) /\ queue'[j] = RequestMsg(d) => i = j
    BY TailQueued DEF Take
  <2> QED
    BY <1>1, <2>1, <2>2, <2>3, <2>4 DEF Ownership
<1>9. Writing'
  <2>1. ASSUME writing' # NoCall PROVE (AcceptedIds(writing) # {})'
    <3>1. PICK j \in Fresh(c) : TRUE
      BY <1>1, <2>1
    <3>2. <<c, j>> \in PendingRequests'
      BY <1>1, <3>1
    <3>3. PICK i \in DOMAIN pending' : pending'[i] = <<c, j>>
      BY <3>2 DEF PendingRequests, Range
    <3> QED
      BY <1>1, <2>1, <3>3 DEF AcceptedIds
  <2> QED
    BY <1>1, <1>2, <2>1 DEF HeldInv, Writing
<1> QED
  BY <1>7, <1>8, <1>9 DEF OwnerInv

LEMMA OwnerWriteAll ==
    ASSUME HeldInv, WriteAll
    PROVE  OwnerInv'
<1>1. /\ UNCHANGED <<ids, issued, status, queue, pending, task>>
      /\ writing # NoCall /\ writing' = NoCall
      /\ sent' = sent \cup {pending[i] : i \in AcceptedIds(writing)}
      /\ owed' = owed \cup {writing}
      /\ PendingRequests' = PendingRequests /\ QueuedCalls' = QueuedCalls
      /\ \A r : IdOf(r)' = IdOf(r)
  BY DEF WriteAll, callVars, PendingRequests, QueuedCalls, IdOf
<1>2. sent' \subseteq sent \cup PendingRequests
  BY <1>1, PendingFacts DEF AcceptedIds
<1>3. Issued'
  BY <1>1, <1>2, PendingFacts DEF HeldInv, IpcInv, Issued
<1>4. Ownership'
  BY <1>1, <1>2, PendingFacts DEF HeldInv, IpcInv, Ownership
<1>5. Writing'
  <2>1. PICK i \in AcceptedIds(writing) : TRUE
    BY <1>1 DEF HeldInv, Writing
  <2>2. pending[i] \in sent' /\ pending[i][1] = writing
    BY <1>1, <2>1 DEF AcceptedIds
  <2>3. ASSUME NEW d \in owed' PROVE \E r \in sent' : r[1] = d
    BY <1>1, <2>2, <2>3 DEF HeldInv, Writing, SentOf
  <2>4. (\A d \in owed : SentOf(d) # {})'
    BY <2>3 DEF SentOf
  <2> QED
    BY <1>1, <2>4 DEF Writing
<1> QED
  BY <1>3, <1>4, <1>5 DEF OwnerInv

(* What respond does to the pending requests. *)
LEMMA RespondFacts ==
    ASSUME HeldInv, NEW outs
    PROVE  /\ Answered(outs) \subseteq PendingRequests
           /\ \A r \in PendingRequests : r \in Answered(outs) <=> IdOf(r) \in OutputIds(outs)
<1>1. Answered(outs) \subseteq PendingRequests
  BY PendingFacts DEF Answered
<1>2. ASSUME NEW r \in PendingRequests PROVE r \in Answered(outs) <=> IdOf(r) \in OutputIds(outs)
  BY PendingFacts DEF Answered
<1> QED
  BY <1>1, <1>2

LEMMA OwnerRespond ==
    ASSUME HeldInv, Respond
    PROVE  OwnerInv'
<1> DEFINE outs == Head(wire).outputs
<1>1. /\ UNCHANGED <<ids, issued, queue, writing, task, sent, owed>>
      /\ task = "running" /\ writing = NoCall
      /\ QueuedCalls' = QueuedCalls
      /\ \A d : SentOf(d)' = SentOf(d)
      /\ \A r : IdOf(r)' = IdOf(r)
  BY DEF Respond, Decodes, Decoding, QueuedCalls, SentOf, IdOf
<1>2. /\ DOMAIN pending' = DOMAIN pending \ OutputIds(outs)
      /\ \A i \in DOMAIN pending' : pending'[i] = pending[i]
  BY DEF Respond, Restrict
<1>3. PendingRequests' = PendingRequests \ Answered(outs)
  <2>1. \A i \in DOMAIN pending' : pending'[i] \in PendingRequests \ Answered(outs)
    BY <1>2, PendingFacts, RespondFacts
  <2>2. \A r \in PendingRequests \ Answered(outs) : IdOf(r) \in DOMAIN pending' /\ pending'[IdOf(r)] = r
    BY <1>2, PendingFacts, RespondFacts
  <2> QED
    BY <2>1, <2>2 DEF PendingRequests, Range
<1>4. \A r \in Request : status'[r] = IF r \in Answered(outs) /\ status[r] = "waiting"
                                        THEN "answered" ELSE status[r]
  BY DEF Respond, Settled
<1>5. Issued'
  BY <1>1, <1>3, <1>4, RespondFacts, PendingFacts DEF HeldInv, IpcInv, Issued
<1>6. Ownership'
  <2>1. (\A i \in DOMAIN pending : IdOf(pending[i]) = i)'
    BY <1>1, <1>2, PendingFacts DEF IdOf
  <2> QED
    BY <1>1, <1>2, <1>3, <1>4, <2>1, RespondFacts DEF HeldInv, IpcInv, Ownership
<1>7. Writing'
  BY <1>1 DEF HeldInv, Writing
<1> QED
  BY <1>5, <1>6, <1>7 DEF OwnerInv

LEMMA OwnerFinish ==
    ASSUME HeldInv, Finish
    PROVE  OwnerInv'
<1>1. /\ UNCHANGED <<ids, issued, pending, writing, sent, owed>> /\ queue' = <<>>
      /\ PendingRequests' = PendingRequests /\ task = "broken" /\ task' = "done"
      /\ \A d : SentOf(d)' = SentOf(d) /\ AcceptedIds(d)' = AcceptedIds(d)
      /\ \A r : IdOf(r)' = IdOf(r)
  BY DEF Finish, peerVars, PendingRequests, SentOf, AcceptedIds, IdOf
<1>2. QueuedCalls' = {}
  BY <1>1 DEF QueuedCalls
<1>3. \A r \in Request : status'[r] = IF r[1] \in QueuedCalls /\ status[r] = "waiting"
                                        THEN "failed" ELSE status[r]
  BY DEF Finish, Settled, RequestsOf
<1>4. Issued'
  BY <1>1, <1>2, <1>3, PendingFacts DEF HeldInv, IpcInv, Issued
<1>5. Ownership'
  BY <1>1, <1>2, <1>3 DEF HeldInv, IpcInv, Ownership
<1>6. Writing'
  BY <1>1 DEF HeldInv, Writing
<1> QED
  BY <1>4, <1>5, <1>6 DEF OwnerInv

(* A step of the task keeps every sender in one place. *)
LEMMA OwnerTaskStep ==
    ASSUME HeldInv, TaskStep
    PROVE  OwnerInv'
<1>1. ASSUME Polls, queue # <<>>, queue' = Tail(queue),
             \A c \in Call : Head(queue) # RequestMsg(c),
             UNCHANGED <<ids, issued, status, pending, writing, task, sent, owed>>
      PROVE  OwnerInv'
  <2>1. QueuedCalls' = QueuedCalls
    BY <1>1, TailQueued
  <2> QED
    BY <1>1, <2>1, TailQueued, OwnerFrame DEF Polls
<1>2. ASSUME NEW h \in Stream, TakeSubscribe(h) PROVE OwnerInv'
  BY <1>1, <1>2, MessagesDiffer DEF TakeSubscribe, callVars, peerVars
<1>3. ASSUME NEW s \in SubId, TakeUnsubscribe(s) PROVE OwnerInv'
  BY <1>1, <1>3, MessagesDiffer DEF TakeUnsubscribe, callVars, peerVars
<1>4. CASE TakeClosed
  BY <1>4, OwnerSame DEF TakeClosed, callVars, peerVars
<1>5. CASE Leave
  <2>1. PendingRequests = {}
    BY <1>5 DEF Leave, Finished, PendingRequests, Range
  <2> QED
    BY <1>5, <2>1, OwnerLeave DEF Leave, callVars, peerVars
<1>6. CASE WriteFails
  <2>1. task = "running"
    BY <1>6 DEF WriteFails, HeldInv, IpcInv, Ownership
  <2> QED
    BY <1>6, <2>1, OwnerFailPending DEF WriteFails, peerVars
<1>7. ASSUME NEW n \in 1 .. 2 * WireCap, Read(n) PROVE OwnerInv'
  BY <1>7, OwnerSame DEF Read, callVars, peerVars
<1>8. CASE ReadFails
  BY <1>8, OwnerFailPending DEF ReadFails, Polls, peerVars
<1>9. CASE RespondPartly
  <2> DEFINE outs == Head(wire).outputs
  <2>1. \A r \in Request : status'[r] = IF r \in PendingRequests \ Answered(outs)
                                          THEN IF status[r] = "waiting" THEN "failed" ELSE status[r]
                                          ELSE IF r \in Answered(outs) /\ status[r] = "waiting"
                                                 THEN "answered" ELSE status[r]
    BY <1>9 DEF RespondPartly, Settled
  <2>2. LeaveLoop /\ task = "running" /\ UNCHANGED <<ids, issued, queue, sent, owed>>
    BY <1>9 DEF RespondPartly, Decodes, Decoding
  <2> HIDE DEF outs
  <2> QED
    BY <2>1, <2>2, OwnerLeave, RespondFacts, PendingFacts
<1>10. CASE Reject
  BY <1>10, OwnerFailPending DEF Reject, Decodes, Decoding
<1>11. CASE Notify
  BY <1>11, OwnerSame DEF Notify, callVars
<1>12. CASE Ignore
  BY <1>12, OwnerSame DEF Ignore, callVars
<1> QED
  BY <1>2, <1>3, <1>4, <1>5, <1>6, <1>7, <1>8, <1>9, <1>10, <1>11, <1>12,
     OwnerTake, OwnerWriteAll, OwnerRespond, OwnerFinish
  DEF TaskStep

(* The outputs a peer can send, and a sequence of them. *)
LEMMA OutputType ==
    ASSUME HeldInv
    PROVE  \A r \in sent \cup {NoRequest} : OutputOf(r) \in Output
<1> SUFFICES ASSUME NEW r \in sent \cup {NoRequest} PROVE OutputOf(r) \in Output
  OBVIOUS
<1>1. CASE r = NoRequest
  BY <1>1 DEF OutputOf, Output
<1>2. CASE r # NoRequest
  <2>1. r \in Request /\ r[1] \in issued
    BY <1>2, PendingFacts
  <2>2. r[1] \in Call /\ r[2] \in 1 .. Len(ids[r[1]])
    BY <2>1, RequestShape DEF HeldInv, IpcInv, Issued
  <2>3. IdOf(r) \in Id
    BY <2>2 DEF IdOf, HeldInv, IpcInv, TypeOK, CallTypesOK
  <2> QED
    BY <1>2, <2>1, <2>3 DEF OutputOf, Output
<1> QED
  BY <1>1, <1>2

(* A call has finitely many requests. *)
LEMMA SentFinite ==
    ASSUME HeldInv, NEW c \in Call
    PROVE  Cardinality(SentOf(c)) \in Nat
<1> DEFINE f == [r \in SentOf(c) |-> r[2]]
<1>1. \A r \in SentOf(c) : r[2] \in 1 .. Size[c] /\ r = <<c, r[2]>>
  BY RequestShape, PendingFacts DEF SentOf
<1>2. f \in Injection(SentOf(c), 1 .. Size[c])
  <2>1. f \in [SentOf(c) -> 1 .. Size[c]]
    BY <1>1
  <2>2. IsInjective(f)
    BY <1>1 DEF IsInjective
  <2> QED
    BY <2>1, <2>2 DEF Injection
<1>3. IsFiniteSet(1 .. Size[c])
  BY FS_Interval, ConstantsAssumption
<1> QED
  BY <1>2, <1>3, FS_Injection, FS_CardinalityType

(* What the peer answers with: the outputs of the requests of a call that it
   owes, each once. *)
LEMMA PeerAnswersFacts ==
    ASSUME HeldInv, NEW c \in Call, PeerAnswers(c)
    PROVE  \E m : /\ PeerSends(m) /\ m.kind \in {"single", "batch"} /\ m \in WireMessage
                  /\ m.outputs \in Seq(Output)
                  /\ \A i \in DOMAIN m.outputs : \E r \in SentOf(c) : m.outputs[i] = OutputOf(r)
<1>1. c \in owed /\ SentOf(c) # {} /\ SentOf(c) \subseteq sent
  BY DEF PeerAnswers, HeldInv, Writing, SentOf
<1>2. CASE c \in BatchCall
  <2> DEFINE n == Cardinality(SentOf(c))
  <2>1. PICK p \in Bijection(1 .. n, SentOf(c)) :
          PeerSends(BatchMsg([i \in DOMAIN p |-> OutputOf(p[i])]))
    BY <1>2 DEF PeerAnswers
  <2>2. DOMAIN p = 1 .. n /\ \A i \in 1 .. n : p[i] \in SentOf(c)
    BY DEF Bijection, Injection
  <2> DEFINE outs == [i \in DOMAIN p |-> OutputOf(p[i])]
  <2>3. \A i \in 1 .. n : OutputOf(p[i]) \in Output
    BY <1>1, <2>2, OutputType
  <2>4. outs \in Seq(Output)
    BY <2>2, <2>3, SentFinite
  <2>5. \A i \in DOMAIN outs : outs[i] = OutputOf(p[i]) /\ p[i] \in SentOf(c)
    BY <2>2
  <2> HIDE DEF outs
  <2>6. /\ BatchMsg(outs).kind = "batch" /\ BatchMsg(outs).outputs = outs
        /\ BatchMsg(outs) \in WireMessage
    BY <2>4 DEF BatchMsg, WireMessage
  <2>7. PeerSends(BatchMsg(outs))
    BY <2>1 DEF outs
  <2> WITNESS BatchMsg(outs)
  <2> QED
    BY <2>4, <2>5, <2>6, <2>7
<1>3. CASE c \notin BatchCall
  <2>1. <<c, 1>> \in SentOf(c)
    <3>1. PICK r \in SentOf(c) : TRUE
      BY <1>1
    <3>2. r = <<c, r[2]>> /\ r[2] \in 1 .. Size[c]
      BY RequestShape, PendingFacts DEF SentOf
    <3>3. r[2] = 1
      BY <1>3, <3>2, ConstantsAssumption
    <3> QED
      BY <3>2, <3>3
  <2> DEFINE out == OutputOf(<<c, 1>>)
  <2>2. out \in Output
    BY <1>1, <2>1, OutputType
  <2>3. PeerSends(SingleMsg(out))
    BY <1>3 DEF PeerAnswers
  <2>4. \E r \in SentOf(c) : out = OutputOf(r)
    BY <2>1
  <2> HIDE DEF out
  <2>5. /\ SingleMsg(out).kind = "single" /\ SingleMsg(out).outputs = <<out>>
        /\ <<out>> \in Seq(Output) /\ DOMAIN <<out>> = {1} /\ <<out>>[1] = out
    BY <2>2 DEF SingleMsg
  <2>6. SingleMsg(out) \in WireMessage
    BY <2>2 DEF SingleMsg, WireMessage
  <2> WITNESS SingleMsg(out)
  <2> QED
    BY <2>3, <2>4, <2>5, <2>6
<1> QED
  BY <1>2, <1>3

(* What the peer makes up. *)
LEMMA PeerMisanswersFacts ==
    ASSUME HeldInv, PeerMisanswers
    PROVE  \E m : /\ PeerSends(m) /\ m.kind \in {"single", "batch"} /\ m \in WireMessage
                  /\ m.outputs \in Seq(Output)
                  /\ \A i \in DOMAIN m.outputs :
                        \E r \in sent \cup {NoRequest} : m.outputs[i] = OutputOf(r)
<1>1. CASE \E r \in sent \cup {NoRequest} : PeerSends(SingleMsg(OutputOf(r)))
  <2>1. PICK r \in sent \cup {NoRequest} : PeerSends(SingleMsg(OutputOf(r)))
    BY <1>1
  <2> DEFINE out == OutputOf(r)
  <2>2. out \in Output /\ PeerSends(SingleMsg(out))
    BY <2>1, OutputType
  <2>3. \E q \in sent \cup {NoRequest} : out = OutputOf(q)
    OBVIOUS
  <2> HIDE DEF out
  <2>4. /\ SingleMsg(out).kind = "single" /\ SingleMsg(out).outputs = <<out>>
        /\ <<out>> \in Seq(Output) /\ DOMAIN <<out>> = {1} /\ <<out>>[1] = out
    BY <2>2 DEF SingleMsg
  <2>5. SingleMsg(out) \in WireMessage
    BY <2>2 DEF SingleMsg, WireMessage
  <2> WITNESS SingleMsg(out)
  <2> QED
    BY <2>2, <2>3, <2>4, <2>5
<1>2. CASE \E n \in 0 .. 2 : \E r \in [1 .. n -> sent \cup {NoRequest}] :
             PeerSends(BatchMsg([i \in 1 .. n |-> OutputOf(r[i])]))
  <2>1. PICK n \in 0 .. 2 : \E r \in [1 .. n -> sent \cup {NoRequest}] :
             PeerSends(BatchMsg([i \in 1 .. n |-> OutputOf(r[i])]))
    BY <1>2
  <2>2. PICK r \in [1 .. n -> sent \cup {NoRequest}] :
             PeerSends(BatchMsg([i \in 1 .. n |-> OutputOf(r[i])]))
    BY <2>1
  <2> DEFINE outs == [i \in 1 .. n |-> OutputOf(r[i])]
  <2>3. \A i \in 1 .. n : OutputOf(r[i]) \in Output
    BY OutputType
  <2>4. outs \in Seq(Output)
    BY <2>3
  <2>5. \A i \in DOMAIN outs : outs[i] = OutputOf(r[i]) /\ r[i] \in sent \cup {NoRequest}
    OBVIOUS
  <2>6. PeerSends(BatchMsg(outs))
    BY <2>2
  <2> HIDE DEF outs
  <2>7. /\ BatchMsg(outs).kind = "batch" /\ BatchMsg(outs).outputs = outs
        /\ BatchMsg(outs) \in WireMessage
    BY <2>4 DEF BatchMsg, WireMessage
  <2> WITNESS BatchMsg(outs)
  <2> QED
    BY <2>4, <2>5, <2>6, <2>7
<1> QED
  BY <1>1, <1>2 DEF PeerMisanswers

(* A message of the peer enters the wire. *)
LEMMA PeerAppends ==
    ASSUME HeldInv, NEW m \in WireMessage, PeerSends(m)
    PROVE  /\ wire' \in Seq(WireMessage) /\ wire' = Append(wire, m)
           /\ Len(wire) \in Nat /\ Len(wire') = Len(wire) + 1 /\ wire'[Len(wire) + 1] = m
           /\ \A n \in 1 .. Len(wire) : wire'[n] = wire[n]
BY DEF PeerSends, HeldInv, IpcInv, TypeOK, PeerTypesOK

(* A step of the peer keeps types and senders. *)
LEMMA HeldPeerStep ==
    ASSUME HeldInv, PeerStep
    PROVE  TypeOK' /\ OwnerInv'
<1>0. CallTypesOK /\ TaskTypesOK /\ PeerTypesOK /\ SubTypesOK
  BY DEF HeldInv, IpcInv, TypeOK
<1>1. ASSUME UNCHANGED <<callVars, taskVars, link, sent>>, SubTypesOK', owed' \subseteq owed,
             NEW m \in WireMessage, PeerSends(m)
      PROVE  TypeOK' /\ OwnerInv'
  <2>1. PeerTypesOK'
    BY <1>0, <1>1, PeerAppends DEF PeerTypesOK
  <2>2. TypeOK'
    BY <1>0, <1>1, <2>1, Unchanged DEF TypeOK
  <2>3. OwnerInv'
    BY <1>1, OwnerSame DEF callVars, taskVars
  <2> QED
    BY <2>2, <2>3
<1>2. ASSUME UNCHANGED subVars PROVE SubTypesOK'
  BY <1>0, <1>2, Unchanged
<1>3. ASSUME NEW c \in Call, PeerAnswers(c) PROVE TypeOK' /\ OwnerInv'
  <2>1. PICK m \in WireMessage : PeerSends(m)
    BY <1>3, PeerAnswersFacts
  <2> QED
    BY <1>1, <1>2, <1>3, <2>1 DEF PeerAnswers
<1>4. ASSUME NEW s \in SubId, PeerNotifies(s) PROVE TypeOK' /\ OwnerInv'
  <2>1. emitted[s] + 1 \in Nat
    BY <1>0 DEF SubTypesOK
  <2>2. NotificationMsg(s, emitted[s] + 1) \in WireMessage
    BY <2>1 DEF NotificationMsg, WireMessage
  <2>3. SubTypesOK'
    BY <1>0, <1>4, EmitType DEF PeerNotifies
  <2> QED
    BY <1>1, <1>4, <2>2, <2>3 DEF PeerNotifies
<1>5. CASE PeerMisanswers
  <2>1. PICK m \in WireMessage : PeerSends(m)
    BY <1>5, PeerMisanswersFacts
  <2> QED
    BY <1>1, <1>2, <1>5, <2>1 DEF PeerMisanswers
<1>6. CASE PeerSendsOdd
  <2>1. PICK kind \in PeerFaults \cap {"malformed", "ignored"} : PeerSends(OddMsg(kind))
    BY <1>6 DEF PeerSendsOdd
  <2>2. OddMsg(kind) \in WireMessage
    BY DEF OddMsg, WireMessage
  <2> QED
    BY <1>1, <1>2, <1>6, <2>1, <2>2 DEF PeerSendsOdd
<1>7. CASE PeerEnds \/ PeerOverflows \/ Break
  <2>1. UNCHANGED <<callVars, taskVars, sent, owed, wire, subVars>> /\ link' \in {"ended", "cut", "large", "broken"}
    BY <1>7 DEF PeerEnds, PeerOverflows, Break
  <2>2. PeerTypesOK'
    BY <1>0, <2>1 DEF PeerTypesOK
  <2>3. TypeOK'
    BY <1>0, <2>1, <2>2, Unchanged DEF TypeOK
  <2> QED
    BY <2>1, <2>3, OwnerSame DEF callVars, taskVars
<1> QED
  BY <1>3, <1>4, <1>5, <1>6, <1>7 DEF PeerStep

(* The buffer never holds more than the peer sent. *)
LEMMA BufferingStep ==
    ASSUME HeldInv, [Next]_vars
    PROVE  Buffering'
<1>0. buffered \in Nat /\ Len(wire) \in Nat /\ buffered <= 2 * Len(wire)
  BY DEF HeldInv, IpcInv, TypeOK, TaskTypesOK, PeerTypesOK, Buffering
<1>1. CASE UNCHANGED <<buffered, wire>>
  BY <1>0, <1>1 DEF Buffering
<1>2. ASSUME NEW m \in WireMessage, PeerSends(m), buffered' = buffered PROVE Buffering'
  BY <1>0, <1>2, PeerAppends DEF Buffering
<1>3. ASSUME NEW K, Decodes(K) PROVE Buffering'
  BY <1>3, DecodesType
<1>4. ASSUME NEW n \in 1 .. 2 * WireCap, Read(n) PROVE Buffering'
  <2>1. n \in Nat
    BY ConstantsAssumption
  <2>2. buffered' = buffered + n /\ wire' = wire /\ n <= 2 * Len(wire) - buffered
    BY <1>0, <1>4, <2>1 DEF Read, Unread, peerVars
  <2> QED
    BY <1>0, <2>1, <2>2 DEF Buffering
<1>5. ASSUME CallerStep PROVE UNCHANGED <<buffered, wire>>
  BY <1>5 DEF CallerStep, Prepare, Send, Cancel, Subscribe, Poll, Drop, DropHandles, taskVars, peerVars
<1>6. ASSUME TaskStep PROVE Buffering'
  <2>1. ASSUME NEW c \in Call, Take(c) PROVE UNCHANGED <<buffered, wire>>
    BY <2>1 DEF Take, peerVars
  <2>2. ASSUME NEW h \in Stream, TakeSubscribe(h) PROVE UNCHANGED <<buffered, wire>>
    BY <2>2 DEF TakeSubscribe, peerVars
  <2>3. ASSUME NEW s \in SubId, TakeUnsubscribe(s) PROVE UNCHANGED <<buffered, wire>>
    BY <2>3 DEF TakeUnsubscribe, peerVars
  <2>4. CASE TakeClosed \/ Leave \/ WriteAll \/ WriteFails \/ ReadFails \/ Finish
    BY <1>1, <2>4 DEF TakeClosed, Leave, WriteAll, WriteFails, ReadFails, Finish, peerVars
  <2>5. CASE Respond \/ RespondPartly \/ Reject \/ Notify \/ Ignore
    BY <1>3, <2>5 DEF Respond, RespondPartly, Reject, Notify, Ignore
  <2> QED
    BY <1>1, <1>4, <1>6, <2>1, <2>2, <2>3, <2>4, <2>5 DEF TaskStep
<1>7. ASSUME PeerStep PROVE Buffering'
  <2>1. buffered' = buffered
    BY <1>7 DEF PeerStep, PeerAnswers, PeerNotifies, PeerMisanswers, PeerSendsOdd, PeerEnds, PeerOverflows, Break, taskVars
  <2>2. TypeOK'
    BY <1>7, HeldPeerStep
  <2>3. wire' = wire \/ \E m : wire' = Append(wire, m)
    BY <1>7, PeerAnswersFacts, PeerMisanswersFacts
    DEF PeerStep, PeerAnswers, PeerNotifies, PeerMisanswers, PeerSendsOdd, PeerEnds, PeerOverflows, Break, PeerSends
  <2>4. ASSUME NEW m, wire' = Append(wire, m) PROVE Len(wire') = Len(wire) + 1
    BY <2>4 DEF HeldInv, IpcInv, TypeOK, PeerTypesOK
  <2> QED
    BY <1>0, <1>1, <2>1, <2>3, <2>4 DEF Buffering
<1> QED
  BY <1>1, <1>5, <1>6, <1>7 DEF Next, vars, taskVars, peerVars

LEMMA HeldInvNext ==
    ASSUME HeldInv, [Next]_vars
    PROVE  HeldInv'
<1>1. TypeOK' /\ OwnerInv'
  <2>1. CASE UNCHANGED vars
    <3>1. TypeOK'
      BY <2>1, Unchanged DEF vars, HeldInv, IpcInv, TypeOK
    <3> QED
      BY <2>1, <3>1, OwnerSame DEF vars, callVars, taskVars, peerVars
  <2> QED
    BY <2>1, TypeCallerStep, TypeTaskStep, HeldPeerStep, OwnerCallerStep, OwnerTaskStep
    DEF Next, HeldInv, IpcInv
<1> QED
  BY <1>1, BufferingStep DEF HeldInv, IpcInv, OwnerInv

LEMMA HeldInvHolds == Spec => []HeldInv
<1>1. HeldInv /\ [Next]_vars => HeldInv'
  BY HeldInvNext
<1> QED
  BY <1>1, HeldInit, PTL DEF Spec

(* Types, and one place for every sender, on every execution. *)
THEOREM InvHolds == Spec => []IpcInv
<1>1. HeldInv => IpcInv
  BY DEF HeldInv
<1> QED
  BY <1>1, HeldInvHolds, PTL

(* The types of the variables. *)
THEOREM TypeCorrect == Spec => []TypeOK
<1>1. IpcInv => TypeOK
  BY DEF IpcInv
<1> QED
  BY <1>1, InvHolds, PTL

(* The sender of a request whose caller waits is in the queue or in the
   pending map of a task that has not ended, and in one of them only. *)
THEOREM CallersAreHeld == Spec => []CallerHeld
<1>1. HeldInv => CallerHeld
  <2> SUFFICES ASSUME HeldInv, NEW r \in Request, status[r] = "waiting"
               PROVE  task # "done" /\ ~(r[1] \in QueuedCalls <=> r \in PendingRequests)
    BY DEF CallerHeld
  <2>1. r[1] \in QueuedCalls \/ r \in PendingRequests
    BY DEF HeldInv, IpcInv, Ownership
  <2>2. task = "done" => QueuedCalls = {} /\ PendingRequests = {}
    BY DEF HeldInv, IpcInv, Ownership, QueuedCalls, PendingRequests, Range
  <2> QED
    BY <2>1, <2>2, PendingFacts
<1> QED
  BY <1>1, HeldInvHolds, PTL

(* A request that is reported as not sent was never written. *)
THEOREM UnsentIsNeverSent == Spec => []UnsentNeverSent
<1>1. IpcInv => UnsentNeverSent
  BY DEF IpcInv, Issued, UnsentNeverSent
<1> QED
  BY <1>1, InvHolds, PTL

-----------------------------------------------------------------------------
(* The batches.  What is pending was written, or is being written; a batch
   that was written either has all of its requests pending, recorded in one
   entry of pending_batches, or none, and then it was answered as a whole or
   not at all. *)
Whole(c) == (\E r \in SentOf(c) : status[r] = "answered")
            => \A r \in SentOf(c) : status[r] \in {"answered", "cancelled"}

Recorded(c) == \E k \in DOMAIN batches : SentOf(c) = {pending[i] : i \in batches[k]}
Settles(c)  == SentOf(c) \cap PendingRequests = {} /\ Whole(c)

Written == /\ \A r \in PendingRequests : r[1] = writing \/ r \in sent
           /\ \A r \in sent : r[1] # writing
           /\ \A k \in DOMAIN batches : pending[k][1] # writing

BatchInv == BatchesHeld /\ Written /\ \A c \in BatchCall : Recorded(c) \/ Settles(c)

LEMMA BatchFacts ==
    ASSUME HeldInv, BatchInv
    PROVE  /\ \A k \in DOMAIN batches : \A i \in batches[k] :
                i \in DOMAIN pending /\ pending[i] \in PendingRequests
           /\ \A c : Recorded(c) => SentOf(c) \subseteq PendingRequests
           /\ \A c : \A r \in SentOf(c) : r \in sent /\ r \in Request /\ r[1] = c
BY PendingFacts DEF BatchInv, BatchesHeld, Recorded, SentOf

(* A step that leaves the task's maps alone, and of the calls that were
   written at most cancels some. *)
LEMMA BatchFrame ==
    ASSUME HeldInv, BatchInv, UNCHANGED <<pending, batches, writing, sent>>,
           \A r \in sent : \/ status'[r] = status[r]
                           \/ status[r] = "waiting" /\ status'[r] = "cancelled"
    PROVE  BatchInv'
<1>1. /\ PendingRequests' = PendingRequests
      /\ \A c : SentOf(c)' = SentOf(c)
  BY DEF PendingRequests, SentOf
<1>2. BatchesHeld' /\ Written'
  BY <1>1 DEF BatchInv, BatchesHeld, Written
<1>3. ASSUME NEW c \in BatchCall PROVE (Recorded(c) \/ Settles(c))'
  <2>1. Recorded(c) => Recorded(c)'
    BY <1>1 DEF Recorded
  <2>2. Settles(c) => Settles(c)'
    BY <1>1, BatchFacts DEF Settles, Whole
  <2> QED
    BY <2>1, <2>2 DEF BatchInv
<1> QED
  BY <1>2, <1>3 DEF BatchInv

(* The task ends its loop, and before it answers at most requests that are in
   no batch. *)
LEMMA BatchLeave ==
    ASSUME HeldInv, BatchInv, LeaveLoop, sent' = sent,
           NEW A, \A k \in DOMAIN batches : \A i \in batches[k] : pending[i] \notin A,
           \A r \in Request : /\ r \notin PendingRequests => status'[r] = status[r]
                              /\ status'[r] = "answered" => status[r] = "answered" \/ r \in A
    PROVE  BatchInv'
<1>1. /\ DOMAIN pending' = {} /\ PendingRequests' = {} /\ DOMAIN batches' = {} /\ writing' = NoCall
      /\ \A c : SentOf(c)' = SentOf(c)
  BY DEF LeaveLoop, PendingRequests, SentOf, Range
<1>2. \A r \in sent : r[1] # NoCall
  BY PendingFacts, RequestShape, ConstantsAssumption
<1>3. BatchesHeld' /\ Written'
  BY <1>1, <1>2 DEF BatchesHeld, Written, LeaveLoop
<1>4. ASSUME NEW c \in BatchCall PROVE Whole(c)'
  <2>1. CASE Recorded(c)
    <3>1. PICK k \in DOMAIN batches : SentOf(c) = {pending[i] : i \in batches[k]}
      BY <2>1 DEF Recorded
    <3>2. \A r \in SentOf(c) : r \notin A /\ r \in PendingRequests /\ r \in Request
      BY <3>1, BatchFacts, PendingFacts
    <3>3. \A r \in SentOf(c) : status'[r] # "answered"
      BY <3>2, PendingFacts
    <3> QED
      BY <1>1, <3>3 DEF Whole
  <2>2. CASE Settles(c)
    <3>1. \A r \in SentOf(c) : status'[r] = status[r]
      BY <2>2, BatchFacts DEF Settles
    <3> QED
      BY <1>1, <2>2, <3>1 DEF Settles, Whole
  <2> QED
    BY <2>1, <2>2 DEF BatchInv
<1>5. \A c \in BatchCall : Settles(c)'
  BY <1>1, <1>4 DEF Settles
<1> QED
  BY <1>3, <1>5 DEF BatchInv

LEMMA BatchFailPending ==
    ASSUME HeldInv, BatchInv, FailPending, sent' = sent
    PROVE  BatchInv'
<1>1. PICK A : A = {}
  OBVIOUS
<1>2. \A r \in Request : /\ r \notin PendingRequests => status'[r] = status[r]
                         /\ status'[r] = "answered" => status[r] = "answered" \/ r \in A
  BY DEF FailPending, Settled
<1>3. LeaveLoop /\ \A k \in DOMAIN batches : \A i \in batches[k] : pending[i] \notin A
  BY <1>1 DEF FailPending
<1> QED
  BY <1>2, <1>3, BatchLeave

LEMMA BatchTake ==
    ASSUME HeldInv, BatchInv, NEW c \in Call, Take(c)
    PROVE  BatchInv'
<1>1. /\ UNCHANGED <<batches, sent>> /\ writing = NoCall
      /\ \A r \in PendingRequests \cup sent : r[1] # c
      /\ \A i \in DOMAIN pending : i \in DOMAIN pending' /\ pending'[i] = pending[i]
      /\ PendingRequests' = PendingRequests \cup {<<c, j>> : j \in Fresh(c)}
      /\ writing' = IF Fresh(c) = {} THEN NoCall ELSE c
      /\ \A d : SentOf(d)' = SentOf(d)
  BY TakeFacts DEF SentOf
<1>2. \A r \in sent : status'[r] = status[r]
  <2>1. \A r \in Refused(c) : r[1] = c
    BY DEF Refused
  <2> QED
    BY <1>1, <2>1, TakeFacts, PendingFacts
<1>3. BatchesHeld'
  <2>1. \A k \in DOMAIN batches : \A i \in batches[k] :
          i \in DOMAIN pending' /\ pending'[i] = pending[i] /\ pending'[k] = pending[k]
    BY <1>1, BatchFacts DEF BatchInv, BatchesHeld
  <2> QED
    BY <1>1, <2>1 DEF BatchInv, BatchesHeld
<1>4. Written'
  <2>1. \A r \in PendingRequests : r \in sent
    BY <1>1, PendingFacts, RequestShape, ConstantsAssumption DEF BatchInv, Written
  <2>2. \A r \in PendingRequests' : r[1] = writing' \/ r \in sent'
    BY <1>1, <2>1
  <2>3. \A r \in sent' : r[1] # writing'
    BY <1>1 DEF BatchInv, Written
  <2>4. \A k \in DOMAIN batches' : pending'[k][1] # writing'
    BY <1>1, BatchFacts DEF BatchInv, Written, BatchesHeld
  <2> QED
    BY <2>2, <2>3, <2>4 DEF Written
<1>5. ASSUME NEW d \in BatchCall PROVE (Recorded(d) \/ Settles(d))'
  <2>1. CASE Recorded(d)
    <3>1. PICK k \in DOMAIN batches : SentOf(d) = {pending[i] : i \in batches[k]}
      BY <2>1 DEF Recorded
    <3>2. \A i \in batches[k] : pending'[i] = pending[i]
      BY <1>1, BatchFacts
    <3>3. {pending'[i] : i \in batches[k]} = {pending[i] : i \in batches[k]}
      BY <3>2
    <3> QED
      BY <1>1, <3>1, <3>3 DEF Recorded
  <2>2. CASE Settles(d)
    <3>1. \A r \in SentOf(d) : r \in sent /\ status'[r] = status[r]
      BY <1>2, BatchFacts
    <3>2. (SentOf(d) \cap PendingRequests)' = {}
      BY <1>1, <2>2, <3>1 DEF Settles
    <3> QED
      BY <1>1, <2>2, <3>1, <3>2 DEF Settles, Whole
  <2> QED
    BY <2>1, <2>2 DEF BatchInv
<1> QED
  BY <1>3, <1>4, <1>5 DEF BatchInv

LEMMA BatchWriteAll ==
    ASSUME HeldInv, BatchInv, WriteAll
    PROVE  BatchInv'
<1>0. PICK c \in Call : c = writing /\ c # NoCall
  BY FirstIdType DEF WriteAll
<1> DEFINE f == FirstId(c)
           A == AcceptedIds(c)
<1>1. /\ UNCHANGED <<status, pending>> /\ writing' = NoCall
      /\ sent' = sent \cup {pending[i] : i \in A}
      /\ PendingRequests' = PendingRequests
  BY <1>0 DEF WriteAll, callVars, PendingRequests
<1>2. f \in A /\ A \subseteq DOMAIN pending /\ c \in Call
  BY <1>0, FirstIdType
<1>3. \A i \in DOMAIN pending : i \in A <=> pending[i][1] = c
  BY DEF AcceptedIds
<1>4. \A k \in DOMAIN batches : f # k /\ batches[k] \cap A = {}
  BY <1>0, <1>2, <1>3 DEF BatchInv, Written, BatchesHeld
<1>5. DOMAIN batches' = IF c \in BatchCall THEN DOMAIN batches \cup {f} ELSE DOMAIN batches
  BY <1>0 DEF WriteAll
<1>6. /\ \A k \in DOMAIN batches : batches'[k] = batches[k]
      /\ c \in BatchCall => batches'[f] = A
  BY <1>0, <1>4 DEF WriteAll
<1>7. \A i \in A : pending[i] \in Request /\ pending[i][1] = c
  BY <1>2, <1>3, PendingFacts
<1> HIDE DEF f, A
<1>8. /\ SentOf(c)' = {pending[i] : i \in A}
      /\ \A d : d # c => SentOf(d)' = SentOf(d)
  <2>1. \A r \in sent : r[1] # c
    BY <1>0 DEF BatchInv, Written
  <2> QED
    BY <1>1, <1>7, <2>1 DEF SentOf
<1>9. BatchesHeld'
  <2>1. ASSUME NEW k \in DOMAIN batches'
        PROVE  /\ k \in batches'[k]
               /\ \A i \in batches'[k] : i \in DOMAIN pending /\ pending[i][1] = pending[k][1]
               /\ \A j \in DOMAIN batches' : j # k => batches'[j] \cap batches'[k] = {}
    <3>1. CASE k \in DOMAIN batches
      BY <1>4, <1>5, <1>6, <3>1 DEF BatchInv, BatchesHeld
    <3>2. CASE k = f /\ c \in BatchCall
      BY <1>2, <1>4, <1>5, <1>6, <1>7, <3>2
    <3> QED
      BY <1>5, <2>1, <3>1, <3>2
  <2> QED
    BY <1>1, <2>1 DEF BatchesHeld
<1>10. Written'
  <2>1. \A r \in sent' : r[1] # NoCall
    BY <1>1, <1>2, <1>7, PendingFacts, RequestShape, ConstantsAssumption
  <2>2. ASSUME NEW r \in PendingRequests PROVE r \in sent'
    <3>1. IdOf(r) \in DOMAIN pending /\ pending[IdOf(r)] = r
      BY PendingFacts
    <3> QED
      BY <1>0, <1>1, <1>3, <3>1 DEF BatchInv, Written
  <2>3. \A k \in DOMAIN batches' : pending[k][1] # NoCall
    <3>1. \A k \in DOMAIN batches' : k \in DOMAIN pending
      BY <1>2, <1>5, BatchFacts DEF BatchInv, BatchesHeld
    <3> QED
      BY <3>1, PendingFacts, RequestShape, ConstantsAssumption
  <2> QED
    BY <1>1, <2>1, <2>2, <2>3 DEF Written
<1>11. ASSUME NEW d \in BatchCall PROVE (Recorded(d) \/ Settles(d))'
  <2>1. CASE d = c
    BY <1>1, <1>5, <1>6, <1>8, <2>1 DEF Recorded
  <2>2. CASE d # c /\ Recorded(d)
    <3>1. PICK k \in DOMAIN batches : SentOf(d) = {pending[i] : i \in batches[k]}
      BY <2>2 DEF Recorded
    <3>2. k \in DOMAIN batches' /\ batches'[k] = batches[k] /\ SentOf(d)' = SentOf(d)
      BY <1>5, <1>6, <1>8, <2>2
    <3> QED
      BY <1>1, <3>1, <3>2 DEF Recorded
  <2>3. CASE d # c /\ Settles(d)
    BY <1>1, <1>8, <2>3 DEF Settles, Whole
  <2> QED
    BY <2>1, <2>2, <2>3 DEF BatchInv
<1> QED
  BY <1>9, <1>10, <1>11 DEF BatchInv

(* The outputs of a message that respond accepts are those of one batch, or
   of no batch. *)
LEMMA BatchRespond ==
    ASSUME HeldInv, BatchInv, Respond
    PROVE  BatchInv'
<1> DEFINE outs == Head(wire).outputs
<1>1. /\ UNCHANGED <<writing, sent>>
      /\ DOMAIN pending' = DOMAIN pending \ OutputIds(outs)
      /\ \A i \in DOMAIN pending' : pending'[i] = pending[i]
      /\ DOMAIN batches' = DOMAIN batches \ Touched(outs)
      /\ \A k \in DOMAIN batches' : batches'[k] = batches[k]
      /\ \A d : SentOf(d)' = SentOf(d)
  BY DEF Respond, Restrict, SentOf
<1>2. \A r \in Request : status'[r] = IF r \in Answered(outs) /\ status[r] = "waiting"
                                        THEN "answered" ELSE status[r]
  BY DEF Respond, Settled
<1>3. \A k \in Touched(outs) : OutputIds(outs) = batches[k]
  <2>1. Correlates(Head(wire)) /\ Head(wire).kind \in {"single", "batch"}
    BY DEF Respond, Decodes
  <2> QED
    BY <2>1 DEF Correlates, OneRequest, WholeBatch
<1>4. \A k \in DOMAIN batches' : \A i \in batches[k] : i \in DOMAIN pending' /\ pending'[i] = pending[i]
  BY <1>1, BatchFacts DEF Touched
<1> HIDE DEF outs
<1>5. BatchesHeld'
  <2>1. \A k \in DOMAIN batches' : k \in DOMAIN batches /\ batches'[k] = batches[k] /\ k \in batches[k]
    BY <1>1 DEF BatchInv, BatchesHeld
  <2> QED
    BY <1>4, <2>1 DEF BatchInv, BatchesHeld
<1>6. PendingRequests' \subseteq PendingRequests
  BY <1>1 DEF PendingRequests, Range
<1>7. Written'
  <2>1. \A k \in DOMAIN batches' : k \in DOMAIN batches /\ pending'[k] = pending[k]
    BY <1>1, <1>4 DEF BatchInv, BatchesHeld
  <2> QED
    BY <1>1, <1>6, <2>1 DEF BatchInv, Written
<1>8. ASSUME NEW d \in BatchCall PROVE (Recorded(d) \/ Settles(d))'
  <2>1. CASE Settles(d)
    <3>1. \A r \in SentOf(d) : r \in Request /\ r \notin Answered(outs)
      BY <2>1, BatchFacts, RespondFacts DEF Settles
    <3>2. \A r \in SentOf(d) : status'[r] = status[r]
      BY <1>2, <3>1
    <3>3. (SentOf(d) \cap PendingRequests)' = {}
      BY <1>1, <1>6, <2>1 DEF Settles
    <3> QED
      BY <1>1, <2>1, <3>2, <3>3 DEF Settles, Whole
  <2>2. CASE Recorded(d)
    <3>1. PICK k \in DOMAIN batches : SentOf(d) = {pending[i] : i \in batches[k]}
      BY <2>2 DEF Recorded
    <3>2. CASE k \in Touched(outs)
      <4>1. ASSUME NEW r \in SentOf(d)
            PROVE  r \in Request /\ status'[r] \in {"answered", "cancelled"} /\ r \notin PendingRequests'
        <5>1. PICK i \in batches[k] : r = pending[i]
          BY <3>1
        <5>2. i \in OutputIds(outs) /\ i \in DOMAIN pending
          BY <1>3, <3>2, BatchFacts
        <5>3. r \in PendingRequests /\ IdOf(r) = i /\ r \in Request
          BY <5>1, <5>2, PendingFacts
        <5>4. r \in Answered(outs)
          BY <5>2, <5>3, RespondFacts
        <5>5. \A j \in DOMAIN pending' : pending'[j] # r
          BY <1>1, <5>2, <5>3, PendingFacts
        <5> QED
          BY <1>2, <5>3, <5>4, <5>5, PendingFacts DEF PendingRequests, Range
      <4>2. (SentOf(d) \cap PendingRequests)' = {}
        BY <1>1, <4>1
      <4> QED
        BY <1>1, <4>1, <4>2 DEF Settles, Whole
    <3>3. CASE k \notin Touched(outs)
      <4>1. k \in DOMAIN batches' /\ batches'[k] = batches[k]
        BY <1>1, <3>3
      <4>2. {pending'[i] : i \in batches[k]} = {pending[i] : i \in batches[k]}
        BY <1>4, <4>1
      <4> QED
        BY <1>1, <3>1, <4>1, <4>2 DEF Recorded
    <3> QED
      BY <3>2, <3>3
  <2> QED
    BY <2>1, <2>2 DEF BatchInv
<1> QED
  BY <1>5, <1>7, <1>8 DEF BatchInv

(* A step of the task keeps the batches whole. *)
LEMMA BatchTaskStep ==
    ASSUME HeldInv, BatchInv, TaskStep
    PROVE  BatchInv'
<1>1. ASSUME UNCHANGED <<status, pending, batches, writing, sent>> PROVE BatchInv'
  BY <1>1, BatchFrame
<1>2. ASSUME NEW h \in Stream, TakeSubscribe(h) PROVE BatchInv'
  BY <1>1, <1>2 DEF TakeSubscribe, callVars, peerVars
<1>3. ASSUME NEW s \in SubId, TakeUnsubscribe(s) PROVE BatchInv'
  BY <1>1, <1>3 DEF TakeUnsubscribe, callVars, peerVars
<1>4. ASSUME NEW n \in 1 .. 2 * WireCap, Read(n) PROVE BatchInv'
  BY <1>1, <1>4 DEF Read, callVars, peerVars
<1>5. CASE TakeClosed \/ Notify \/ Ignore
  BY <1>1, <1>5 DEF TakeClosed, Notify, Ignore, callVars, peerVars
<1>6. CASE WriteFails \/ ReadFails \/ Reject
  BY <1>6, BatchFailPending DEF WriteFails, ReadFails, Reject, peerVars
<1>7. CASE Leave
  <2>1. PICK A : A = {}
    OBVIOUS
  <2>2. /\ LeaveLoop /\ sent' = sent /\ status' = status
        /\ \A k \in DOMAIN batches : \A i \in batches[k] : pending[i] \notin A
    BY <1>7, <2>1 DEF Leave, callVars, peerVars
  <2> QED
    BY <2>2, BatchLeave
<1>8. CASE RespondPartly
  <2> DEFINE outs == Head(wire).outputs
  <2>1. /\ LeaveLoop /\ sent' = sent
        /\ Correlates(Head(wire)) /\ Head(wire).kind \in {"single", "batch"} /\ ~AllKnown(outs)
    BY <1>8 DEF RespondPartly, Decodes
  <2>2. PICK A : A = Answered(outs)
    OBVIOUS
  <2>3. A \subseteq PendingRequests
    BY <2>2, RespondFacts
  <2>4. \A r \in Request : status'[r] = IF r \in PendingRequests \ A
                                          THEN IF status[r] = "waiting" THEN "failed" ELSE status[r]
                                          ELSE IF r \in A /\ status[r] = "waiting"
                                                 THEN "answered" ELSE status[r]
    BY <1>8, <2>2 DEF RespondPartly, Settled
  <2>5. Touched(outs) = {}
    <3>1. ASSUME NEW k \in Touched(outs) PROVE FALSE
      <4>1. OutputIds(outs) = batches[k] /\ \A i \in DOMAIN outs : outs[i].id # 0
        BY <2>1, <3>1 DEF Correlates, OneRequest, WholeBatch
      <4>2. \A i \in DOMAIN outs : outs[i].id \in OutputIds(outs)
        BY <4>1 DEF OutputIds
      <4>3. AllKnown(outs)
        BY <4>1, <4>2, BatchFacts DEF AllKnown, Touched
      <4> QED
        BY <2>1, <4>3
    <3> QED
      BY <3>1
  <2> HIDE DEF outs
  <2>6. ASSUME NEW k \in DOMAIN batches, NEW i \in batches[k] PROVE pending[i] \notin A
    <3>1. i \in DOMAIN pending /\ pending[i] \in PendingRequests /\ IdOf(pending[i]) = i
      BY BatchFacts, PendingFacts
    <3>2. i \notin OutputIds(outs)
      BY <2>5 DEF Touched
    <3> QED
      BY <2>2, <3>1, <3>2, RespondFacts
  <2>7. \A r \in Request : /\ r \notin PendingRequests => status'[r] = status[r]
                           /\ status'[r] = "answered" => status[r] = "answered" \/ r \in A
    BY <2>3, <2>4
  <2>8. \A k \in DOMAIN batches : \A i \in batches[k] : pending[i] \notin A
    BY <2>6
  <2> QED
    BY <2>1, <2>7, <2>8, BatchLeave
<1>9. CASE Finish
  <2>1. /\ UNCHANGED <<pending, batches, writing, sent>>
        /\ \A r \in Request : r[1] \notin QueuedCalls => status'[r] = status[r]
    BY <1>9 DEF Finish, Settled, RequestsOf, peerVars
  <2> QED
    BY <2>1, BatchFrame, PendingFacts
<1> QED
  BY <1>2, <1>3, <1>4, <1>5, <1>6, <1>7, <1>8, <1>9, BatchTake, BatchWriteAll, BatchRespond
  DEF TaskStep

LEMMA BatchInvNext ==
    ASSUME HeldInv, BatchInv, [Next]_vars
    PROVE  BatchInv'
<1>1. ASSUME UNCHANGED <<status, pending, batches, writing, sent>> PROVE BatchInv'
  BY <1>1, BatchFrame
<1>2. ASSUME CallerStep PROVE BatchInv'
  <2>1. ASSUME NEW c \in Call, Prepare(c) PROVE BatchInv'
    BY <1>1, <2>1 DEF Prepare, taskVars, peerVars
  <2>2. ASSUME NEW c \in Call, Send(c) PROVE BatchInv'
    <3>1. /\ UNCHANGED <<pending, batches, writing, sent>>
          /\ \A r \in Request : r[1] # c => status'[r] = status[r]
          /\ c \notin issued
      BY <2>2 DEF Send, peerVars
    <3> QED
      BY <3>1, BatchFrame, PendingFacts
  <2>3. ASSUME NEW c \in Call, Cancel(c) PROVE BatchInv'
    <3>1. /\ UNCHANGED <<pending, batches, writing, sent>>
          /\ \A r \in Request : \/ status'[r] = status[r]
                                \/ status[r] = "waiting" /\ status'[r] = "cancelled"
      BY <2>3 DEF Cancel, Settled, taskVars, peerVars
    <3> QED
      BY <3>1, BatchFrame, PendingFacts
  <2>4. ASSUME NEW h \in Stream, Subscribe(h) \/ Poll(h) \/ Drop(h) PROVE BatchInv'
    BY <1>1, <2>4 DEF Subscribe, Poll, Drop, callVars, taskVars, peerVars
  <2>5. CASE DropHandles
    BY <1>1, <2>5 DEF DropHandles, taskVars, peerVars
  <2> QED
    BY <1>2, <2>1, <2>2, <2>3, <2>4, <2>5 DEF CallerStep
<1>3. ASSUME PeerStep PROVE BatchInv'
  BY <1>1, <1>3
  DEF PeerStep, PeerAnswers, PeerNotifies, PeerMisanswers, PeerSendsOdd, PeerEnds, PeerOverflows, Break, callVars, taskVars
<1>4. UNCHANGED vars => BatchInv'
  BY <1>1 DEF vars, callVars, taskVars, peerVars
<1> QED
  BY <1>2, <1>3, <1>4, BatchTaskStep DEF Next

LEMMA BatchInvHolds == Spec => []BatchInv
<1>1. Init => BatchInv
  <2> SUFFICES ASSUME Init PROVE BatchInv
    OBVIOUS
  <2>1. DOMAIN batches = {} /\ PendingRequests = {} /\ sent = {} /\ \A c : SentOf(c) = {}
    BY DEF Init, PendingRequests, Range, SentOf
  <2> QED
    BY <2>1 DEF BatchInv, BatchesHeld, Written, Settles, Whole
<1>2. HeldInv /\ BatchInv /\ [Next]_vars => BatchInv'
  BY BatchInvNext
<1> QED
  BY <1>1, <1>2, HeldInvHolds, PTL DEF Spec

(* pending_batches says of every batch which ids it still waits for: they are
   pending, they are of one call, and no two batches share one. *)
THEOREM BatchesAreHeld == Spec => []BatchesHeld
<1>1. BatchInv => BatchesHeld
  BY DEF BatchInv
<1> QED
  BY <1>1, BatchInvHolds, PTL

(* Whatever the peer sends, and however ids repeat: once one request of a
   batch that was written has its answer, all of them have. *)
THEOREM BatchesAreWhole == Spec => []BatchWhole
<1>1. HeldInv /\ BatchInv => BatchWhole
  <2> SUFFICES ASSUME HeldInv, BatchInv, NEW c \in BatchCall PROVE Whole(c)
    BY DEF BatchWhole, Whole
  <2>1. CASE Settles(c)
    BY <2>1 DEF Settles
  <2>2. CASE Recorded(c)
    <3>1. \A r \in SentOf(c) : status[r] \in {"waiting", "cancelled"}
      BY <2>2, BatchFacts, PendingFacts
    <3> QED
      BY <3>1 DEF Whole
  <2> QED
    BY <2>1, <2>2 DEF BatchInv
<1> QED
  BY <1>1, HeldInvHolds, BatchInvHolds, PTL

-----------------------------------------------------------------------------
(* The streams. *)

StreamInv == StreamsInv(queue, wire)

(* What a step does to the streams, besides ending the task. *)
StreamStep == task' = "done" \/ Kept(Waiting(queue), Waiting(queue'), ChannelCapacity)

LEMMA MessageKinds ==
    /\ \A h \in Stream : SubscribeMsg(h) = SubscribeOf(h) /\ SubscribeOf(h) \in TransportMessage
    /\ \A s \in SubId : UnsubscribeMsg(s) = UnsubscribeOf(s) /\ UnsubscribeOf(s) \in TransportMessage
    /\ \A c \in Call : Other(RequestMsg(c))
    /\ \A s, n : NotificationMsg(s, n) = NoteOf(s, n)
    /\ Messages(WireMessage)
    /\ \A m \in WireMessage : m.kind # "notification" => \A s \in SubId : ~IsNote(m, s)
    /\ \A kind : OddMsg(kind).kind = kind
<1>1. \A m \in WireMessage : m.kind = "notification" => m.id \in SubId /\ m.number \in Nat
  BY DEF WireMessage
<1>2. Messages(WireMessage)
  BY <1>1 DEF Messages, IsNote
<1>3. \A m \in WireMessage : m.kind # "notification" => \A s \in SubId : ~IsNote(m, s)
  BY DEF IsNote
<1>4. \A c \in Call : Other(RequestMsg(c))
  BY DEF Other, RequestMsg, SubscribeOf, UnsubscribeOf
<1> QED
  BY <1>2, <1>3, <1>4, MessageTypes
  DEF SubscribeMsg, SubscribeOf, UnsubscribeMsg, UnsubscribeOf, NotificationMsg, NoteOf, OddMsg

(* A sink that is alive in the model is one of the shared lemmas'. *)
LEMMA StepKeeps ==
    ASSUME TypeOK, StreamStep
    PROVE  \A h \in Stream : LetsGo(h)
<1> SUFFICES ASSUME NEW h \in Stream, SinkAlive(h), ~SinkAlive(h)', task' # "done"
             PROVE  \/ consumer[h] = "dropped" \/ Buffered(h) >= ChannelCapacity
                    \/ \E g \in Stream \ {h} : sub[g] = sub[h]
  BY DEF LetsGo
<1>1. Alive(h, Waiting(queue))
  BY MessageKinds DEF SinkAlive, Alive, Waiting
<1>2. ~(h \in Waiting(queue') \/ registered'[sub'[h]] = h)
  BY MessageKinds DEF SinkAlive, Waiting
<1>3. MayGo(h, ChannelCapacity)
  BY <1>1, <1>2 DEF StreamStep, Kept
<1> QED
  BY <1>3 DEF MayGo

LEMMA StreamCallerStep ==
    ASSUME TypeOK, StreamInv, CallerStep
    PROVE  StreamInv' /\ StreamStep
<1> USE DEF StreamInv, StreamStep
<1>1. /\ SubTypesOK /\ queue \in Seq(TransportMessage) /\ wire \in Seq(WireMessage)
      /\ Messages(WireMessage)
  BY MessageKinds DEF TypeOK, TaskTypesOK, PeerTypesOK
<1>2. ASSUME NEW c \in Call, Prepare(c) \/ Send(c) \/ Cancel(c) PROVE StreamInv' /\ StreamStep
  <2>1. /\ UNCHANGED <<wire, subVars>>
        /\ queue' = queue \/ queue' = Append(queue, RequestMsg(c))
    BY <1>2 DEF Prepare, Send, Cancel, taskVars, peerVars
  <2> QED
    BY <1>1, <2>1, MessageTypes, MessageKinds, StreamsIdle
<1>3. ASSUME NEW h \in Stream, Subscribe(h) PROVE StreamInv' /\ StreamStep
  <2>1. /\ consumer[h] = "none" /\ wire' = wire
        /\ \/ queue' = Append(queue, SubscribeOf(h)) /\ Becomes(h, "open")
           \/ queue' = queue /\ Becomes(h, "refused")
    BY <1>3, MessageKinds DEF Subscribe, Enqueue, peerVars
  <2> QED
    BY <1>1, <2>1, MessageKinds, StreamsSubscribe
<1>4. ASSUME NEW h \in Stream, Poll(h) PROVE StreamInv' /\ StreamStep
  <2>1. SinkAlive(h) <=> Alive(h, Waiting(queue))
    BY MessageKinds DEF SinkAlive, Alive, Waiting
  <2>2. consumer[h] = "open" /\ UNCHANGED <<queue, wire>> /\ Receive(h, Alive(h, Waiting(queue)))
    BY <1>4, <2>1 DEF Poll, taskVars, peerVars, Receive
  <2> QED
    BY <1>1, <2>2, StreamsPoll
<1>5. ASSUME NEW h \in Stream, Drop(h) PROVE StreamInv' /\ StreamStep
  <2>1. sub[h] \in SubId
    BY <1>1 DEF SubTypesOK
  <2>2. /\ consumer[h] \in {"open", "ended"} /\ wire' = wire /\ Becomes(h, "dropped")
        /\ queue' = queue \/ queue' = Append(queue, UnsubscribeOf(sub[h]))
    BY <1>5, <2>1, MessageKinds DEF Drop, Enqueue, peerVars
  <2> QED
    BY <1>1, <2>1, <2>2, MessageKinds, StreamsDrop
<1>6. CASE DropHandles
  <2>1. UNCHANGED <<queue, wire, subVars>>
    BY <1>6 DEF DropHandles, taskVars, peerVars
  <2> QED
    BY <1>1, <2>1, StreamsIdle
<1> QED
  BY <1>2, <1>3, <1>4, <1>5, <1>6 DEF CallerStep

LEMMA StreamTaskStep ==
    ASSUME HeldInv, StreamInv, TaskStep
    PROVE  StreamInv' /\ StreamStep
<1> USE DEF StreamInv, StreamStep
<1>1. /\ SubTypesOK /\ queue \in Seq(TransportMessage) /\ wire \in Seq(WireMessage)
      /\ Messages(WireMessage)
  BY MessageKinds DEF HeldInv, IpcInv, TypeOK, TaskTypesOK, PeerTypesOK
<1>2. ASSUME UNCHANGED <<queue, subVars>>,
             \/ wire' = wire
             \/ \E K : Decodes(K) /\ Head(wire).kind # "notification"
      PROVE  StreamInv' /\ StreamStep
  <2>1. CASE wire' = wire
    BY <1>1, <1>2, <2>1, StreamsIdle
  <2>2. CASE \E K : Decodes(K) /\ Head(wire).kind # "notification"
    <3>1. wire # <<>> /\ wire' = Tail(wire) /\ Head(wire) \in WireMessage
      BY <2>2, DecodesType DEF Decodes
    <3>2. \A s \in SubId : ~IsNote(Head(wire), s)
      BY <2>2, <3>1, MessageKinds
    <3> QED
      BY <1>1, <1>2, <3>1, <3>2, StreamsIdle
  <2> QED
    BY <1>2, <2>1, <2>2
<1>3. ASSUME NEW c \in Call, Take(c) PROVE StreamInv' /\ StreamStep
  <2>1. /\ UNCHANGED <<wire, subVars>> /\ queue # <<>> /\ queue' = Tail(queue)
        /\ \A h \in Stream : Head(queue) # SubscribeOf(h)
    BY <1>3, MessageKinds DEF Take, peerVars, Other
  <2> QED
    BY <1>1, <2>1, StreamsIdle
<1>4. ASSUME NEW h \in Stream, TakeSubscribe(h) PROVE StreamInv' /\ StreamStep
  <2>1. /\ wire' = wire /\ queue # <<>> /\ queue' = Tail(queue)
        /\ Head(queue) = SubscribeOf(h) /\ Register(h)
    BY <1>4, MessageKinds DEF TakeSubscribe, peerVars
  <2> QED
    BY <1>1, <2>1, StreamsTake
<1>5. ASSUME NEW s \in SubId, TakeUnsubscribe(s) PROVE StreamInv' /\ StreamStep
  <2>1. /\ wire' = wire /\ queue # <<>> /\ queue' = Tail(queue)
        /\ Head(queue) = UnsubscribeOf(s) /\ Unregister(s)
    BY <1>5, MessageKinds DEF TakeUnsubscribe, peerVars
  <2> QED
    BY <1>1, <2>1, StreamsTake
<1>6. CASE TakeClosed \/ Leave \/ WriteAll \/ WriteFails \/ ReadFails
  BY <1>2, <1>6 DEF TakeClosed, Leave, WriteAll, WriteFails, ReadFails, taskVars, peerVars
<1>7. ASSUME NEW n \in 1 .. 2 * WireCap, Read(n) PROVE StreamInv' /\ StreamStep
  BY <1>2, <1>7 DEF Read, taskVars, peerVars
<1>8. CASE Respond \/ RespondPartly \/ Reject \/ Ignore
  <2>1. \E K : Decodes(K) /\ Head(wire).kind # "notification"
    BY <1>8 DEF Respond, RespondPartly, Reject, Ignore, Decodes
  <2>2. UNCHANGED <<queue, subVars>>
    BY <1>8 DEF Respond, RespondPartly, Reject, Ignore, taskVars
  <2> QED
    BY <1>2, <2>1, <2>2
<1>9. CASE Notify
  <2> DEFINE s == Head(wire).id
  <2>1. /\ wire # <<>> /\ wire' = Tail(wire) /\ Head(wire).kind = "notification"
        /\ s \in SubId /\ queue' = queue /\ Offer(s, Head(wire).number, ChannelCapacity)
    BY <1>9, DecodesType DEF Notify, Decodes
  <2>2. IsNote(Head(wire), s)
    BY <2>1 DEF IsNote
  <2>3. ChannelCapacity \in Nat
    BY ConstantsAssumption
  <2> QED
    BY <1>1, <2>1, <2>2, <2>3, StreamsOffer
<1>10. CASE Finish
  BY <1>1, <1>10, StreamsClose DEF Finish, peerVars
<1> QED
  BY <1>3, <1>4, <1>5, <1>6, <1>7, <1>8, <1>9, <1>10 DEF TaskStep

LEMMA StreamPeerStep ==
    ASSUME HeldInv, StreamInv, PeerStep
    PROVE  StreamInv' /\ StreamStep
<1> USE DEF StreamInv, StreamStep
<1>1. /\ SubTypesOK /\ queue \in Seq(TransportMessage) /\ wire \in Seq(WireMessage)
      /\ Messages(WireMessage)
  BY MessageKinds DEF HeldInv, IpcInv, TypeOK, TaskTypesOK, PeerTypesOK
<1>2. ASSUME UNCHANGED <<queue, subVars>>,
             wire' = wire \/ \E m \in WireMessage : PeerSends(m) /\ m.kind # "notification"
      PROVE  StreamInv' /\ StreamStep
  BY <1>1, <1>2, MessageKinds, StreamsIdle DEF PeerSends
<1>3. ASSUME NEW s \in SubId, PeerNotifies(s) PROVE StreamInv' /\ StreamStep
  <2>1. emitted[s] + 1 \in Nat
    BY <1>1 DEF SubTypesOK
  <2>2. NoteOf(s, emitted[s] + 1) \in WireMessage
    BY <2>1 DEF NoteOf, WireMessage
  <2>3. wire' = Append(wire, NoteOf(s, emitted[s] + 1)) /\ Emit(s) /\ queue' = queue
    BY <1>3, MessageKinds DEF PeerNotifies, PeerSends, taskVars
  <2> QED
    BY <1>1, <2>2, <2>3, StreamsEmit
<1>4. ASSUME NEW c \in Call, PeerAnswers(c) PROVE StreamInv' /\ StreamStep
  <2>1. \E m \in WireMessage : PeerSends(m) /\ m.kind # "notification"
    BY <1>4, PeerAnswersFacts
  <2> QED
    BY <1>2, <1>4, <2>1 DEF PeerAnswers, taskVars
<1>5. CASE PeerMisanswers
  <2>1. \E m \in WireMessage : PeerSends(m) /\ m.kind # "notification"
    BY <1>5, PeerMisanswersFacts
  <2> QED
    BY <1>2, <1>5, <2>1 DEF PeerMisanswers, taskVars
<1>6. CASE PeerSendsOdd
  <2>1. PICK kind \in PeerFaults \cap {"malformed", "ignored"} : PeerSends(OddMsg(kind))
    BY <1>6 DEF PeerSendsOdd
  <2>2. OddMsg(kind) \in WireMessage /\ OddMsg(kind).kind # "notification"
    BY DEF OddMsg, WireMessage
  <2> QED
    BY <1>2, <1>6, <2>1, <2>2 DEF PeerSendsOdd, taskVars
<1>7. CASE PeerEnds \/ PeerOverflows \/ Break
  BY <1>2, <1>7 DEF PeerEnds, PeerOverflows, Break, taskVars
<1> QED
  BY <1>3, <1>4, <1>5, <1>6, <1>7 DEF PeerStep

LEMMA StreamInvNext ==
    ASSUME HeldInv, StreamInv, [Next]_vars
    PROVE  StreamInv' /\ (StreamStep \/ UNCHANGED vars)
<1>1. CASE UNCHANGED vars
  <2>1. UNCHANGED <<queue, wire, subVars>>
    BY <1>1 DEF vars, taskVars, peerVars
  <2>2. SubTypesOK /\ queue \in Seq(TransportMessage) /\ wire \in Seq(WireMessage)
    BY DEF HeldInv, IpcInv, TypeOK, TaskTypesOK, PeerTypesOK
  <2> QED
    BY <1>1, <2>1, <2>2, MessageKinds, StreamsIdle DEF StreamInv
<1>2. TypeOK
  BY DEF HeldInv, IpcInv
<1> QED
  BY <1>1, <1>2, StreamCallerStep, StreamTaskStep, StreamPeerStep DEF Next

LEMMA StreamInvHolds == Spec => []StreamInv
<1>1. Init => StreamInv
  BY StreamsInit DEF Init, StreamInv
<1>2. HeldInv /\ StreamInv /\ [Next]_vars => StreamInv'
  BY StreamInvNext
<1> QED
  BY <1>1, <1>2, HeldInvHolds, PTL DEF Spec

(* No stream delivers a notification after one it lost, with any number of
   streams, also of the same subscription id, and any capacity. *)
THEOREM StreamsHaveNoGap == Spec => []NoGap
<1>1. StreamInv => NoGap
  BY DEF StreamInv, StreamsInv, FlowInv
<1> QED
  BY <1>1, StreamInvHolds, PTL

(* The task lets go of a stream only for the reasons that LetsGo lists. *)
THEOREM StreamsAreKept == Spec => StreamKept
<1>1. HeldInv /\ StreamInv /\ [Next]_vars => [\A h \in Stream : LetsGo(h)]_vars
  BY StreamInvNext, StepKeeps DEF HeldInv, IpcInv
<1> QED
  BY <1>1, HeldInvHolds, StreamInvHolds, PTL DEF Spec, StreamKept

-----------------------------------------------------------------------------
(* The answers. *)

(* No id was handed out twice; and the peer only answers what it owes. *)
IdsDiffer == \A c, d \in Call : \A i \in 1 .. Len(ids[c]), j \in 1 .. Len(ids[d]) :
                ids[c][i] = ids[d][j] => c = d /\ i = j
Honest == "outputs" \notin PeerFaults

Responses == {n \in 1 .. Len(wire) : wire[n].kind \in {"single", "batch"}}
From(o)   == \E r \in sent \cup {NoRequest} : o = OutputOf(r)
Due(r)    == /\ r \in sent /\ r[1] \notin owed
             /\ task = "running" => r \in PendingRequests

(* Every output on its way carries the id of the request it is for. *)
Labelled == \A n \in Responses : \A i \in DOMAIN wire[n].outputs : From(wire[n].outputs[i])

(* Of an honest peer every output is for a request that waits for it, and no
   other response has one for the same request. *)
AnsweredOnce ==
    /\ \A n \in Responses : \A i \in DOMAIN wire[n].outputs : Due(wire[n].outputs[i].value)
    /\ \A m, n \in Responses : \A i \in DOMAIN wire[m].outputs, j \in DOMAIN wire[n].outputs :
          wire[m].outputs[i].value = wire[n].outputs[j].value => m = n
    /\ \A c \in owed : task = "running" => SentOf(c) \subseteq PendingRequests

AnswerInv == /\ Labelled
             /\ Honest => AnsweredOnce
             /\ IdsDiffer \/ Honest => OwnAnswer

(* Outputs name their request. *)
LEMMA OutputFacts ==
    ASSUME HeldInv
    PROVE  /\ \A r \in sent \cup {NoRequest} : OutputOf(r).value = r
           /\ \A r \in sent : OutputOf(r).id = IdOf(r)
           /\ OutputOf(NoRequest).id = 0
<1>1. \A r \in sent : r # NoRequest
  BY PendingFacts, RequestAssumption
<1> QED
  BY <1>1 DEF OutputOf

(* The ids of a call are only added to, and not once it was issued. *)
LEMMA IdsGrow ==
    ASSUME HeldInv, [Next]_vars
    PROVE  /\ IdsDiffer' => IdsDiffer
           /\ \A r \in sent \cup PendingRequests : IdOf(r)' = IdOf(r)
           /\ \A r \in sent \cup {NoRequest} : OutputOf(r)' = OutputOf(r)
<1>1. ids' = ids \/ \E c \in Call : Prepare(c)
  BY DEF Next, CallerStep, TaskStep, PeerStep, Send, Cancel, Subscribe, Poll, Drop, DropHandles, Take,
         TakeSubscribe, TakeUnsubscribe, TakeClosed, Leave, WriteAll, WriteFails, Read, ReadFails,
         Respond, RespondPartly, Reject, Notify, Ignore, Finish, PeerAnswers, PeerNotifies,
         PeerMisanswers, PeerSendsOdd, PeerEnds, PeerOverflows, Break, vars, callVars
<1>2. ASSUME NEW c \in Call, Prepare(c)
      PROVE  /\ \A d \in Call : /\ Len(ids[d]) \in Nat /\ Len(ids'[d]) >= Len(ids[d])
                                /\ Len(ids'[d]) \in Nat
                                /\ \A i \in 1 .. Len(ids[d]) : ids'[d][i] = ids[d][i]
             /\ \A d \in Call : d # c => ids'[d] = ids[d]
  BY <1>2 DEF HeldInv, IpcInv, TypeOK, CallTypesOK, Prepare
<1>3. ASSUME NEW c \in Call, Prepare(c) PROVE \A r \in sent \cup PendingRequests : r[1] # c
  BY <1>3, PendingFacts DEF Prepare
<1>4. ASSUME NEW c \in Call, Prepare(c), IdsDiffer' PROVE IdsDiffer
  <2> SUFFICES ASSUME NEW d \in Call, NEW e \in Call, NEW i \in 1 .. Len(ids[d]),
                      NEW j \in 1 .. Len(ids[e]), ids[d][i] = ids[e][j]
               PROVE  d = e /\ i = j
    BY DEF IdsDiffer
  <2>1. i \in 1 .. Len(ids'[d]) /\ j \in 1 .. Len(ids'[e]) /\ ids'[d][i] = ids'[e][j]
    <3>1. /\ Len(ids[d]) \in Nat /\ Len(ids'[d]) >= Len(ids[d]) /\ ids'[d][i] = ids[d][i]
          /\ Len(ids[e]) \in Nat /\ Len(ids'[e]) >= Len(ids[e]) /\ ids'[e][j] = ids[e][j]
      BY <1>2, <1>4
    <3>2. Len(ids'[d]) \in Nat /\ Len(ids'[e]) \in Nat
      BY <1>2, <1>4
    <3> QED
      BY <3>1, <3>2
  <2> QED
    BY <1>4, <2>1 DEF IdsDiffer
<1>5. ids' = ids => (IdsDiffer' => IdsDiffer)
  BY DEF IdsDiffer
<1>6. \A r \in sent \cup PendingRequests : r[1] \in Call
  BY PendingFacts, RequestShape
<1>7. \A r \in sent \cup PendingRequests : ids'[r[1]] = ids[r[1]]
  BY <1>1, <1>2, <1>3, <1>6
<1>8. \A r \in sent \cup PendingRequests : IdOf(r)' = IdOf(r)
  BY <1>7 DEF IdOf
<1>9. \A r \in sent \cup {NoRequest} : OutputOf(r)' = OutputOf(r)
  BY <1>8 DEF OutputOf
<1> QED
  BY <1>1, <1>4, <1>5, <1>8, <1>9

(* Steps that at most take a message off the wire and write requests, and
   answer nobody. *)
LEMMA AnswerFrame ==
    ASSUME HeldInv, AnswerInv, [Next]_vars,
           sent \subseteq sent', \A r \in sent : r[1] \in owed' => r[1] \in owed,
           NEW d \in {0, 1},
           \A n \in Responses' : n + d \in Responses /\ wire'[n] = wire[n + d],
           task' = "running" => /\ task = "running" /\ PendingRequests \subseteq PendingRequests'
                                /\ \A c \in owed' : SentOf(c)' \subseteq PendingRequests',
           \A r \in Request : status'[r] = "answered" => status[r] = "answered" /\ answer'[r] = answer[r]
    PROVE  AnswerInv'
<1>1. \A n \in Responses' : n + d \in Responses /\ wire'[n] = wire[n + d]
  OBVIOUS
<1>2. \A o : From(o) => From(o)'
  BY IdsGrow DEF From
<1>3. Labelled'
  BY <1>1, <1>2 DEF AnswerInv, Labelled
<1>4. ASSUME Honest PROVE AnsweredOnce'
  <2>1. AnsweredOnce
    BY <1>4 DEF AnswerInv
  <2>2. \A r : Due(r) => Due(r)'
    BY DEF Due
  <2>3. (\A n \in Responses : \A i \in DOMAIN wire[n].outputs : Due(wire[n].outputs[i].value))'
    BY <1>1, <2>1, <2>2 DEF AnsweredOnce
  <2>4. (\A m, n \in Responses : \A i \in DOMAIN wire[m].outputs, j \in DOMAIN wire[n].outputs :
          wire[m].outputs[i].value = wire[n].outputs[j].value => m = n)'
    <3> SUFFICES ASSUME NEW m \in Responses', NEW n \in Responses',
                        NEW i \in DOMAIN wire'[m].outputs, NEW j \in DOMAIN wire'[n].outputs,
                        wire'[m].outputs[i].value = wire'[n].outputs[j].value
                 PROVE  m = n
      OBVIOUS
    <3>1. m + d = n + d
      BY <1>1, <2>1 DEF AnsweredOnce
    <3>2. m \in Nat /\ n \in Nat
      BY DEF Responses
    <3> QED
      BY <3>1, <3>2
  <2> QED
    BY <2>3, <2>4 DEF AnsweredOnce
<1>5. ASSUME IdsDiffer' \/ Honest PROVE OwnAnswer'
  <2>1. OwnAnswer
    BY <1>5, IdsGrow DEF AnswerInv
  <2> QED
    BY <2>1 DEF OwnAnswer
<1>6. Honest' <=> Honest
  BY DEF Honest
<1> QED
  BY <1>3, <1>4, <1>5, <1>6 DEF AnswerInv

(* The output that a pending request gets is its own. *)
LEMMA OwnOutput ==
    ASSUME HeldInv, AnswerInv, IdsDiffer \/ Honest, NEW n \in Responses, task = "running",
           NEW i \in DOMAIN wire[n].outputs, NEW r \in PendingRequests,
           wire[n].outputs[i].id = IdOf(r)
    PROVE  wire[n].outputs[i].value = r
<1>1. PICK q \in sent \cup {NoRequest} : wire[n].outputs[i] = OutputOf(q)
  BY DEF AnswerInv, Labelled, From
<1>2. IdOf(r) \in Id /\ r \in Request /\ pending[IdOf(r)] = r
  BY PendingFacts
<1>3. q \in sent /\ IdOf(q) = IdOf(r) /\ wire[n].outputs[i].value = q
  BY <1>1, <1>2, OutputFacts DEF Id
<1>4. q \in Request /\ r \in Request /\ q[1] \in issued /\ r[1] \in issued
  BY <1>3, PendingFacts
<1>5. CASE IdsDiffer
  <2>1. /\ q[1] \in Call /\ q[2] \in 1 .. Len(ids[q[1]]) /\ q = <<q[1], q[2]>>
        /\ r[1] \in Call /\ r[2] \in 1 .. Len(ids[r[1]]) /\ r = <<r[1], r[2]>>
    BY <1>4, RequestShape DEF HeldInv, IpcInv, Issued
  <2>2. q[1] = r[1] /\ q[2] = r[2]
    BY <1>3, <1>5, <2>1 DEF IdsDiffer, IdOf
  <2> QED
    BY <1>3, <2>1, <2>2
<1>6. CASE Honest
  <2>1. q \in PendingRequests
    BY <1>3, <1>6 DEF AnswerInv, AnsweredOnce, Due
  <2> QED
    BY <1>2, <1>3, <2>1, PendingFacts
<1> QED
  BY <1>5, <1>6

(* A response that is delivered, as a whole or in part. *)
LEMMA AnswerDelivered ==
    ASSUME HeldInv, AnswerInv, [Next]_vars, NEW K, Decodes(K), K \subseteq {"single", "batch"},
           NEW outs, outs = Head(wire).outputs, AnswerWith(outs), UNCHANGED <<sent, owed>>,
           task' = "running" => PendingRequests \ Answered(outs) \subseteq PendingRequests',
           \A r \in Request : status'[r] = "answered" =>
              status[r] = "answered" \/ (r \in Answered(outs) /\ status[r] = "waiting")
    PROVE  AnswerInv'
<1>1. /\ wire # <<>> /\ wire \in Seq(WireMessage) /\ wire' = Tail(wire) /\ task = "running"
      /\ Head(wire) = wire[1] /\ Len(wire) \in Nat \ {0} /\ Head(wire).kind \in K
  BY DecodesType DEF Decodes
<1>2. 1 \in Responses /\ outs = wire[1].outputs
  <2>1. 1 \in 1 .. Len(wire)
    BY <1>1
  <2>2. wire[1].kind \in {"single", "batch"} /\ outs = wire[1].outputs
    BY <1>1, Zenon
  <2> QED
    BY <2>1, <2>2 DEF Responses
<1>3. \A n \in Responses' : n + 1 \in Responses /\ wire'[n] = wire[n + 1] /\ n + 1 # 1 /\ n \in Nat
  BY <1>1, TailType DEF Responses
<1>4. ASSUME IdsDiffer \/ Honest, NEW r \in Answered(outs)
      PROVE  /\ r \in PendingRequests
             /\ \E i \in DOMAIN outs : outs[i].id = IdOf(r)
             /\ \A i \in DOMAIN outs : outs[i].id = IdOf(r) => outs[i].value = r
  <2>1. r \in PendingRequests /\ IdOf(r) \in OutputIds(outs)
    BY RespondFacts
  <2>2. \E i \in DOMAIN outs : outs[i].id = IdOf(r)
    BY <2>1 DEF OutputIds
  <2> QED
    BY <1>1, <1>2, <1>4, <2>1, <2>2, OwnOutput
<1>5. \A o : From(o) => From(o)'
  BY IdsGrow DEF From
<1>6. Labelled'
  BY <1>3, <1>5 DEF AnswerInv, Labelled
<1>7. ASSUME Honest PROVE AnsweredOnce'
  <2>1. AnsweredOnce
    BY <1>7 DEF AnswerInv
  <2>2. ASSUME NEW n \in Responses', NEW i \in DOMAIN wire'[n].outputs,
               NEW r, r = wire'[n].outputs[i].value
        PROVE  Due(r)'
    <3>1. i \in DOMAIN wire[n + 1].outputs
      BY <1>3
    <3>2. Due(r) /\ r = wire[n + 1].outputs[i].value /\ i \in DOMAIN wire[n + 1].outputs
      BY <1>3, <2>1, <2>2, <3>1 DEF AnsweredOnce
    <3>3. r \notin Answered(outs)
      <4> SUFFICES ASSUME r \in Answered(outs) PROVE FALSE
        OBVIOUS
      <4>1. PICK j \in DOMAIN outs : outs[j].value = r
        BY <1>4, <1>7
      <4>2. 1 = n + 1
        BY <1>2, <1>3, <2>1, <3>2, <4>1 DEF AnsweredOnce
      <4> QED
        BY <1>3, <4>2
    <3> QED
      BY <1>1, <3>2, <3>3 DEF Due
  <2>3. (\A m, n \in Responses : \A i \in DOMAIN wire[m].outputs, j \in DOMAIN wire[n].outputs :
          wire[m].outputs[i].value = wire[n].outputs[j].value => m = n)'
    <3> SUFFICES ASSUME NEW m \in Responses', NEW n \in Responses',
                        NEW i \in DOMAIN wire'[m].outputs, NEW j \in DOMAIN wire'[n].outputs,
                        wire'[m].outputs[i].value = wire'[n].outputs[j].value
                 PROVE  m = n
      OBVIOUS
    <3>1. m + 1 = n + 1
      BY <1>3, <2>1 DEF AnsweredOnce
    <3> QED
      BY <1>3, <3>1
  <2>4. ASSUME NEW c \in owed', task' = "running" PROVE SentOf(c)' \subseteq PendingRequests'
    <3>1. SentOf(c)' = SentOf(c) /\ c \in owed
      BY DEF SentOf
    <3>2. ASSUME NEW r \in SentOf(c) PROVE r \in PendingRequests'
      <4>1. r \in PendingRequests /\ r[1] \in owed
        BY <1>1, <2>1, <3>1, <3>2 DEF AnsweredOnce, SentOf
      <4>2. r \notin Answered(outs)
        <5> SUFFICES ASSUME r \in Answered(outs) PROVE FALSE
          OBVIOUS
        <5>1. PICK j \in DOMAIN outs : outs[j].value = r
          BY <1>4, <1>7
        <5> QED
          BY <1>2, <2>1, <4>1, <5>1 DEF AnsweredOnce, Due
      <4> QED
        BY <2>4, <4>1, <4>2
    <3> QED
      BY <3>1, <3>2
  <2>5. (\A n \in Responses : \A i \in DOMAIN wire[n].outputs : Due(wire[n].outputs[i].value))'
    <3>1. \A r : Due(r)' <=>
                    /\ r \in sent' /\ r[1] \notin owed'
                    /\ task' = "running" => r \in PendingRequests'
      BY DEF Due
    <3>2. \A n \in Responses' : \A i \in DOMAIN wire'[n].outputs : \A r :
            r = wire'[n].outputs[i].value =>
                    /\ r \in sent' /\ r[1] \notin owed'
                    /\ task' = "running" => r \in PendingRequests'
      BY <2>2, <3>1
    <3> QED
      BY <3>2 DEF Due
  <2>6. (\A c \in owed : task = "running" => SentOf(c) \subseteq PendingRequests)'
    BY <2>4
  <2> QED
    BY <2>3, <2>5, <2>6 DEF AnsweredOnce
<1>8. ASSUME IdsDiffer' \/ Honest PROVE OwnAnswer'
  <2>1. OwnAnswer /\ (IdsDiffer \/ Honest)
    BY <1>8, IdsGrow DEF AnswerInv
  <2> SUFFICES ASSUME NEW r \in Request, status'[r] = "answered" PROVE answer'[r] = r
    BY DEF OwnAnswer
  <2>2. CASE status[r] = "answered"
    BY <2>1, <2>2 DEF OwnAnswer, AnswerWith
  <2>3. CASE r \in Answered(outs) /\ status[r] = "waiting"
    <3>1. answer'[r] = outs[CHOOSE i \in DOMAIN outs : outs[i].id = IdOf(r)].value
      BY <2>3 DEF AnswerWith
    <3>2. /\ \E i \in DOMAIN outs : outs[i].id = IdOf(r)
          /\ \A i \in DOMAIN outs : outs[i].id = IdOf(r) => outs[i].value = r
      BY <1>4, <2>1, <2>3
    <3> QED
      BY <3>1, <3>2
  <2> QED
    BY <2>2, <2>3
<1>9. Honest' <=> Honest
  BY DEF Honest
<1> QED
  BY <1>6, <1>7, <1>8, <1>9 DEF AnswerInv

(* A response of the peer enters the wire; everything before it stays. *)
LEMMA ResponseAppends ==
    ASSUME HeldInv, NEW m \in WireMessage, PeerSends(m), m.kind \in {"single", "batch"}
    PROVE  /\ Responses' = Responses \cup {Len(wire) + 1}
           /\ wire'[Len(wire) + 1] = m
           /\ \A n \in Responses : wire'[n] = wire[n]
<1>1. /\ Len(wire) \in Nat /\ Len(wire') = Len(wire) + 1 /\ wire'[Len(wire) + 1] = m
      /\ \A n \in 1 .. Len(wire) : wire'[n] = wire[n]
  BY PeerAppends
<1>2. \A n \in 1 .. Len(wire') : n \in 1 .. Len(wire) \/ n = Len(wire) + 1
  BY <1>1
<1>3. Len(wire) + 1 \in 1 .. Len(wire') /\ \A n \in 1 .. Len(wire) : n \in 1 .. Len(wire')
  BY <1>1
<1> QED
  BY <1>1, <1>2, <1>3 DEF Responses

(* An answer is labelled, and the only one to the requests of its call. *)
LEMMA AnswerPeerAnswers ==
    ASSUME HeldInv, AnswerInv, [Next]_vars, NEW c \in Call, PeerAnswers(c)
    PROVE  AnswerInv'
<1>1. /\ UNCHANGED <<ids, status, answer, pending, task, sent>> /\ owed' = owed \ {c}
      /\ PendingRequests' = PendingRequests /\ c \in owed
      /\ \A d : SentOf(d)' = SentOf(d)
  BY DEF PeerAnswers, callVars, taskVars, PendingRequests, SentOf
<1>2. PICK m : /\ PeerSends(m) /\ m.kind \in {"single", "batch"} /\ m \in WireMessage
               /\ \A i \in DOMAIN m.outputs : \E r \in SentOf(c) : m.outputs[i] = OutputOf(r)
  BY PeerAnswersFacts
<1>3. PICK last : /\ Responses' = Responses \cup {last} /\ wire'[last] = m
                  /\ \A n \in Responses : wire'[n] = wire[n]
  BY <1>2, ResponseAppends
<1>4. ASSUME NEW i \in DOMAIN m.outputs
      PROVE  From(m.outputs[i]) /\ m.outputs[i].value \in SentOf(c) /\ m.outputs[i].value[1] = c
  <2>1. PICK r \in SentOf(c) : m.outputs[i] = OutputOf(r)
    BY <1>2
  <2> QED
    BY <2>1, OutputFacts DEF SentOf, From
<1>5. \A o : From(o) => From(o)'
  BY <1>1, IdsGrow DEF From
<1>6. Labelled'
  BY <1>3, <1>4, <1>5 DEF AnswerInv, Labelled
<1>7. ASSUME Honest PROVE AnsweredOnce'
  <2>1. AnsweredOnce
    BY <1>7 DEF AnswerInv
  <2>2. \A r : Due(r) \/ r \in SentOf(c) => Due(r)'
    BY <1>1, <2>1 DEF AnsweredOnce, Due, SentOf
  <2>3. (\A n \in Responses : \A i \in DOMAIN wire[n].outputs : Due(wire[n].outputs[i].value))'
    BY <1>3, <1>4, <2>1, <2>2 DEF AnsweredOnce
  <2>4. \A n \in Responses : \A i \in DOMAIN wire[n].outputs : wire[n].outputs[i].value[1] # c
    BY <1>1, <2>1 DEF AnsweredOnce, Due
  <2>5. (\A l, n \in Responses : \A i \in DOMAIN wire[l].outputs, j \in DOMAIN wire[n].outputs :
          wire[l].outputs[i].value = wire[n].outputs[j].value => l = n)'
    BY <1>3, <1>4, <2>1, <2>4 DEF AnsweredOnce
  <2>6. (\A d \in owed : task = "running" => SentOf(d) \subseteq PendingRequests)'
    BY <1>1, <2>1 DEF AnsweredOnce
  <2> QED
    BY <2>3, <2>5, <2>6 DEF AnsweredOnce
<1>8. ASSUME IdsDiffer' \/ Honest PROVE OwnAnswer'
  BY <1>1, <1>8, IdsGrow DEF AnswerInv, OwnAnswer
<1>9. Honest' <=> Honest
  BY DEF Honest
<1> QED
  BY <1>6, <1>7, <1>8, <1>9 DEF AnswerInv

(* What a peer makes up is labelled as well. *)
LEMMA AnswerPeerMisanswers ==
    ASSUME HeldInv, AnswerInv, [Next]_vars, PeerMisanswers
    PROVE  AnswerInv'
<1>1. UNCHANGED <<ids, status, answer, sent>> /\ ~Honest
  BY DEF PeerMisanswers, callVars, Honest
<1>2. PICK m : /\ PeerSends(m) /\ m.kind \in {"single", "batch"} /\ m \in WireMessage
               /\ \A i \in DOMAIN m.outputs :
                     \E r \in sent \cup {NoRequest} : m.outputs[i] = OutputOf(r)
  BY PeerMisanswersFacts
<1>3. PICK last : /\ Responses' = Responses \cup {last} /\ wire'[last] = m
                  /\ \A n \in Responses : wire'[n] = wire[n]
  BY <1>2, ResponseAppends
<1>4. \A o : From(o) => From(o)'
  BY <1>1, IdsGrow DEF From
<1>5. Labelled'
  BY <1>2, <1>3, <1>4 DEF AnswerInv, Labelled, From
<1>6. ASSUME IdsDiffer' PROVE OwnAnswer'
  BY <1>1, <1>6, IdsGrow DEF AnswerInv, OwnAnswer
<1>7. Honest' <=> Honest
  BY DEF Honest
<1> QED
  BY <1>1, <1>5, <1>6, <1>7 DEF AnswerInv

(* Steps that write nothing, and of the wire at most take or add a message
   that is no response. *)
LEMMA AnswerStill ==
    ASSUME HeldInv, AnswerInv, [Next]_vars, UNCHANGED <<sent, owed>>,
           \/ wire' = wire
           \/ wire # <<>> /\ wire' = Tail(wire)
           \/ \E m \in WireMessage : PeerSends(m) /\ m.kind \notin {"single", "batch"},
           task' = "running" => task = "running" /\ PendingRequests \subseteq PendingRequests',
           \A r \in Request : status'[r] = "answered" => status[r] = "answered" /\ answer'[r] = answer[r]
    PROVE  AnswerInv'
<1>1. wire \in Seq(WireMessage) /\ Len(wire) \in Nat
  BY DEF HeldInv, IpcInv, TypeOK, PeerTypesOK
<1>2. ASSUME wire' = wire
      PROVE  \A n \in Responses' : n + 0 \in Responses /\ wire'[n] = wire[n + 0]
  BY <1>1, <1>2 DEF Responses
<1>3. ASSUME wire # <<>>, wire' = Tail(wire)
      PROVE  \A n \in Responses' : n + 1 \in Responses /\ wire'[n] = wire[n + 1]
  BY <1>1, <1>3, TailType DEF Responses
<1>4. ASSUME NEW m \in WireMessage, PeerSends(m), m.kind \notin {"single", "batch"}
      PROVE  \A n \in Responses' : n + 0 \in Responses /\ wire'[n] = wire[n + 0]
  <2>1. /\ Len(wire') = Len(wire) + 1 /\ wire'[Len(wire) + 1] = m
        /\ \A n \in 1 .. Len(wire) : wire'[n] = wire[n]
    BY <1>1, <1>4, PeerAppends
  <2>2. \A n \in 1 .. Len(wire') : n \in 1 .. Len(wire) \/ n = Len(wire) + 1
    BY <1>1, <2>1
  <2> QED
    BY <1>1, <1>4, <2>1, <2>2 DEF Responses
<1>5. ASSUME NEW d \in {0, 1}, \A n \in Responses' : n + d \in Responses /\ wire'[n] = wire[n + d]
      PROVE  AnswerInv'
  <2>1. CASE Honest /\ task' = "running"
    <3>1. \A c \in owed' : SentOf(c)' \subseteq PendingRequests'
      BY <2>1 DEF AnswerInv, AnsweredOnce, SentOf
    <3> QED
      BY <1>5, <3>1, AnswerFrame
  <2>2. CASE ~Honest
    <3>1. Labelled'
      BY <1>5, IdsGrow DEF AnswerInv, Labelled, From
    <3>2. ASSUME IdsDiffer' PROVE OwnAnswer'
      BY <3>2, IdsGrow DEF AnswerInv, OwnAnswer
    <3> QED
      BY <2>2, <3>1, <3>2 DEF AnswerInv, Honest
  <2>3. CASE task' # "running"
    BY <1>5, <2>3, AnswerFrame
  <2> QED
    BY <2>1, <2>2, <2>3
<1> QED
  BY <1>2, <1>3, <1>4, <1>5

LEMMA AnswerCallerStep ==
    ASSUME HeldInv, AnswerInv, CallerStep
    PROVE  AnswerInv'
<1>1. /\ [Next]_vars /\ PendingRequests' = PendingRequests
      /\ UNCHANGED <<pending, task, sent, owed, wire, answer>>
  BY DEF Next, CallerStep, Prepare, Send, Cancel, Subscribe, Poll, Drop, DropHandles,
         callVars, taskVars, peerVars, PendingRequests
<1>2. \A r \in Request : status'[r] = "answered" => status[r] = "answered"
  BY DEF CallerStep, Prepare, Send, Cancel, Subscribe, Poll, Drop, DropHandles, callVars, Settled
<1> QED
  BY <1>1, <1>2, AnswerStill

(* What is written was not owed before, and is pending. *)
LEMMA AnswerWriteAll ==
    ASSUME HeldInv, BatchInv, AnswerInv, WriteAll
    PROVE  AnswerInv'
<1>1. /\ [Next]_vars /\ UNCHANGED <<status, answer, pending, task, wire>> /\ writing # NoCall
      /\ sent' = sent \cup {pending[i] : i \in AcceptedIds(writing)}
      /\ owed' = owed \cup {writing} /\ PendingRequests' = PendingRequests
  BY DEF Next, TaskStep, WriteAll, callVars, PendingRequests
<1>2. \A i \in AcceptedIds(writing) : pending[i] \in PendingRequests
  BY PendingFacts DEF AcceptedIds
<1>3. \A r \in sent : r[1] # writing
  BY DEF BatchInv, Written
<1>4. \A n \in Responses' : n + 0 \in Responses /\ wire'[n] = wire[n + 0]
  BY <1>1 DEF Responses, HeldInv, IpcInv, TypeOK, PeerTypesOK
<1>5. CASE Honest /\ task' = "running"
  <2>1. ASSUME NEW c \in owed', NEW r \in sent', r[1] = c PROVE r \in PendingRequests'
    <3>1. CASE r \in sent
      BY <1>1, <1>3, <1>5, <2>1, <3>1 DEF AnswerInv, AnsweredOnce, SentOf
    <3> QED
      BY <1>1, <1>2, <2>1, <3>1
  <2>2. \A c \in owed' : SentOf(c)' \subseteq PendingRequests'
    BY <2>1 DEF SentOf
  <2> QED
    BY <1>1, <1>3, <1>4, <1>5, <2>2, AnswerFrame
<1>6. CASE ~Honest
  <2>1. Labelled'
    BY <1>1, <1>4, IdsGrow DEF AnswerInv, Labelled, From
  <2>2. ASSUME IdsDiffer' PROVE OwnAnswer'
    BY <1>1, <2>2, IdsGrow DEF AnswerInv, OwnAnswer
  <2> QED
    BY <1>6, <2>1, <2>2 DEF AnswerInv, Honest
<1>7. task = "running"
  BY <1>1 DEF HeldInv, IpcInv, Ownership
<1> QED
  BY <1>1, <1>5, <1>6, <1>7

LEMMA AnswerTaskStep ==
    ASSUME HeldInv, BatchInv, AnswerInv, TaskStep
    PROVE  AnswerInv'
<1>1. [Next]_vars
  BY DEF Next
<1>2. ASSUME UNCHANGED <<status, answer, pending, task, sent, owed>>,
             wire' = wire \/ (wire # <<>> /\ wire' = Tail(wire))
      PROVE  AnswerInv'
  <2>1. PendingRequests' = PendingRequests
    BY <1>2 DEF PendingRequests
  <2> QED
    BY <1>1, <1>2, <2>1, AnswerStill
<1>3. ASSUME NEW c \in Call, Take(c) PROVE AnswerInv'
  <2>1. UNCHANGED <<answer, wire>>
    BY <1>3 DEF Take, peerVars
  <2>2. /\ UNCHANGED <<task, sent, owed>> /\ PendingRequests \subseteq PendingRequests'
        /\ \A r \in Request : status'[r] = "answered" => status[r] = "answered"
    BY <1>3, TakeFacts
  <2> QED
    BY <1>1, <2>1, <2>2, AnswerStill
<1>4. ASSUME NEW h \in Stream, TakeSubscribe(h) PROVE AnswerInv'
  BY <1>2, <1>4 DEF TakeSubscribe, callVars, peerVars
<1>5. ASSUME NEW s \in SubId, TakeUnsubscribe(s) PROVE AnswerInv'
  BY <1>2, <1>5 DEF TakeUnsubscribe, callVars, peerVars
<1>6. ASSUME NEW n \in 1 .. 2 * WireCap, Read(n) PROVE AnswerInv'
  BY <1>2, <1>6 DEF Read, callVars, peerVars
<1>7. CASE TakeClosed
  BY <1>2, <1>7 DEF TakeClosed, callVars, peerVars
<1>8. CASE Notify \/ Ignore
  <2>1. wire # <<>> /\ wire' = Tail(wire)
    BY <1>8, DecodesType DEF Notify, Ignore, Decodes
  <2> QED
    BY <1>2, <1>8, <2>1 DEF Notify, Ignore, callVars
<1>9. ASSUME LeaveLoop, UNCHANGED <<answer, sent, owed>>,
             wire' = wire \/ (wire # <<>> /\ wire' = Tail(wire)),
             status' = status \/ status' = Settled(PendingRequests, "failed")
      PROVE  AnswerInv'
  <2>1. task' # "running" /\ \A r \in Request : status'[r] = "answered" => status[r] = "answered"
    BY <1>9 DEF LeaveLoop, Settled
  <2> QED
    BY <1>1, <1>9, <2>1, AnswerStill
<1>10. CASE Leave
  BY <1>9, <1>10 DEF Leave, callVars, peerVars
<1>11. CASE WriteFails \/ ReadFails
  BY <1>9, <1>11 DEF WriteFails, ReadFails, FailPending, peerVars
<1>12. CASE Reject
  <2>1. wire # <<>> /\ wire' = Tail(wire)
    BY <1>12, DecodesType DEF Reject, Decodes
  <2> QED
    BY <1>9, <1>12, <2>1 DEF Reject, FailPending
<1>13. CASE Respond
  <2>1. PICK outs : outs = Head(wire).outputs
    OBVIOUS
  <2>2. /\ Decodes({"single", "batch"}) /\ AnswerWith(outs) /\ UNCHANGED <<sent, owed>>
        /\ pending' = Restrict(pending, DOMAIN pending \ OutputIds(outs))
        /\ status' = Settled(Answered(outs), "answered")
    BY <1>13, <2>1 DEF Respond
  <2>3. \A r \in PendingRequests \ Answered(outs) : IdOf(r) \in DOMAIN pending' /\ pending'[IdOf(r)] = r
    BY <2>2, PendingFacts, RespondFacts DEF Restrict
  <2>4. PendingRequests \ Answered(outs) \subseteq PendingRequests'
    BY <2>3 DEF PendingRequests, Range
  <2>5. \A r \in Request : status'[r] = "answered" =>
           status[r] = "answered" \/ (r \in Answered(outs) /\ status[r] = "waiting")
    BY <2>2 DEF Settled
  <2> QED
    BY <1>1, <2>1, <2>2, <2>4, <2>5, AnswerDelivered
<1>14. CASE RespondPartly
  <2>1. PICK outs : outs = Head(wire).outputs
    OBVIOUS
  <2>2. /\ Decodes({"batch"}) /\ AnswerWith(outs) /\ UNCHANGED <<sent, owed>> /\ task' # "running"
        /\ status' = [r \in Request |->
                         IF r \in PendingRequests \ Answered(outs)
                           THEN Settled(PendingRequests, "failed")[r]
                           ELSE Settled(Answered(outs), "answered")[r]]
    BY <1>14, <2>1 DEF RespondPartly, LeaveLoop
  <2>3. \A r \in Request : status'[r] = "answered" =>
           status[r] = "answered" \/ (r \in Answered(outs) /\ status[r] = "waiting")
    BY <2>2 DEF Settled
  <2> QED
    BY <1>1, <2>1, <2>2, <2>3, AnswerDelivered
<1>15. CASE Finish
  <2>1. /\ UNCHANGED <<answer, sent, owed, wire>> /\ task' # "running"
        /\ \A r \in Request : status'[r] = "answered" => status[r] = "answered"
    BY <1>15 DEF Finish, Settled, peerVars
  <2> QED
    BY <1>1, <2>1, AnswerStill
<1> QED
  BY <1>3, <1>4, <1>5, <1>6, <1>7, <1>8, <1>10, <1>11, <1>12, <1>13, <1>14, <1>15, AnswerWriteAll
  DEF TaskStep

LEMMA AnswerPeerStep ==
    ASSUME HeldInv, AnswerInv, PeerStep
    PROVE  AnswerInv'
<1>1. [Next]_vars
  BY DEF Next
<1>2. ASSUME UNCHANGED <<callVars, taskVars, sent, owed>>,
             wire' = wire \/ \E m \in WireMessage : PeerSends(m) /\ m.kind \notin {"single", "batch"}
      PROVE  AnswerInv'
  <2>1. UNCHANGED <<status, answer, pending, task>> /\ PendingRequests' = PendingRequests
    BY <1>2 DEF callVars, taskVars, PendingRequests
  <2> QED
    BY <1>1, <1>2, <2>1, AnswerStill
<1>3. ASSUME NEW s \in SubId, PeerNotifies(s) PROVE AnswerInv'
  <2>1. emitted[s] + 1 \in Nat
    BY DEF HeldInv, IpcInv, TypeOK, SubTypesOK
  <2>2. /\ NotificationMsg(s, emitted[s] + 1) \in WireMessage
        /\ NotificationMsg(s, emitted[s] + 1).kind \notin {"single", "batch"}
    BY <2>1 DEF NotificationMsg, WireMessage
  <2> QED
    BY <1>2, <1>3, <2>2 DEF PeerNotifies
<1>4. CASE PeerSendsOdd
  <2>1. PICK kind \in PeerFaults \cap {"malformed", "ignored"} : PeerSends(OddMsg(kind))
    BY <1>4 DEF PeerSendsOdd
  <2>2. OddMsg(kind) \in WireMessage /\ OddMsg(kind).kind \notin {"single", "batch"}
    BY DEF OddMsg, WireMessage
  <2> QED
    BY <1>2, <1>4, <2>1, <2>2 DEF PeerSendsOdd
<1>5. CASE PeerEnds \/ PeerOverflows \/ Break
  BY <1>2, <1>5 DEF PeerEnds, PeerOverflows, Break
<1> QED
  BY <1>1, <1>3, <1>4, <1>5, AnswerPeerAnswers, AnswerPeerMisanswers DEF PeerStep

LEMMA AnswerInvHolds == Spec => []AnswerInv
<1>1. Init => AnswerInv
  BY DEF Init, AnswerInv, Labelled, AnsweredOnce, Responses, OwnAnswer
<1>2. HeldInv /\ BatchInv /\ AnswerInv /\ [Next]_vars => AnswerInv'
  <2> SUFFICES ASSUME HeldInv, BatchInv, AnswerInv, [Next]_vars PROVE AnswerInv'
    OBVIOUS
  <2>1. CASE UNCHANGED vars
    <3>1. /\ UNCHANGED <<status, answer, pending, task, sent, owed, wire>>
          /\ PendingRequests' = PendingRequests
      BY <2>1 DEF vars, callVars, taskVars, peerVars, PendingRequests
    <3> QED
      BY <3>1, AnswerStill
  <2> QED
    BY <2>1, AnswerCallerStep, AnswerTaskStep, AnswerPeerStep DEF Next
<1> QED
  BY <1>1, <1>2, HeldInvHolds, BatchInvHolds, PTL DEF Spec

(* A request that is answered gets its own result: as long as no id was
   handed out twice, whatever the peer sends, splits or joins; and even with a
   saturated counter if the peer answers each call once. *)
THEOREM AnswersAreOwn == Spec => [](IdsDiffer \/ Honest => OwnAnswer)
<1>1. AnswerInv => (IdsDiffer \/ Honest => OwnAnswer)
  BY DEF AnswerInv
<1> QED
  BY <1>1, AnswerInvHolds, PTL

(* next_request_id repeats an id only once the counter has reached MaxId. *)
IdsBelow == counter < MaxId => /\ IdsDiffer
                               /\ \A c \in Call : \A i \in 1 .. Len(ids[c]) : ids[c][i] < counter

LEMMA IdsBelowNext ==
    ASSUME HeldInv, IdsBelow, [Next]_vars
    PROVE  IdsBelow'
<1>1. UNCHANGED <<counter, ids>> \/ \E c \in Call : Prepare(c)
  BY DEF Next, CallerStep, TaskStep, PeerStep, Send, Cancel, Subscribe, Poll, Drop, DropHandles, Take,
         TakeSubscribe, TakeUnsubscribe, TakeClosed, Leave, WriteAll, WriteFails, Read, ReadFails,
         Respond, RespondPartly, Reject, Notify, Ignore, Finish, PeerAnswers, PeerNotifies,
         PeerMisanswers, PeerSendsOdd, PeerEnds, PeerOverflows, Break, vars, callVars
<1>2. CASE UNCHANGED <<counter, ids>>
  BY <1>2 DEF IdsBelow, IdsDiffer
<1>3. ASSUME NEW c \in Call, Prepare(c), counter' < MaxId PROVE IdsBelow'
  <2>1. counter \in Nat /\ MaxId \in Nat /\ counter <= MaxId
    BY ConstantsAssumption DEF HeldInv, IpcInv, TypeOK, CallTypesOK, Id
  <2>2. counter < MaxId /\ counter' = counter + 1
    BY <1>3, <2>1 DEF Prepare, Successor
  <2>3. /\ ids[c] \in Seq(Id) /\ ids' = [ids EXCEPT ![c] = Append(ids[c], counter)]
        /\ ids \in [Call -> Seq(Id)] /\ Len(ids[c]) \in Nat
    BY <1>3 DEF HeldInv, IpcInv, TypeOK, CallTypesOK, Prepare
  <2>4. /\ Len(ids'[c]) = Len(ids[c]) + 1 /\ ids'[c][Len(ids[c]) + 1] = counter
        /\ \A i \in 1 .. Len(ids[c]) : ids'[c][i] = ids[c][i]
        /\ \A d \in Call : d # c => ids'[d] = ids[d]
    BY <2>3
  <2>5. \A d \in Call : \A i \in 1 .. Len(ids'[d]) :
          \/ i \in 1 .. Len(ids[d]) /\ ids'[d][i] = ids[d][i]
          \/ d = c /\ i = Len(ids[c]) + 1 /\ ids'[d][i] = counter
    BY <2>3, <2>4
  <2>6. \A d \in Call : \A i \in 1 .. Len(ids[d]) : ids[d][i] \in Nat /\ ids[d][i] < counter
    <3> SUFFICES ASSUME NEW d \in Call, NEW i \in 1 .. Len(ids[d])
                 PROVE  ids[d][i] \in Nat /\ ids[d][i] < counter
      OBVIOUS
    <3>1. ids[d] \in Seq(Id)
      BY <2>3
    <3>2. ids[d][i] \in Id
      BY <3>1
    <3> QED
      BY <2>2, <3>2 DEF IdsBelow, Id
  <2>7. IdsDiffer'
    <3> SUFFICES ASSUME NEW d \in Call, NEW e \in Call, NEW i \in 1 .. Len(ids'[d]),
                        NEW j \in 1 .. Len(ids'[e]), ids'[d][i] = ids'[e][j]
                 PROVE  d = e /\ i = j
      BY DEF IdsDiffer
    <3>1. /\ \/ i \in 1 .. Len(ids[d]) /\ ids'[d][i] = ids[d][i]
             \/ d = c /\ i = Len(ids[c]) + 1 /\ ids'[d][i] = counter
          /\ \/ j \in 1 .. Len(ids[e]) /\ ids'[e][j] = ids[e][j]
             \/ e = c /\ j = Len(ids[c]) + 1 /\ ids'[e][j] = counter
      BY <2>5
    <3>2. /\ i \in 1 .. Len(ids[d]) => ids[d][i] \in Nat /\ ids[d][i] < counter
          /\ j \in 1 .. Len(ids[e]) => ids[e][j] \in Nat /\ ids[e][j] < counter
      BY <2>6
    <3>3. ASSUME i \in 1 .. Len(ids[d]), j \in 1 .. Len(ids[e]), ids[d][i] = ids[e][j]
          PROVE  d = e /\ i = j
      BY <2>2, <3>3 DEF IdsBelow, IdsDiffer
    <3> QED
      BY <2>1, <3>1, <3>2, <3>3
  <2>8. (\A d \in Call : \A i \in 1 .. Len(ids[d]) : ids[d][i] < counter)'
    BY <2>1, <2>2, <2>5, <2>6
  <2> QED
    BY <2>7, <2>8 DEF IdsBelow
<1>4. ASSUME ~(counter' < MaxId) PROVE IdsBelow'
  BY <1>4 DEF IdsBelow
<1> QED
  BY <1>1, <1>2, <1>3, <1>4

LEMMA IdsBelowHolds == Spec => []IdsBelow
<1>1. Init => IdsBelow
  BY DEF Init, IdsBelow, IdsDiffer
<1>2. HeldInv /\ IdsBelow /\ [Next]_vars => IdsBelow'
  BY IdsBelowNext
<1> QED
  BY <1>1, <1>2, HeldInvHolds, PTL DEF Spec

(* Until MaxId requests were prepared, no peer can make the task resolve a
   request with another request's result. *)
THEOREM AnswersAreOwnBelowMaxId == Spec => [](counter < MaxId => OwnAnswer)
<1>1. IdsBelow /\ AnswerInv => (counter < MaxId => OwnAnswer)
  BY DEF AnswerInv, IdsBelow
<1> QED
  BY <1>1, AnswerInvHolds, IdsBelowHolds, PTL

-----------------------------------------------------------------------------
(* The refinement, request by request. *)

LEMMA PromisedIsStatus ==
    ASSUME TypeOK, OwnAnswer PROVE [r \in Request |-> Promised(r)] = status
BY DEF TypeOK, CallTypesOK, OwnAnswer, Promised

LEMMA PromisedIsStatusNext ==
    ASSUME TypeOK', OwnAnswer' PROVE [r \in Request |-> Promised(r)]' = status'
BY DEF TypeOK, CallTypesOK, OwnAnswer, Promised

(* A step that writes nothing and only ends waiting requests, each the way its
   having been written allows. *)
LEMMA ResolveRefines ==
    ASSUME TypeOK, TypeOK', OwnAnswer, OwnAnswer', sent' = sent,
           \A r \in Request : status'[r] # status[r] =>
              /\ status[r] = "waiting"
              /\ \/ status'[r] \in {"failed", "cancelled"}
                 \/ r \in sent /\ status'[r] = "answered"
                 \/ r \notin sent /\ status'[r] = "unsent"
    PROVE  Client!Next
<1>1. status' \in [Request -> Client!Status] /\ DOMAIN status = Request
  BY DEF TypeOK, CallTypesOK, Status, Client!Status
<1>2. \A r \in Request : status'[r] # status[r]
                     => status[r] = "waiting" /\ status'[r] \in Client!Outcome(r)
  BY DEF Client!Outcome
<1>3. Client!Resolve
  BY <1>1, <1>2, PromisedIsStatus, PromisedIsStatusNext DEF Client!Resolve
<1> QED
  BY <1>3 DEF Client!Next

LEMMA CallerRefines ==
    ASSUME HeldInv, HeldInv', OwnAnswer, OwnAnswer', CallerStep
    PROVE  Client!Next
<1> USE DEF HeldInv, IpcInv
<1>1. ASSUME NEW c \in Call, Send(c) PROVE Client!Next
  <2>1. PICK R : R = RequestsOf({c})
    OBVIOUS
  <2>2. /\ \A r \in R : status[r] = "idle"
        /\ R \in SUBSET Request /\ sent' = sent
        /\ \A r \in Request : r \in R <=> r[1] = c
    BY <1>1, <2>1 DEF Send, Issued, RequestsOf, peerVars
  <2>3. \E s \in {"waiting", "unsent"} :
          status' = [r \in Request |-> IF r \in R THEN s ELSE status[r]]
    <3>1. CASE Accepts
      BY <1>1, <2>2, <3>1 DEF Send
    <3>2. CASE ~Accepts
      BY <1>1, <2>2, <3>2 DEF Send
    <3> QED
      BY <3>1, <3>2
  <2>4. Client!Issue(R)
    BY <2>2, <2>3, PromisedIsStatus, PromisedIsStatusNext DEF Client!Issue
  <2> QED
    BY <2>2, <2>4 DEF Client!Next
<1>2. ASSUME NEW c \in Call, Cancel(c) PROVE Client!Next
  <2>1. /\ sent' = sent
        /\ \A r \in Request : status'[r] # status[r] => status[r] = "waiting" /\ status'[r] = "cancelled"
    BY <1>2 DEF Cancel, Settled, peerVars
  <2> QED
    BY <2>1, ResolveRefines
<1>3. ASSUME UNCHANGED <<status, sent>> PROVE Client!Next
  BY <1>3, ResolveRefines
<1>4. ASSUME NEW c \in Call, Prepare(c) PROVE UNCHANGED <<status, sent>>
  BY <1>4 DEF Prepare, peerVars
<1>5. ASSUME NEW h \in Stream, Subscribe(h) \/ Poll(h) \/ Drop(h) PROVE UNCHANGED <<status, sent>>
  BY <1>5 DEF Subscribe, Poll, Drop, callVars, peerVars
<1>6. ASSUME DropHandles PROVE UNCHANGED <<status, sent>>
  BY <1>6 DEF DropHandles, peerVars
<1> QED
  BY <1>1, <1>2, <1>3, <1>4, <1>5, <1>6 DEF CallerStep

LEMMA TaskRefines ==
    ASSUME HeldInv, HeldInv', Written, OwnAnswer, OwnAnswer', TaskStep
    PROVE  Client!Next
<1> USE DEF HeldInv, IpcInv
<1>1. ASSUME UNCHANGED <<status, sent>> PROVE Client!Next
  BY <1>1, ResolveRefines
<1>2. ASSUME NEW c \in Call, Take(c) PROVE Client!Next
  <2>1. /\ sent' = sent /\ \A r \in sent : r[1] # c
        /\ \A r \in Request : status'[r] = IF r \in Refused(c) /\ status[r] = "waiting"
                                             THEN "unsent" ELSE status[r]
    BY <1>2, TakeFacts
  <2>2. \A r \in Refused(c) : r[1] = c
    BY DEF Refused
  <2> QED
    BY <2>1, <2>2, ResolveRefines
<1>3. CASE WriteAll
  <2>1. PICK R : R = {pending[i] : i \in AcceptedIds(writing)}
    OBVIOUS
  <2>2. sent' = sent \cup R /\ status' = status
    BY <1>3, <2>1 DEF WriteAll, callVars
  <2>3. \A r \in R : r \in PendingRequests /\ r \in Request /\ r[1] = writing
    BY <2>1, PendingFacts DEF AcceptedIds
  <2>4. \A r \in R : status[r] \in {"waiting", "cancelled"} /\ r \notin sent
    BY <2>3, PendingFacts DEF Written
  <2>5. Client!Execute(R)
    BY <2>2, <2>4, PromisedIsStatus, PromisedIsStatusNext DEF Client!Execute
  <2>6. R \in SUBSET Request
    BY <2>3
  <2> QED
    BY <2>5, <2>6 DEF Client!Next
<1>4. CASE WriteFails \/ ReadFails \/ Reject
  <2>1. /\ sent' = sent
        /\ \A r \in Request : status'[r] # status[r] => status[r] = "waiting" /\ status'[r] = "failed"
    BY <1>4 DEF WriteFails, ReadFails, Reject, FailPending, Settled, peerVars
  <2> QED
    BY <2>1, ResolveRefines
<1>5. ASSUME NEW K, Decodes(K), NEW outs PROVE \A r \in Answered(outs) : r \in sent
  <2>1. writing = NoCall /\ NoCall \notin Call
    BY <1>5, DecodesType, ConstantsAssumption
  <2> QED
    BY <2>1, RespondFacts, PendingFacts, RequestShape DEF Written
<1>6. CASE Respond
  <2>1. PICK outs : outs = Head(wire).outputs
    OBVIOUS
  <2>2. sent' = sent /\ \A r \in Answered(outs) : r \in sent
    BY <1>5, <1>6 DEF Respond
  <2>3. \A r \in Request : status'[r] # status[r] =>
           status[r] = "waiting" /\ status'[r] = "answered" /\ r \in Answered(outs)
    BY <1>6, <2>1 DEF Respond, Settled
  <2> QED
    BY <2>2, <2>3, ResolveRefines
<1>7. CASE RespondPartly
  <2>1. PICK outs : outs = Head(wire).outputs
    OBVIOUS
  <2>2. sent' = sent /\ \A r \in Answered(outs) : r \in sent
    BY <1>5, <1>7 DEF RespondPartly
  <2>3. \A r \in Request : status'[r] # status[r] =>
           /\ status[r] = "waiting"
           /\ status'[r] = "failed" \/ (status'[r] = "answered" /\ r \in Answered(outs))
    BY <1>7, <2>1 DEF RespondPartly, Settled
  <2> QED
    BY <2>2, <2>3, ResolveRefines
<1>8. CASE Finish
  <2>1. /\ sent' = sent
        /\ \A r \in Request : status'[r] # status[r] => status[r] = "waiting" /\ status'[r] = "failed"
    BY <1>8 DEF Finish, Settled, peerVars
  <2> QED
    BY <2>1, ResolveRefines
<1>9. ASSUME NEW h \in Stream, TakeSubscribe(h) PROVE UNCHANGED <<status, sent>>
  BY <1>9 DEF TakeSubscribe, callVars, peerVars
<1>10. ASSUME NEW s \in SubId, TakeUnsubscribe(s) PROVE UNCHANGED <<status, sent>>
  BY <1>10 DEF TakeUnsubscribe, callVars, peerVars
<1>11. ASSUME NEW n \in 1 .. 2 * WireCap, Read(n) PROVE UNCHANGED <<status, sent>>
  BY <1>11 DEF Read, callVars, peerVars
<1>12. CASE TakeClosed \/ Leave \/ Notify \/ Ignore
  BY <1>1, <1>12 DEF TakeClosed, Leave, Notify, Ignore, callVars, peerVars
<1> QED
  BY <1>1, <1>2, <1>3, <1>4, <1>6, <1>7, <1>8, <1>9, <1>10, <1>11, <1>12 DEF TaskStep

LEMMA StepRefines ==
    ASSUME HeldInv, HeldInv', BatchInv, OwnAnswer, OwnAnswer', [Next]_vars
    PROVE  Client!Next \/ UNCHANGED Client!vars
<1>1. ASSUME UNCHANGED <<status, sent>> PROVE UNCHANGED Client!vars
  BY <1>1, PromisedIsStatus, PromisedIsStatusNext DEF Client!vars, HeldInv, IpcInv
<1>2. CASE PeerStep
  BY <1>1, <1>2
  DEF PeerStep, PeerAnswers, PeerNotifies, PeerMisanswers, PeerSendsOdd, PeerEnds, PeerOverflows, Break, callVars
<1>3. UNCHANGED vars => UNCHANGED <<status, sent>>
  BY DEF vars, callVars, peerVars
<1> QED
  BY <1>1, <1>2, <1>3, CallerRefines, TaskRefines DEF Next, BatchInv

(* The IPC transport implements the promise of RpcClient, request by request,
   for every execution that prepares fewer than MaxId requests, and for every
   execution with a peer that answers each call once. *)
THEOREM ImplementsRpcClient == Spec /\ [](counter < MaxId \/ Honest) => ClientSpec
<1>1. Init /\ TypeOK /\ OwnAnswer => Client!Init
  BY PromisedIsStatus DEF Init, Client!Init
<1>2. HeldInv /\ AnswerInv /\ IdsBelow /\ (counter < MaxId \/ Honest) => TypeOK /\ OwnAnswer
  BY DEF HeldInv, IpcInv, AnswerInv, IdsBelow
<1>3. HeldInv /\ HeldInv' /\ BatchInv /\ OwnAnswer /\ OwnAnswer' /\ [Next]_vars
        => [Client!Next]_(Client!vars)
  BY StepRefines
<1> QED
  BY <1>1, <1>2, <1>3, HeldInvHolds, BatchInvHolds, AnswerInvHolds, IdsBelowHolds, PTL
  DEF Spec, ClientSpec, Client!Spec
=============================================================================
