--------------------------- MODULE ProviderProofs ---------------------------
(* The EIP-1193 provider: who holds its listeners, what a subscription leaves
   behind, and whose notifications a stream is given, for any number of
   streams, listeners and ids. *)
EXTENDS Provider, TLAPS

Steps == {"idle", "asking", "answered", "open", "leaving", "left", "gone", "failed"}

(* The variables of TypeOK that are no sequences. *)
MapsOK ==
    /\ step \in [Stream -> Steps] /\ id \in [Stream -> SubId \cup {NoId}]
    /\ unsubbed \in SUBSET Stream
    /\ sinks \in [SubId -> Stream \cup {NoStream}]
    /\ panicked \in BOOLEAN /\ handle \in BOOLEAN
    /\ adHoc \in [Listener -> {"none", "open", "closed"}]
    /\ listeners \subseteq Listener \cup {"message"}
    /\ installed \in SUBSET SubId /\ given \in SUBSET SubId

(* A stream that registered or may register has an id. *)
HasId == \A h \in Stream :
            step[h] \in {"answered", "open", "leaving", "left"} => id[h] \in SubId

(* A sink in the map belongs to the stream that has its id and reads it. *)
SinksBelong == \A s \in SubId : sinks[s] # NoStream =>
                  step[sinks[s]] \in {"open", "leaving", "left"} /\ id[sinks[s]] = s

(* Listeners are attached as long as someone holds the transport. *)
Attached ==
    /\ handle \/ Holders # {} => "message" \in listeners
    /\ ~handle /\ Holders = {} => listeners = {} /\ \A a \in Listener : adHoc[a] # "open"

PageInv == MapsOK /\ HasId /\ SinksBelong /\ Attached

LEMMA MapsStep == ASSUME MapsOK, HasId, [Next]_vars PROVE MapsOK' /\ HasId'
<1> USE ProviderAssumption DEF MapsOK, HasId, Steps, Goes
<1>1. ASSUME NEW h \in Stream, Subscribe(h) \/ Register(h) \/ Unsubscribe(h)
      PROVE  MapsOK' /\ HasId'
  BY <1>1 DEF Subscribe, Register, Unsubscribe, pageVars, nodeVars
<1>2. ASSUME NEW h \in Stream, Install(h) PROVE MapsOK' /\ HasId'
  BY <1>2 DEF Install, FreeIds, pageVars
<1>3. ASSUME NEW h \in Stream, SubscribeFails(h) PROVE MapsOK' /\ HasId'
  BY <1>3 DEF SubscribeFails, Release, nodeVars
<1>4. ASSUME NEW h \in Stream, AnswerUnsubscribe(h) PROVE MapsOK' /\ HasId'
  BY <1>4 DEF AnswerUnsubscribe, Remove
<1>5. ASSUME NEW h \in Stream, Drop(h) PROVE MapsOK' /\ HasId'
  BY <1>5 DEF Drop, Release, nodeVars
<1>6. ASSUME NEW a \in Listener, Listen(a) PROVE MapsOK' /\ HasId'
  BY <1>6 DEF Listen, streamVars, nodeVars
<1>7. CASE DropHandle
  BY <1>7 DEF DropHandle, Release, streamVars, nodeVars
<1>8. CASE Message \/ (\E s \in SubId : Emit(s)) \/ UNCHANGED vars
  BY <1>8 DEF Message, Emit, vars, streamVars, pageVars, nodeVars
<1> HIDE DEF MapsOK, HasId
<1> QED
  BY <1>1, <1>2, <1>3, <1>4, <1>5, <1>6, <1>7, <1>8 DEF Next

LEMMA SinksStep ==
    ASSUME MapsOK, HasId, SinksBelong, [Next]_vars PROVE SinksBelong'
<1> USE ProviderAssumption DEF MapsOK, HasId, SinksBelong, Goes
<1>1. ASSUME NEW h \in Stream, Subscribe(h) \/ Unsubscribe(h) \/ SubscribeFails(h)
      PROVE  SinksBelong'
  BY <1>1 DEF Subscribe, Unsubscribe, SubscribeFails, pageVars
<1>2. ASSUME NEW h \in Stream, Install(h) PROVE SinksBelong'
  BY <1>2 DEF Install, pageVars
<1>3. ASSUME NEW h \in Stream, Register(h) PROVE SinksBelong'
  BY <1>3 DEF Register
<1>4. ASSUME NEW h \in Stream, AnswerUnsubscribe(h) PROVE SinksBelong'
  BY <1>4 DEF AnswerUnsubscribe, Remove
<1>5. ASSUME NEW h \in Stream, Drop(h) PROVE SinksBelong'
  BY <1>5 DEF Drop
<1>6. CASE (\E a \in Listener : Listen(a)) \/ DropHandle
  BY <1>6 DEF Listen, DropHandle, streamVars
<1>7. CASE Message \/ (\E s \in SubId : Emit(s)) \/ UNCHANGED vars
  BY <1>7 DEF Message, Emit, vars, streamVars, pageVars
<1> HIDE DEF MapsOK, HasId, SinksBelong
<1> QED
  BY <1>1, <1>2, <1>3, <1>4, <1>5, <1>6, <1>7 DEF Next

LEMMA AttachedStep == ASSUME MapsOK, Attached, [Next]_vars PROVE Attached'
<1> USE DEF MapsOK
<1>1. ASSUME NEW h \in Stream, Subscribe(h) PROVE Attached'
  BY <1>1 DEF Subscribe, Goes, Attached, Holders, pageVars
<1>2. ASSUME NEW h \in Stream,
             Register(h) \/ Unsubscribe(h) \/ Install(h) \/ AnswerUnsubscribe(h)
      PROVE  Attached'
  <2>1. Holders' = Holders
    BY <1>2 DEF Holders, Register, Unsubscribe, Install, AnswerUnsubscribe, Remove, Goes
  <2>2. UNCHANGED <<handle, adHoc, listeners>>
    BY <1>2 DEF Register, Unsubscribe, Install, AnswerUnsubscribe, Remove, pageVars
  <2> QED
    BY <2>1, <2>2 DEF Attached
<1>3. ASSUME NEW h \in Stream, SubscribeFails(h) \/ Drop(h) PROVE Attached'
  <2>1. Holders' = Holders \ {h} /\ h \in Holders /\ handle' = handle
    BY <1>3 DEF Holders, SubscribeFails, Drop
  <2>2. Release(handle, {h})
    BY <1>3 DEF SubscribeFails, Drop
  <2> QED
    BY <2>1, <2>2 DEF Attached, Release
<1>4. ASSUME NEW a \in Listener, Listen(a) PROVE Attached'
  BY <1>4 DEF Listen, Attached, Holders, streamVars
<1>5. CASE DropHandle
  <2>1. Holders' = Holders /\ ~handle' /\ Release(FALSE, {})
    BY <1>5 DEF DropHandle, Holders, streamVars
  <2>2. Holders \ {} = Holders
    OBVIOUS
  <2>3. CASE Holders # {}
    BY <2>1, <2>2, <2>3 DEF Attached, Release
  <2>4. CASE Holders = {}
    BY <2>1, <2>2, <2>4 DEF Attached, Release
  <2> QED
    BY <2>3, <2>4
<1>6. CASE Message \/ (\E s \in SubId : Emit(s)) \/ UNCHANGED vars
  <2>1. UNCHANGED <<step, handle, adHoc, listeners>>
    BY <1>6 DEF Message, Emit, vars, streamVars, pageVars
  <2> QED
    BY <2>1 DEF Attached, Holders
<1> HIDE DEF MapsOK
<1> QED
  BY <1>1, <1>2, <1>3, <1>4, <1>5, <1>6 DEF Next

LEMMA PageInit == Init => PageInv
BY ProviderAssumption DEF Init, PageInv, MapsOK, Steps, HasId, SinksBelong, Attached, Holders

(* A sink in the map has a reader and a listener that feeds it; when nobody is
   left, no listener is.  Ids may be given out again. *)
THEOREM ListenersHold == Spec => []ListenersFollow
<1>1. PageInv /\ [Next]_vars => PageInv'
  BY MapsStep, SinksStep, AttachedStep DEF PageInv
<1>2. PageInv => ListenersFollow
  <2> SUFFICES ASSUME PageInv PROVE ListenersFollow
    OBVIOUS
  <2> USE DEF PageInv
  <2>1. ASSUME NEW s \in SubId, sinks[s] # NoStream
        PROVE  step[sinks[s]] \in {"open", "leaving", "left"} /\ "message" \in listeners
    <3>1. sinks[s] \in Stream /\ step[sinks[s]] \in {"open", "leaving", "left"}
      BY <2>1 DEF MapsOK, SinksBelong
    <3>2. sinks[s] \in Holders
      BY <3>1 DEF Holders
    <3> QED
      BY <3>1, <3>2 DEF Attached
  <2>2. (\A h \in Stream : step[h] \in {"idle", "gone", "failed"}) => Holders = {}
    BY DEF Holders
  <2> QED
    BY <2>1, <2>2 DEF ListenersFollow, Attached
<1> QED
  BY <1>1, <1>2, PageInit, PTL DEF Spec

-----------------------------------------------------------------------------
(* With a node that never gives an id out again. *)

IdsApart ==
    /\ \A h \in Stream : id[h] # NoId => id[h] \in given
    /\ \A h, g \in Stream : id[h] # NoId /\ id[h] = id[g] => h = g
    /\ \A h \in Stream : step[h] \in {"open", "leaving", "left"} => sinks[id[h]] = h

Removed == \A h \in unsubbed : /\ step[h] \in {"left", "gone"}
                               /\ id[h] \in given /\ id[h] \notin installed

FreshInv == PageInv /\ IdsApart /\ Removed /\ installed \subseteq given /\ NoPanic

LEMMA FreshStep ==
    ASSUME ~ReusesIds, FreshInv, [Next]_vars
    PROVE  IdsApart' /\ Removed' /\ (installed \subseteq given)' /\ NoPanic'
<1> USE ProviderAssumption DEF FreshInv, PageInv, MapsOK, HasId, SinksBelong, IdsApart, Removed,
                               NoPanic, Goes
<1> DEFINE Goal == IdsApart' /\ Removed' /\ (installed \subseteq given)' /\ NoPanic'
<1>1. ASSUME NEW h \in Stream, Subscribe(h) \/ Unsubscribe(h) \/ SubscribeFails(h) PROVE Goal
  BY <1>1 DEF Subscribe, Unsubscribe, SubscribeFails, pageVars, nodeVars
<1>2. ASSUME NEW h \in Stream, Install(h) PROVE Goal
  <2>1. PICK s \in SubId \ given :
          /\ id' = [id EXCEPT ![h] = s]
          /\ installed' = installed \cup {s} /\ given' = given \cup {s}
    BY <1>2 DEF Install, FreeIds
  <2>2. UNCHANGED <<unsubbed, sinks, panicked>> /\ step[h] = "asking"
        /\ step' = [step EXCEPT ![h] = "answered"]
    BY <1>2 DEF Install, pageVars
  <2>3. IdsApart'
    BY <2>1, <2>2
  <2>4. Removed' /\ (installed \subseteq given)' /\ NoPanic'
    BY <2>1, <2>2
  <2> QED
    BY <2>3, <2>4
<1>3. ASSUME NEW h \in Stream, Register(h) PROVE Goal
  BY <1>3 DEF Register, nodeVars
<1>4. ASSUME NEW h \in Stream, AnswerUnsubscribe(h) PROVE Goal
  BY <1>4 DEF AnswerUnsubscribe, Remove
<1>5. ASSUME NEW h \in Stream, Drop(h) PROVE Goal
  BY <1>5 DEF Drop, nodeVars
<1>6. CASE (\E a \in Listener : Listen(a)) \/ DropHandle \/ Message
           \/ (\E s \in SubId : Emit(s)) \/ UNCHANGED vars
  <2>1. UNCHANGED <<step, id, unsubbed, sinks, panicked, installed, given>>
    <3> HIDE DEF FreshInv, PageInv, MapsOK, HasId, SinksBelong, IdsApart, Removed, NoPanic
    <3> QED
      BY <1>6 DEF Listen, DropHandle, Message, Emit, vars, streamVars, pageVars, nodeVars
  <2> QED
    BY <2>1
<1> HIDE DEF FreshInv, PageInv, MapsOK, HasId, SinksBelong, IdsApart, Removed, NoPanic, Goes
<1> QED
  BY <1>1, <1>2, <1>3, <1>4, <1>5, <1>6 DEF Next

(* The inductive invariant for such a node. *)
THEOREM FreshInvHolds == ASSUME ~ReusesIds PROVE Spec => []FreshInv
<1>1. Init => FreshInv
  BY PageInit DEF Init, FreshInv, IdsApart, Removed, NoPanic
<1>2. FreshInv /\ [Next]_vars => FreshInv'
  BY FreshStep, MapsStep, SinksStep, AttachedStep DEF FreshInv, PageInv
<1> QED
  BY <1>1, <1>2, PTL DEF Spec

(* Eip1193::unsubscribe finds the sink it removes, whatever is dropped when, if
   the node gives no id out again. *)
THEOREM NeverPanics == ASSUME ~ReusesIds PROVE Spec => []NoPanic
<1>1. FreshInv => NoPanic
  BY DEF FreshInv
<1> QED
  BY <1>1, FreshInvHolds, PTL

(* A subscription that was confirmed as removed, and whose stream is gone, has
   left nothing at the node and no sink, if the node gives no id out again. *)
THEOREM UnsubscribeHolds == ASSUME ~ReusesIds PROVE Spec => []UnsubscribeCleans
<1>1. FreshInv => UnsubscribeCleans
  <2> SUFFICES ASSUME FreshInv, NEW h \in unsubbed, step[h] = "gone"
               PROVE  id[h] \notin installed /\ sinks[id[h]] = NoStream
    BY DEF UnsubscribeCleans
  <2>1. h \in Stream /\ id[h] \in SubId /\ id[h] # NoId /\ id[h] \notin installed
    BY ProviderAssumption DEF FreshInv, PageInv, MapsOK, Removed
  <2>2. ASSUME sinks[id[h]] # NoStream PROVE FALSE
    <3>1. sinks[id[h]] \in Stream /\ id[sinks[id[h]]] = id[h]
          /\ step[sinks[id[h]]] \in {"open", "leaving", "left"}
      BY <2>1, <2>2 DEF FreshInv, PageInv, MapsOK, SinksBelong
    <3>2. sinks[id[h]] = h
      BY <2>1, <3>1 DEF FreshInv, IdsApart
    <3> QED
      BY <3>1, <3>2
  <2> QED
    BY <2>1, <2>2
<1> QED
  BY <1>1, FreshInvHolds, PTL

-----------------------------------------------------------------------------
(* The notifications, whether ids are given out again or not.  The events of
   an id are on their way in order, without a gap, up to the last one the node
   sent.  A stream whose sink is in the map, and that was given something, has
   had no other sink in its place since: what is on its way for it continues
   what it has. *)

SeqsOK ==
    /\ items \in [Stream -> Seq(Notification)] /\ events \in Seq(Notification)
    /\ emitted \in [SubId -> 0 .. MaxNotification]

OnTheWay(s, n) == \E j \in 1 .. Len(events) : events[j].sub = s /\ events[j].number = n
Last(h)        == items[h][Len(items[h])].number

EventsInOrder ==
    /\ \A i, j \in 1 .. Len(events) :
          events[i].sub = events[j].sub /\ i < j => events[i].number < events[j].number
    /\ \A s \in SubId : \A i \in 1 .. Len(events) : events[i].sub = s =>
          /\ events[i].number <= emitted[s]
          /\ \A n \in events[i].number .. emitted[s] : OnTheWay(s, n)

Follows(h, s) ==
    /\ Last(h) <= emitted[s]
    /\ \A i \in 1 .. Len(events) : events[i].sub = s => events[i].number > Last(h)
    /\ \A n \in Last(h) + 1 .. emitted[s] : OnTheWay(s, n)

Given ==
    /\ \A h \in Stream : items[h] # <<>> => step[h] \in {"open", "leaving", "left", "gone"}
    /\ \A h \in Stream, s \in SubId : sinks[s] = h /\ items[h] # <<>> => Follows(h, s)

NotifyInv == PageInv /\ SeqsOK /\ EventsInOrder /\ Given /\ OwnNotifications

(* Steps that touch neither the events nor what the streams have. *)
LEMMA NotifyFrame ==
    ASSUME NotifyInv, PageInv', UNCHANGED <<items, events, emitted>>,
           \A h \in Stream : items[h] # <<>> =>
              step'[h] \in {"open", "leaving", "left", "gone"} /\ id'[h] = id[h],
           \A s \in SubId : sinks'[s] \in {sinks[s], NoStream} \/ items[sinks'[s]] = <<>>
    PROVE  NotifyInv'
<1>1. SeqsOK'
  BY DEF NotifyInv, SeqsOK
<1>2. EventsInOrder'
  BY DEF NotifyInv, EventsInOrder, OnTheWay
<1>3. \A h, s : Follows(h, s)' <=> Follows(h, s)
  BY DEF Follows, OnTheWay, Last
<1>4. Given'
  <2>1. ASSUME NEW h \in Stream, NEW s \in SubId, sinks'[s] = h, items[h] # <<>>
        PROVE  Follows(h, s)'
    <3>1. sinks[s] = h
      BY <2>1, ProviderAssumption
    <3>2. Follows(h, s)
      BY <2>1, <3>1 DEF NotifyInv, Given
    <3> QED
      BY <1>3, <3>2
  <2>2. \A h \in Stream : items'[h] # <<>> => step'[h] \in {"open", "leaving", "left", "gone"}
    BY DEF NotifyInv
  <2> QED
    BY <2>1, <2>2 DEF Given
<1>5. OwnNotifications'
  <2>1. ASSUME NEW h \in Stream, NEW i \in DOMAIN items[h] PROVE items[h][i].sub = id'[h]
    <3>1. items[h] # <<>>
      BY <2>1 DEF NotifyInv, SeqsOK
    <3> QED
      BY <2>1, <3>1 DEF NotifyInv, OwnNotifications
  <2> QED
    BY <2>1 DEF NotifyInv, OwnNotifications
<1> QED
  BY <1>1, <1>2, <1>4, <1>5 DEF NotifyInv

(* What is on the way, and what a stream has, is typed. *)
LEMMA EventTypes ==
    ASSUME SeqsOK
    PROVE  /\ \A i \in 1 .. Len(events) : events[i].sub \in SubId /\ events[i].number \in Nat
           /\ \A h \in Stream : items[h] # <<>> => Last(h) \in Nat
           /\ \A s \in SubId : emitted[s] \in Nat
<1>1. MaxNotification \in Nat
  BY ProviderAssumption
<1>2. ASSUME NEW i \in 1 .. Len(events) PROVE events[i].sub \in SubId /\ events[i].number \in Nat
  <2>1. events[i] \in Notification
    BY DEF SeqsOK
  <2> QED
    BY <1>1, <2>1 DEF Notification
<1>3. ASSUME NEW h \in Stream, items[h] # <<>> PROVE Last(h) \in Nat
  <2>1. items[h] \in Seq(Notification)
    BY DEF SeqsOK
  <2>2. items[h][Len(items[h])] \in Notification
    BY <1>3, <2>1
  <2> QED
    BY <1>1, <2>2 DEF Notification, Last
<1>4. \A s \in SubId : emitted[s] \in Nat
  BY <1>1 DEF SeqsOK
<1> QED
  BY <1>2, <1>3, <1>4

(* The node sends the next number. *)
LEMMA NotifyEmit ==
    ASSUME NotifyInv, PageInv', NEW s \in SubId, Emit(s)
    PROVE  NotifyInv'
<1> DEFINE e == [sub |-> s, number |-> emitted[s] + 1]
<1>0. /\ items \in [Stream -> Seq(Notification)] /\ events \in Seq(Notification)
      /\ emitted \in [SubId -> 0 .. MaxNotification] /\ MaxNotification \in Nat
  BY ProviderAssumption DEF NotifyInv, SeqsOK
<1>1. /\ UNCHANGED <<step, id, items, sinks>>
      /\ emitted' = [emitted EXCEPT ![s] = emitted[s] + 1] /\ emitted[s] < MaxNotification
      /\ emitted'[s] = emitted[s] + 1 /\ events' = Append(events, e)
  BY <1>0 DEF Emit, streamVars, pageVars
<1>2. e \in Notification /\ e.sub = s /\ e.number = emitted[s] + 1
  BY <1>0, <1>1 DEF Notification
<1> HIDE DEF e
<1>3. /\ Len(events) \in Nat /\ Len(events') = Len(events) + 1 /\ events'[Len(events) + 1] = e
      /\ \A i \in 1 .. Len(events) : i \in 1 .. Len(events') /\ events'[i] = events[i]
      /\ \A i \in 1 .. Len(events') : i \in 1 .. Len(events) \/ i = Len(events) + 1
  BY <1>0, <1>1, <1>2
<1>4. \A i \in 1 .. Len(events) : events[i].sub \in SubId /\ events[i].number \in Nat
  BY EventTypes DEF NotifyInv
<1>5. SeqsOK'
  BY <1>0, <1>1, <1>2 DEF SeqsOK
<1>6. \A t \in SubId : \A n : OnTheWay(t, n) \/ (t = s /\ n = emitted[s] + 1) => OnTheWay(t, n)'
  <2>1. ASSUME NEW t, NEW n, OnTheWay(t, n) PROVE OnTheWay(t, n)'
    <3>1. PICK j \in 1 .. Len(events) : events[j].sub = t /\ events[j].number = n
      BY <2>1 DEF OnTheWay
    <3>2. j \in 1 .. Len(events') /\ events'[j] = events[j]
      BY <1>3
    <3> QED
      BY <3>1, <3>2 DEF OnTheWay
  <2>2. Len(events) + 1 \in 1 .. Len(events')
    BY <1>3
  <2>3. ASSUME NEW n, n = emitted[s] + 1 PROVE OnTheWay(s, n)'
    <3>1. events'[Len(events) + 1].sub = s /\ events'[Len(events) + 1].number = n
      BY <1>2, <1>3, <2>3
    <3> QED
      BY <2>2, <3>1 DEF OnTheWay
  <2> QED
    BY <2>1, <2>3
<1>7. \A t \in SubId : \A n \in Nat : n <= emitted'[t] =>
         n <= emitted[t] \/ (t = s /\ n = emitted[s] + 1)
  BY <1>0, <1>1
<1>8. EventsInOrder'
  <2>1. (\A i, j \in 1 .. Len(events) :
          events[i].sub = events[j].sub /\ i < j => events[i].number < events[j].number)'
    <3> SUFFICES ASSUME NEW i \in 1 .. Len(events'), NEW j \in 1 .. Len(events'),
                        events'[i].sub = events'[j].sub, i < j
                 PROVE  events'[i].number < events'[j].number
      OBVIOUS
    <3>1. i \in 1 .. Len(events) /\ events'[i] = events[i]
      BY <1>3
    <3>2. CASE j \in 1 .. Len(events)
      BY <1>3, <3>1, <3>2 DEF NotifyInv, EventsInOrder
    <3>3. CASE j = Len(events) + 1
      <4>1. events[i].sub = s /\ events[i].number \in Nat
        BY <1>2, <1>3, <1>4, <3>1, <3>3
      <4>2. events[i].number <= emitted[s]
        BY <3>1, <4>1 DEF NotifyInv, EventsInOrder
      <4> QED
        BY <1>0, <1>2, <1>3, <3>1, <3>3, <4>1, <4>2
    <3> QED
      BY <1>3, <3>2, <3>3
  <2>2. ASSUME NEW t \in SubId, NEW i \in 1 .. Len(events'), events'[i].sub = t
        PROVE  /\ events'[i].number <= emitted'[t]
               /\ \A n \in events'[i].number .. emitted'[t] : OnTheWay(t, n)'
    <3>0. emitted[t] \in Nat /\ emitted'[t] \in Nat /\ emitted[t] <= emitted'[t]
      BY <1>0, <1>1
    <3>1. CASE i \in 1 .. Len(events)
      <4>1. events'[i] = events[i] /\ events[i].sub = t /\ events[i].number \in Nat
        BY <1>3, <1>4, <2>2, <3>1
      <4>2. /\ events[i].number <= emitted[t]
            /\ \A n \in events[i].number .. emitted[t] : OnTheWay(t, n)
        BY <3>1, <4>1 DEF NotifyInv, EventsInOrder
      <4>3. ASSUME NEW n \in events[i].number .. emitted'[t] PROVE OnTheWay(t, n)'
        <5>1. n \in Nat /\ events[i].number <= n /\ n <= emitted'[t]
          BY <3>0, <4>1, <4>3
        <5>2. n <= emitted[t] \/ (t = s /\ n = emitted[s] + 1)
          BY <1>7, <5>1
        <5> QED
          BY <1>6, <3>0, <4>1, <4>2, <5>1, <5>2
      <4> QED
        BY <3>0, <4>1, <4>2, <4>3
    <3>2. CASE i = Len(events) + 1
      <4>1. t = s /\ events'[i].number = emitted[s] + 1 /\ emitted'[s] = emitted[s] + 1
        BY <1>1, <1>2, <1>3, <2>2, <3>2
      <4>2. \A n \in emitted[s] + 1 .. emitted[s] + 1 : n = emitted[s] + 1
        BY <3>0, <4>1
      <4> QED
        BY <1>6, <3>0, <4>1, <4>2
    <3> QED
      BY <1>3, <3>1, <3>2
  <2> QED
    BY <2>1, <2>2 DEF EventsInOrder
<1>9. ASSUME NEW h \in Stream, NEW t \in SubId, sinks[t] = h, items[h] # <<>>
      PROVE  Follows(h, t)'
  <2>1. Follows(h, t) /\ Last(h)' = Last(h) /\ Last(h) \in Nat
    BY <1>1, <1>9, EventTypes DEF NotifyInv, Given, Last
  <2>2. emitted[t] \in Nat /\ emitted'[t] \in Nat /\ emitted[t] <= emitted'[t]
    BY <1>0, <1>1
  <2>3. ASSUME NEW i \in 1 .. Len(events'), events'[i].sub = t PROVE events'[i].number > Last(h)
    <3>1. CASE i \in 1 .. Len(events)
      BY <1>3, <2>1, <2>3, <3>1 DEF Follows
    <3>2. CASE i = Len(events) + 1
      <4>1. t = s /\ events'[i].number = emitted[s] + 1
        BY <1>2, <1>3, <2>3, <3>2
      <4> QED
        BY <2>1, <2>2, <4>1 DEF Follows
    <3> QED
      BY <1>3, <3>1, <3>2
  <2>4. ASSUME NEW n \in Last(h) + 1 .. emitted'[t] PROVE OnTheWay(t, n)'
    <3>1. n \in Nat /\ Last(h) + 1 <= n /\ n <= emitted'[t]
      BY <2>1, <2>2, <2>4
    <3>2. n <= emitted[t] \/ (t = s /\ n = emitted[s] + 1)
      BY <1>7, <3>1
    <3>3. n <= emitted[t] => n \in Last(h) + 1 .. emitted[t]
      BY <2>1, <2>2, <3>1
    <3> QED
      BY <1>6, <2>1, <3>2, <3>3 DEF Follows
  <2> QED
    BY <2>1, <2>2, <2>3, <2>4 DEF Follows
<1>10. Given'
  BY <1>1, <1>9 DEF NotifyInv, Given
<1>11. OwnNotifications'
  BY <1>1 DEF NotifyInv, OwnNotifications
<1> QED
  BY <1>5, <1>8, <1>10, <1>11 DEF NotifyInv

(* The listener hands a notification to the sink of its id. *)
LEMMA NotifyMessage ==
    ASSUME NotifyInv, PageInv', Message
    PROVE  NotifyInv'
<1>0. /\ items \in [Stream -> Seq(Notification)] /\ events \in Seq(Notification)
      /\ emitted \in [SubId -> 0 .. MaxNotification]
  BY DEF NotifyInv, SeqsOK
<1>1. PICK e : e = Head(events)
  OBVIOUS
<1>2. PICK s : s = e.sub
  OBVIOUS
<1>3. /\ UNCHANGED <<step, id, sinks, emitted>> /\ events # <<>> /\ events' = Tail(events)
      /\ items' = [h \in Stream |-> IF sinks[s] = h THEN Append(items[h], e) ELSE items[h]]
  BY <1>1, <1>2 DEF Message, Sink, pageVars
<1>4. /\ Len(events) \in Nat \ {0} /\ events[1] = e /\ 1 \in 1 .. Len(events)
      /\ Len(events') = Len(events) - 1 /\ e \in Notification
      /\ \A i \in 1 .. Len(events') : /\ i + 1 \in 1 .. Len(events) /\ events'[i] = events[i + 1]
                                      /\ 1 < i + 1
      /\ \A j \in 1 .. Len(events) : j = 1 \/ (j - 1 \in 1 .. Len(events') /\ events'[j - 1] = events[j] /\ 1 < j)
  BY <1>0, <1>1, <1>3
<1>5. s \in SubId /\ e.number \in Nat /\ emitted[s] \in Nat
  BY <1>2, <1>4, EventTypes DEF NotifyInv
<1>6. SeqsOK'
  <2>1. items' \in [Stream -> Seq(Notification)]
    BY <1>0, <1>3, <1>4
  <2>2. events' \in Seq(Notification)
    BY <1>0, <1>3
  <2> QED
    BY <1>0, <1>3, <2>1, <2>2 DEF SeqsOK
<1>7. \A t, n : OnTheWay(t, n) /\ ~(t = s /\ n = e.number) => OnTheWay(t, n)'
  <2> SUFFICES ASSUME NEW t, NEW n, OnTheWay(t, n), ~(t = s /\ n = e.number) PROVE OnTheWay(t, n)'
    OBVIOUS
  <2>1. PICK j \in 1 .. Len(events) : events[j].sub = t /\ events[j].number = n
    BY DEF OnTheWay
  <2>2. j # 1
    BY <1>2, <1>4, <2>1
  <2> QED
    BY <1>4, <2>1, <2>2 DEF OnTheWay
<1>8. ASSUME NEW i \in 1 .. Len(events'), events'[i].sub = s PROVE events'[i].number > e.number
  <2>1. /\ i + 1 \in 1 .. Len(events) /\ 1 < i + 1 /\ 1 \in 1 .. Len(events)
        /\ events[1].sub = events[i + 1].sub
    BY <1>2, <1>4, <1>8
  <2>2. events[1].number < events[i + 1].number
    BY <2>1 DEF NotifyInv, EventsInOrder
  <2>3. events[i + 1].number \in Nat
    BY <2>1, EventTypes DEF NotifyInv
  <2> QED
    BY <1>4, <1>5, <2>2, <2>3
<1>9. EventsInOrder'
  <2>1. (\A i, j \in 1 .. Len(events) :
          events[i].sub = events[j].sub /\ i < j => events[i].number < events[j].number)'
    <3> SUFFICES ASSUME NEW i \in 1 .. Len(events'), NEW j \in 1 .. Len(events'),
                        events'[i].sub = events'[j].sub, i < j
                 PROVE  events'[i].number < events'[j].number
      OBVIOUS
    <3>1. i + 1 \in 1 .. Len(events) /\ j + 1 \in 1 .. Len(events) /\ i + 1 < j + 1
      BY <1>4
    <3> QED
      BY <1>4, <3>1 DEF NotifyInv, EventsInOrder
  <2>2. ASSUME NEW t \in SubId, NEW i \in 1 .. Len(events'), events'[i].sub = t
        PROVE  /\ events'[i].number <= emitted'[t]
               /\ \A n \in events'[i].number .. emitted'[t] : OnTheWay(t, n)'
    <3>1. /\ i + 1 \in 1 .. Len(events) /\ events'[i] = events[i + 1] /\ events[i + 1].sub = t
      BY <1>4, <2>2
    <3>2. /\ events[i + 1].number <= emitted[t]
          /\ \A n \in events[i + 1].number .. emitted[t] : OnTheWay(t, n)
      BY <3>1 DEF NotifyInv, EventsInOrder
    <3>3. events[i + 1].number \in Nat /\ emitted[t] \in Nat
      BY <3>1, EventTypes DEF NotifyInv
    <3>4. ASSUME NEW n \in events[i + 1].number .. emitted[t] PROVE ~(t = s /\ n = e.number)
      BY <1>5, <1>8, <2>2, <3>1, <3>3, <3>4
    <3> QED
      BY <1>3, <1>7, <3>1, <3>2, <3>4
  <2> QED
    BY <2>1, <2>2 DEF EventsInOrder
<1>10. \A h \in Stream : sinks[s] = h => step[h] \in {"open", "leaving", "left"} /\ id[h] = s
  BY <1>5, ProviderAssumption DEF NotifyInv, PageInv, SinksBelong
<1>11. ASSUME NEW h \in Stream, sinks[s] = h
       PROVE  /\ items'[h] = Append(items[h], e) /\ items[h] \in Seq(Notification)
              /\ Len(items'[h]) = Len(items[h]) + 1 /\ Len(items[h]) \in Nat
              /\ items'[h][Len(items[h]) + 1] = e
              /\ \A i \in 1 .. Len(items[h]) : items'[h][i] = items[h][i]
              /\ Last(h)' = e.number
  <2>1. /\ items'[h] = Append(items[h], e) /\ items[h] \in Seq(Notification)
    BY <1>0, <1>3, <1>11
  <2>2. /\ Len(items'[h]) = Len(items[h]) + 1 /\ Len(items[h]) \in Nat
        /\ items'[h][Len(items[h]) + 1] = e
        /\ \A i \in 1 .. Len(items[h]) : items'[h][i] = items[h][i]
    BY <1>4, <2>1
  <2> QED
    BY <2>1, <2>2 DEF Last
<1>12. \A h \in Stream : sinks[s] # h => items'[h] = items[h] /\ Last(h)' = Last(h)
  BY <1>3 DEF Last
<1>13. Given'
  <2>1. \A h \in Stream : items'[h] # <<>> => step'[h] \in {"open", "leaving", "left", "gone"}
    BY <1>3, <1>10, <1>12 DEF NotifyInv, Given
  <2>2. ASSUME NEW h \in Stream, NEW t \in SubId, sinks'[t] = h, items'[h] # <<>>
        PROVE  Follows(h, t)'
    <3>1. CASE t = s
      <4>1. Last(h)' = e.number
        BY <1>3, <1>11, <2>2, <3>1
      <4>2. /\ e.number <= emitted[s]
            /\ \A n \in e.number .. emitted[s] : OnTheWay(s, n)
        BY <1>2, <1>4, <1>5 DEF NotifyInv, EventsInOrder
      <4>3. ASSUME NEW n \in e.number + 1 .. emitted[s] PROVE OnTheWay(s, n)'
        <5>1. n \in e.number .. emitted[s] /\ n # e.number
          BY <1>5, <4>3
        <5> QED
          BY <1>7, <4>2, <5>1
      <4> QED
        BY <1>3, <1>8, <3>1, <4>1, <4>2, <4>3 DEF Follows
    <3>2. CASE t # s
      <4>1. sinks[s] # h
        BY <1>3, <1>10, <2>2, <3>2, ProviderAssumption DEF NotifyInv, PageInv, SinksBelong
      <4>2. items'[h] = items[h] /\ Last(h)' = Last(h) /\ Follows(h, t)
        BY <1>3, <1>12, <2>2, <4>1 DEF NotifyInv, Given
      <4>3. \A i \in 1 .. Len(events') : events'[i].sub = t => events'[i].number > Last(h)
        BY <1>4, <4>2 DEF Follows
      <4>4. \A n \in Last(h) + 1 .. emitted[t] : OnTheWay(t, n)'
        BY <1>7, <3>2, <4>2 DEF Follows
      <4> QED
        BY <1>3, <4>2, <4>3, <4>4 DEF Follows
    <3> QED
      BY <3>1, <3>2
  <2> QED
    BY <2>1, <2>2 DEF Given
<1>14. ASSUME NEW h \in Stream, sinks[s] = h, items[h] # <<>> PROVE e.number = Last(h) + 1
  <2>1. Follows(h, s) /\ Last(h) \in Nat
    BY <1>5, <1>14, EventTypes DEF NotifyInv, Given
  <2>2. e.number > Last(h) /\ e.number <= emitted[s]
    BY <1>2, <1>4, <1>5, <2>1 DEF Follows, NotifyInv, EventsInOrder
  <2>3. Last(h) + 1 \in Last(h) + 1 .. emitted[s]
    BY <1>5, <2>1, <2>2
  <2>4. PICK j \in 1 .. Len(events) : events[j].sub = s /\ events[j].number = Last(h) + 1
    BY <2>1, <2>3 DEF Follows, OnTheWay
  <2>5. CASE j = 1
    BY <1>4, <2>4, <2>5
  <2>6. CASE j # 1
    <3>1. events[1].number < events[j].number
      BY <1>2, <1>4, <2>4, <2>6 DEF NotifyInv, EventsInOrder
    <3> QED
      BY <1>4, <1>5, <2>1, <2>2, <2>4, <3>1
  <2> QED
    BY <2>5, <2>6
<1>15. ASSUME NEW h \in Stream
       PROVE  /\ \A i \in DOMAIN items'[h] : items'[h][i].sub = id'[h]
              /\ \A i \in 1 .. Len(items'[h]) - 1 :
                    items'[h][i + 1].number = items'[h][i].number + 1
  <2>1. /\ \A i \in DOMAIN items[h] : items[h][i].sub = id[h]
        /\ \A i \in 1 .. Len(items[h]) - 1 : items[h][i + 1].number = items[h][i].number + 1
    BY DEF NotifyInv, OwnNotifications
  <2>2. CASE sinks[s] # h
    BY <1>3, <1>12, <2>1, <2>2
  <2>3. CASE sinks[s] = h
    <3>1. /\ Len(items'[h]) = Len(items[h]) + 1 /\ Len(items[h]) \in Nat
          /\ items'[h][Len(items[h]) + 1] = e
          /\ \A i \in 1 .. Len(items[h]) : items'[h][i] = items[h][i]
          /\ items[h] \in Seq(Notification) /\ items'[h] \in Seq(Notification)
      <4>1. items'[h] \in Seq(Notification)
        BY <1>6 DEF SeqsOK
      <4> QED
        BY <1>11, <2>3, <4>1
    <3>2. id'[h] = s /\ e.sub = id[h]
      BY <1>2, <1>3, <1>10, <2>3
    <3>3. ASSUME NEW i \in DOMAIN items'[h] PROVE items'[h][i].sub = id'[h]
      <4>1. i \in 1 .. Len(items[h]) \/ i = Len(items[h]) + 1
        BY <3>1
      <4>2. i \in 1 .. Len(items[h]) => i \in DOMAIN items[h]
        BY <3>1
      <4> QED
        BY <1>3, <2>1, <3>1, <3>2, <4>1, <4>2
    <3>4. ASSUME NEW i \in 1 .. Len(items'[h]) - 1
          PROVE  items'[h][i + 1].number = items'[h][i].number + 1
      <4>1. CASE i = Len(items[h])
        <5>1. items[h] # <<>> /\ items'[h][i] = items[h][i] /\ items'[h][i + 1] = e
          BY <3>1, <3>4, <4>1
        <5> QED
          BY <1>14, <2>3, <4>1, <5>1 DEF Last
      <4>2. CASE i # Len(items[h])
        <5>1. i \in 1 .. Len(items[h]) - 1 /\ items'[h][i] = items[h][i] /\ items'[h][i + 1] = items[h][i + 1]
          BY <3>1, <3>4, <4>2
        <5> QED
          BY <2>1, <5>1
      <4> QED
        BY <4>1, <4>2
    <3> QED
      BY <3>3, <3>4
  <2> QED
    BY <2>2, <2>3
<1>16. OwnNotifications'
  BY <1>15 DEF OwnNotifications
<1> QED
  BY <1>6, <1>9, <1>13, <1>16 DEF NotifyInv

LEMMA NotifyNext ==
    ASSUME NotifyInv, PageInv', [Next]_vars
    PROVE  NotifyInv'
<1> USE DEF Goes
<1>0. /\ step \in [Stream -> Steps] /\ id \in [Stream -> SubId \cup {NoId}]
      /\ sinks \in [SubId -> Stream \cup {NoStream}]
      /\ \A h \in Stream : items[h] # <<>> => step[h] \in {"open", "leaving", "left", "gone"}
      /\ HasId
  BY DEF NotifyInv, PageInv, MapsOK, Given
<1>1. ASSUME NEW h \in Stream, Subscribe(h) \/ Unsubscribe(h) \/ SubscribeFails(h) \/ AnswerUnsubscribe(h)
             \/ Register(h) \/ Install(h) \/ Drop(h)
      PROVE  /\ UNCHANGED <<items, events, emitted>>
             /\ \A g \in Stream : items[g] # <<>> =>
                   step'[g] \in {"open", "leaving", "left", "gone"} /\ id'[g] = id[g]
             /\ \A s \in SubId : sinks'[s] \in {sinks[s], NoStream} \/ items[sinks'[s]] = <<>>
  <2>1. CASE Subscribe(h) \/ Unsubscribe(h)
    BY <1>0, <2>1 DEF Subscribe, Unsubscribe, pageVars, nodeVars
  <2>2. CASE SubscribeFails(h)
    BY <1>0, <2>2 DEF SubscribeFails, nodeVars
  <2>3. CASE AnswerUnsubscribe(h)
    BY <1>0, <2>3 DEF AnswerUnsubscribe, Remove
  <2>4. CASE Register(h)
    <3>1. id[h] \in SubId /\ items[h] = <<>>
      BY <1>0, <2>4 DEF Register, HasId
    <3> QED
      BY <1>0, <2>4, <3>1 DEF Register, nodeVars
  <2>5. CASE Install(h)
    BY <1>0, <2>5 DEF Install, pageVars
  <2>6. CASE Drop(h)
    BY <1>0, <2>6 DEF Drop, HasId, nodeVars
  <2> QED
    BY <1>1, <2>1, <2>2, <2>3, <2>4, <2>5, <2>6
<1>2. CASE (\E a \in Listener : Listen(a)) \/ DropHandle \/ UNCHANGED vars
  <2>1. UNCHANGED <<step, id, items, sinks, events, emitted>>
    BY <1>2 DEF Listen, DropHandle, vars, streamVars, pageVars, nodeVars
  <2> QED
    BY <1>0, <2>1, NotifyFrame
<1>3. ASSUME NEW h \in Stream, Subscribe(h) \/ Unsubscribe(h) \/ SubscribeFails(h) \/ AnswerUnsubscribe(h)
             \/ Register(h) \/ Install(h) \/ Drop(h)
      PROVE  NotifyInv'
  BY <1>1, <1>3, NotifyFrame
<1> QED
  BY <1>2, <1>3, NotifyEmit, NotifyMessage DEF Next

(* The inductive invariant. *)
THEOREM NotifyInvHolds == Spec => []NotifyInv
<1>1. Init => NotifyInv
  <2> SUFFICES ASSUME Init PROVE NotifyInv
    OBVIOUS
  <2>1. events = <<>> /\ items = [h \in Stream |-> <<>>] /\ emitted = [s \in SubId |-> 0]
    BY DEF Init
  <2>2. SeqsOK
    BY <2>1, ProviderAssumption DEF SeqsOK
  <2>3. EventsInOrder /\ Given
    BY <2>1 DEF EventsInOrder, Given
  <2>4. ASSUME NEW h \in Stream
        PROVE  /\ \A i \in DOMAIN items[h] : items[h][i].sub = id[h]
               /\ \A i \in 1 .. Len(items[h]) - 1 :
                     items[h][i + 1].number = items[h][i].number + 1
    <3>1. items[h] = <<>>
      BY <2>1
    <3>2. DOMAIN items[h] = {} /\ Len(items[h]) = 0
      BY <3>1
    <3>3. 1 .. Len(items[h]) - 1 = {}
      BY <3>2
    <3> QED
      BY <3>2, <3>3
  <2> QED
    BY <2>2, <2>3, <2>4, PageInit DEF NotifyInv, OwnNotifications
<1>2. NotifyInv /\ [Next]_vars => NotifyInv'
  BY NotifyNext, MapsStep, SinksStep, AttachedStep DEF NotifyInv, PageInv
<1> QED
  BY <1>1, <1>2, PTL DEF Spec

(* A stream is given the notifications of its own subscription, in order and
   without a gap, also when another subscription got its id later. *)
THEOREM NotificationsAreOwn == Spec => []OwnNotifications
<1>1. NotifyInv => OwnNotifications
  BY DEF NotifyInv
<1> QED
  BY <1>1, NotifyInvHolds, PTL

(* Every variable keeps its type. *)
THEOREM TypeCorrect == Spec => []TypeOK
<1>1. NotifyInv => TypeOK
  BY DEF NotifyInv, PageInv, MapsOK, SeqsOK, TypeOK, Steps
<1> QED
  BY <1>1, NotifyInvHolds, PTL
=============================================================================
