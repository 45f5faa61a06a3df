------------------------------ MODULE Provider ------------------------------
(* The EIP-1193 transport in a browser, with the subscriptions of
   EthSubscribe on top of it.  JavaScript runs one callback at a time, and
   between two of them anything may happen: the promise of a request settles
   before the future that awaits it is polled, and the provider calls the
   message listener in between.

   The provider, and the node behind it, are external.  Subscription ids are
   given out afresh, or again once they are free (ReusesIds). *)
EXTENDS Naturals, Sequences

CONSTANTS
    Stream,           \* one per call of a subscribe method
    Listener,         \* one per call of connect_stream and its siblings
    SubId,
    ReusesIds,
    MaxNotification,  \* bound on the notifications of a subscription
    MaxEvents,        \* bound on the events on their way to the page
    NoStream, NoId

ASSUME ProviderAssumption ==
    /\ ReusesIds \in BOOLEAN /\ MaxNotification \in Nat /\ MaxEvents \in Nat
    /\ NoStream \notin Stream /\ NoId \notin SubId

VARIABLES
    step,       \* where the future, and then the stream, of each subscription is
    id,         \* the id the node gave it
    unsubbed,   \* the streams whose eth_unsubscribe the node confirmed
    items,      \* what each stream was given: an id and a number
    sinks,      \* the subscriptions map: the stream behind each id
    panicked,   \* unsubscribe found no sink
    handle,     \* the page still has its Eip1193
    adHoc,      \* the state of the ad hoc event streams
    listeners,  \* the listeners attached to the provider
    installed,  \* the subscriptions of the node
    given,      \* the ids the node gave out
    emitted,    \* emitted[s]: notifications the node sent for s
    events      \* on their way to the message listener

streamVars == <<step, id, unsubbed, items>>
pageVars   == <<sinks, panicked, handle, adHoc, listeners>>
nodeVars   == <<installed, given, emitted, events>>
vars       == <<streamVars, pageVars, nodeVars>>

Notification == [sub : SubId, number : 1 .. MaxNotification]

TypeOK ==
    /\ step \in [Stream -> {"idle", "asking", "answered", "open", "leaving", "left",
                            "gone", "failed"}]
    /\ id \in [Stream -> SubId \cup {NoId}] /\ unsubbed \in SUBSET Stream
    /\ \A h \in Stream : items[h] \in Seq(Notification)
    /\ sinks \in [SubId -> Stream \cup {NoStream}]
    /\ panicked \in BOOLEAN /\ handle \in BOOLEAN
    /\ adHoc \in [Listener -> {"none", "open", "closed"}]
    /\ listeners \subseteq Listener \cup {"message"}
    /\ installed \in SUBSET SubId /\ given \in SUBSET SubId
    /\ emitted \in [SubId -> 0 .. MaxNotification]
    /\ events \in Seq(Notification)

(* Eip1193::new attaches the message listener. *)
Init ==
    /\ step = [h \in Stream |-> "idle"] /\ id = [h \in Stream |-> NoId]
    /\ unsubbed = {} /\ items = [h \in Stream |-> <<>>]
    /\ sinks = [s \in SubId |-> NoStream] /\ panicked = FALSE
    /\ handle = TRUE /\ adHoc = [a \in Listener |-> "none"] /\ listeners = {"message"}
    /\ installed = {} /\ given = {} /\ emitted = [s \in SubId |-> 0] /\ events = <<>>

Goes(h, from, to) == step[h] = from /\ step' = [step EXCEPT ![h] = to]

-----------------------------------------------------------------------------
(* The transport is shared by its clones.  When the last is gone, drop of
   ProviderAndListeners detaches the listeners; their closures, and with them
   the senders of the ad hoc streams, go. *)

(* A future or a stream that keeps a clone.  Mutant: only the page does. *)
NoneOfThem == {}
Holders == {h \in Stream : step[h] \in {"asking", "answered", "open", "leaving", "left"}}

Release(withHandle, gone) ==
    IF withHandle \/ Holders \ gone # {}
      THEN UNCHANGED <<adHoc, listeners>>
      ELSE /\ adHoc' = [a \in Listener |-> IF adHoc[a] = "open" THEN "closed" ELSE adHoc[a]]
           /\ listeners' = {}

DropHandle ==
    /\ handle /\ handle' = FALSE
    /\ Release(FALSE, {})
    /\ UNCHANGED <<streamVars, sinks, panicked, nodeVars>>

(* handle_ad_hoc_event. *)
Listen(a) ==
    /\ handle /\ adHoc[a] = "none"
    /\ adHoc' = [adHoc EXCEPT ![a] = "open"]
    /\ listeners' = listeners \cup {a}
    /\ UNCHANGED <<streamVars, sinks, panicked, handle, nodeVars>>

-----------------------------------------------------------------------------
(* EthSubscribe. *)

(* A subscribe method executes eth_subscribe. *)
Subscribe(h) ==
    /\ handle /\ Goes(h, "idle", "asking")
    /\ UNCHANGED <<id, unsubbed, items, pageVars, nodeVars>>

(* The future is polled after the answer: SubscriptionStream::new puts the
   sink into the map, in place of another under the same id. *)
Register(h) ==
    /\ Goes(h, "answered", "open")
    /\ sinks' = [sinks EXCEPT ![id[h]] = h]
    /\ UNCHANGED <<id, unsubbed, items, panicked, handle, adHoc, listeners, nodeVars>>

(* The answer is an error, or no string; parse_response tells the caller. *)
SubscribeFails(h) ==
    /\ step[h] \in {"asking", "answered"}
    /\ step' = [step EXCEPT ![h] = "failed"]
    /\ Release(handle, {h})
    /\ UNCHANGED <<id, unsubbed, items, sinks, panicked, handle, nodeVars>>

(* SubscriptionStream::unsubscribe executes eth_unsubscribe and drops the
   stream when it has the answer. *)
Unsubscribe(h) ==
    /\ Goes(h, "open", "leaving")
    /\ UNCHANGED <<id, unsubbed, items, pageVars, nodeVars>>

(* Drop of a SubscriptionStream, which may come while eth_unsubscribe is on
   its way: Eip1193::unsubscribe takes the sink out of the map.  Mutant: the
   sink stays after eth_unsubscribe. *)
DropKeepsSink(h) ==
    /\ step[h] \in {"open", "leaving", "left"} /\ step' = [step EXCEPT ![h] = "gone"]
    /\ sinks' = IF step[h] = "left" THEN sinks ELSE [sinks EXCEPT ![id[h]] = NoStream]
    /\ Release(handle, {h})
    /\ UNCHANGED <<id, unsubbed, items, panicked, handle, nodeVars>>
Drop(h) ==
    /\ step[h] \in {"open", "leaving", "left"} /\ step' = [step EXCEPT ![h] = "gone"]
    /\ panicked' = (panicked \/ sinks[id[h]] = NoStream)
    /\ sinks' = [sinks EXCEPT ![id[h]] = NoStream]
    /\ Release(handle, {h})
    /\ UNCHANGED <<id, unsubbed, items, handle, nodeVars>>

(* The message listener: a notification goes into the channel of its
   subscription, which has no bound, or is lost if nobody registered it.
   Mutant: it goes into every channel. *)
EverySink(s) == {h \in Stream : \E t \in SubId : sinks[t] = h}
Sink(s)      == {h \in Stream : sinks[s] = h}

Message ==
    /\ events # <<>> /\ "message" \in listeners
    /\ LET n == Head(events) IN
         items' = [h \in Stream |-> IF h \in Sink(n.sub) THEN Append(items[h], n) ELSE items[h]]
    /\ events' = Tail(events)
    /\ UNCHANGED <<step, id, unsubbed, pageVars, installed, given, emitted>>

-----------------------------------------------------------------------------
(* The node. *)

FreeIds == IF ReusesIds THEN SubId \ installed ELSE SubId \ given

Install(h) ==
    /\ Goes(h, "asking", "answered")
    /\ \E s \in FreeIds :
          /\ id' = [id EXCEPT ![h] = s]
          /\ installed' = installed \cup {s} /\ given' = given \cup {s}
    /\ UNCHANGED <<unsubbed, items, pageVars, emitted, events>>

(* eth_unsubscribe.  Mutant of the client: the answer already takes the sink
   out of the map. *)
Remove(h, map) ==
    /\ Goes(h, "leaving", "left")
    /\ \/ installed' = installed \ {id[h]} /\ unsubbed' = unsubbed \cup {h} /\ sinks' = map
       \/ UNCHANGED <<installed, unsubbed, sinks>>
    /\ UNCHANGED <<id, items, panicked, handle, adHoc, listeners, given, emitted, events>>
AnswerAndUnsubscribe(h) == Remove(h, [sinks EXCEPT ![id[h]] = NoStream])
AnswerUnsubscribe(h)    == Remove(h, sinks)

Emit(s) ==
    /\ s \in installed /\ emitted[s] < MaxNotification /\ Len(events) < MaxEvents
    /\ emitted' = [emitted EXCEPT ![s] = @ + 1]
    /\ events' = Append(events, [sub |-> s, number |-> emitted'[s]])
    /\ UNCHANGED <<streamVars, pageVars, installed, given>>

Next == \/ \E h \in Stream : \/ Subscribe(h) \/ Install(h) \/ Register(h) \/ SubscribeFails(h)
                             \/ Unsubscribe(h) \/ AnswerUnsubscribe(h) \/ Drop(h)
        \/ (\E a \in Listener : Listen(a)) \/ DropHandle
        \/ Message \/ (\E s \in SubId : Emit(s))

Spec == Init /\ [][Next]_vars

-----------------------------------------------------------------------------
(* The panic of Eip1193::unsubscribe, "Did we already unsubscribe?", is not
   reached: each stream takes its own sink out, once, whether it is dropped,
   unsubscribed, or dropped while it is unsubscribed. *)
NoPanic == ~panicked

(* A stream is given the notifications of its own subscription, in order and
   without a gap: only a beginning can be missing, sent before its future was
   polled. *)
OwnNotifications ==
    \A h \in Stream :
        /\ \A i \in DOMAIN items[h] : items[h][i].sub = id[h]
        /\ \A i \in 1 .. Len(items[h]) - 1 : items[h][i + 1].number = items[h][i].number + 1

(* When eth_unsubscribe was confirmed and the stream is gone, neither the node
   nor the page keeps anything of the subscription. *)
UnsubscribeCleans ==
    \A h \in unsubbed : step[h] = "gone" => id[h] \notin installed /\ sinks[id[h]] = NoStream

(* A sink in the map has a stream that reads it, and while there is one the
   message listener is attached, even if the page gave its transport away;
   when nobody is left every listener is detached and every event stream has
   ended. *)
ListenersFollow ==
    /\ \A s \in SubId : sinks[s] # NoStream =>
          step[sinks[s]] \in {"open", "leaving", "left"} /\ "message" \in listeners
    /\ (\A h \in Stream : step[h] \in {"idle", "gone", "failed"}) /\ ~handle
          => listeners = {} /\ \A a \in Listener : adHoc[a] # "open"
=============================================================================
