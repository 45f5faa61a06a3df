------------------------ MODULE NotificationStreams ------------------------
(***************************************************************************)
(* The notification half of a duplex transport, shared by WsTransport and  *)
(* IpcTransport: the task's map from subscription ids to sinks, the        *)
(* bounded channel of each stream, and the reader at its other end         *)
(* (SubscriptionStream of api/eth_subscribe.rs).  The operators are parts  *)
(* of the actions of those modules.                                        *)
(***************************************************************************)
EXTENDS Naturals, Sequences

CONSTANTS
    Stream,           \* One element per invocation of subscribe.
    SubId,            \* Subscription ids.
    MaxNotification,  \* Notifications the peer sends per subscription id.
    NoStream

ASSUME StreamsAssumption == MaxNotification \in Nat /\ NoStream \notin Stream

VARIABLES
    registered,  \* the task's map from subscription ids to sinks
    sub,         \* sub[h]: the subscription id of stream h
    consumer,    \* consumer[h]: the state of the reader of stream h
    log,         \* log[h]: the notifications that entered the channel of h
    taken,       \* taken[h]: how many of them the reader took out
    emitted      \* emitted[s]: notifications the peer sent for s

subVars == <<registered, sub, consumer, log, taken, emitted>>

Reader == {"none", "open", "ended", "dropped", "refused"}

SubTypesOK ==
    /\ registered \in [SubId -> Stream \cup {NoStream}]
    /\ sub \in [Stream -> SubId]
    /\ consumer \in [Stream -> Reader]
    /\ log \in [Stream -> Seq(Nat)]
    /\ taken \in [Stream -> Nat]
    /\ emitted \in [SubId -> Nat]

SubInit ==
    /\ registered = [s \in SubId |-> NoStream]
    /\ sub \in [Stream -> SubId]
    /\ consumer = [h \in Stream |-> "none"]
    /\ log = [h \in Stream |-> <<>>]
    /\ taken = [h \in Stream |-> 0]
    /\ emitted = [s \in SubId |-> 0]

(* The caller's end of a stream. *)
Becomes(h, r) ==
    /\ consumer' = [consumer EXCEPT ![h] = r]
    /\ UNCHANGED <<registered, sub, log, taken, emitted>>

(* SubscriptionStream::poll_next: the next item, or the end of the stream
   once its channel is empty and its sink is gone. *)
Receive(h, alive) ==
    \/ /\ taken[h] < Len(log[h])
       /\ taken' = [taken EXCEPT ![h] = @ + 1]
       /\ UNCHANGED <<registered, sub, consumer, log, emitted>>
    \/ /\ taken[h] = Len(log[h]) /\ ~alive
       /\ Becomes(h, "ended")

(* The task's end: a second registration of an id replaces the first. *)
Register(h) ==
    /\ registered' = [registered EXCEPT ![sub[h]] = h]
    /\ UNCHANGED <<sub, consumer, log, taken, emitted>>

(* Mutant: every subscription is removed. *)
UnregisterAll(s) ==
    /\ registered' = [t \in SubId |-> NoStream]
    /\ UNCHANGED <<sub, consumer, log, taken, emitted>>
Unregister(s) ==
    /\ registered' = [registered EXCEPT ![s] = NoStream]
    /\ UNCHANGED <<sub, consumer, log, taken, emitted>>

CloseAll ==
    /\ registered' = [s \in SubId |-> NoStream]
    /\ UNCHANGED <<sub, consumer, log, taken, emitted>>

Buffered(h) == Len(log[h]) - taken[h]

(* Notification n of subscription s enters the channel of its stream, which
   holds `capacity' items.  If the channel is full or its reader is gone the
   subscription is removed instead; without a subscription the notification
   is lost.  Mutant: what does not fit is lost and the subscription stays. *)
OfferOrSkip(s, n, capacity) ==
    LET h == registered[s] IN
    /\ log' = IF h # NoStream /\ consumer[h] = "open" /\ Buffered(h) < capacity
                THEN [log EXCEPT ![h] = Append(@, n)] ELSE log
    /\ UNCHANGED <<registered, sub, consumer, taken, emitted>>
Offer(s, n, capacity) ==
    LET h == registered[s] IN
    \/ h = NoStream /\ UNCHANGED subVars
    \/ /\ h # NoStream /\ consumer[h] = "open" /\ Buffered(h) < capacity
       /\ log' = [log EXCEPT ![h] = Append(@, n)]
       /\ UNCHANGED <<registered, sub, consumer, taken, emitted>>
    \/ /\ h # NoStream /\ ~(consumer[h] = "open" /\ Buffered(h) < capacity)
       /\ Unregister(s)

(* The peer numbers the notifications of a subscription. *)
Emit(s) ==
    /\ emitted[s] < MaxNotification
    /\ emitted' = [emitted EXCEPT ![s] = @ + 1]
    /\ UNCHANGED <<registered, sub, consumer, log, taken>>

(* What a stream delivers has no gap: a notification that does not fit ends
   the subscription, so no later one can follow it. *)
NoGap ==
    \A h \in Stream : \A i \in 1 .. Len(log[h]) - 1 : log[h][i + 1] = log[h][i] + 1
=============================================================================
