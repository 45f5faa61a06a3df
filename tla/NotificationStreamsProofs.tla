--------------------- MODULE NotificationStreamsProofs ---------------------
(***************************************************************************)
(* What every operator of NotificationStreams keeps, for the proofs about  *)
(* the transports that use it: the types, who holds the sink of a stream,  *)
(* and the order of the notifications.                                     *)
(***************************************************************************)
EXTENDS NotificationStreams, Integers, TLAPS

LEMMA SubInitType == SubInit => SubTypesOK
BY DEF SubInit, SubTypesOK, Reader

LEMMA BecomesType ==
    ASSUME SubTypesOK, NEW h \in Stream, NEW r \in Reader, Becomes(h, r)
    PROVE  SubTypesOK'
BY DEF SubTypesOK, Becomes

LEMMA ReceiveType ==
    ASSUME SubTypesOK, NEW h \in Stream, NEW alive, Receive(h, alive)
    PROVE  SubTypesOK'
<1>1. CASE Becomes(h, "ended")
  BY <1>1, BecomesType DEF Reader
<1>2. CASE /\ taken' = [taken EXCEPT ![h] = @ + 1]
           /\ UNCHANGED <<registered, sub, consumer, log, emitted>>
  <2>1. taken[h] + 1 \in Nat
    BY DEF SubTypesOK
  <2> QED
    BY <1>2, <2>1 DEF SubTypesOK
<1> QED
  BY <1>1, <1>2 DEF Receive

LEMMA RegisterType ==
    ASSUME SubTypesOK, NEW h \in Stream, Register(h)
    PROVE  SubTypesOK'
BY DEF SubTypesOK, Register

LEMMA UnregisterType ==
    ASSUME SubTypesOK, NEW s \in SubId, Unregister(s) \/ CloseAll
    PROVE  SubTypesOK'
BY DEF SubTypesOK, Unregister, CloseAll

LEMMA OfferType ==
    ASSUME SubTypesOK, NEW s \in SubId, NEW n \in Nat, NEW capacity, Offer(s, n, capacity)
    PROVE  SubTypesOK'
<1> DEFINE h == registered[s]
<1>1. CASE UNCHANGED subVars
  BY <1>1 DEF SubTypesOK, subVars
<1>2. CASE /\ h # NoStream
           /\ log' = [log EXCEPT ![h] = Append(@, n)]
           /\ UNCHANGED <<registered, sub, consumer, taken, emitted>>
  <2>1. h \in Stream /\ log[h] \in Seq(Nat)
    BY <1>2 DEF SubTypesOK
  <2>2. Append(log[h], n) \in Seq(Nat)
    BY <2>1
  <2> QED
    BY <1>2, <2>1, <2>2 DEF SubTypesOK
<1>3. CASE Unregister(s)
  BY <1>3, UnregisterType
<1> QED
  BY <1>1, <1>2, <1>3 DEF Offer

LEMMA EmitType ==
    ASSUME SubTypesOK, NEW s \in SubId, Emit(s)
    PROVE  SubTypesOK'
<1>1. emitted[s] + 1 \in Nat
  BY DEF SubTypesOK
<1> QED
  BY <1>1 DEF SubTypesOK, Emit

-----------------------------------------------------------------------------
(* The sinks.  W are the streams whose subscribe message is in the queue of
   the task, U the ids of the unsubscribe messages in it. *)

SinkInv(W, U) ==
    /\ \A h \in W : consumer[h] \in {"open", "dropped"} /\ log[h] = <<>> /\ registered[sub[h]] # h
    /\ \A s \in SubId : registered[s] # NoStream =>
          sub[registered[s]] = s /\ consumer[registered[s]] \in {"open", "dropped"}
    /\ \A h \in Stream : consumer[h] \in {"none", "refused"} => log[h] = <<>>
    /\ \A s \in U : \E g \in Stream : sub[g] = s /\ consumer[g] = "dropped"

(* A sink that is alive is queued or registered. *)
Alive(h, W) == h \in W \/ registered[sub[h]] = h

(* The reasons for which the task may let go of the sink of h. *)
MayGo(h, capacity) == \/ consumer[h] = "dropped"
                      \/ Buffered(h) >= capacity
                      \/ \E g \in Stream \ {h} : sub[g] = sub[h]
Kept(W, W2, capacity) ==
    \A h \in Stream : Alive(h, W) /\ ~(h \in W2 \/ registered'[sub'[h]] = h) => MayGo(h, capacity)

LEMMA SinkInit == SubInit => SinkInv({}, {})
BY StreamsAssumption DEF SubInit, SinkInv

(* A step that only sets the reader of h. *)
LEMMA SinkSubscribe ==
    ASSUME SubTypesOK, NEW W \in SUBSET Stream, NEW U \in SUBSET SubId, SinkInv(W, U),
           NEW h \in Stream, consumer[h] = "none", NEW capacity
    PROVE  /\ Becomes(h, "open") => SinkInv(W \cup {h}, U)' /\ Kept(W, W \cup {h}, capacity)
           /\ Becomes(h, "refused") => SinkInv(W, U)' /\ Kept(W, W, capacity)
<1>1. h \notin W /\ log[h] = <<>> /\ registered[sub[h]] # h
  <2>1. sub[h] \in SubId /\ h # NoStream
    BY StreamsAssumption DEF SubTypesOK
  <2>2. h \notin W
    BY DEF SinkInv
  <2>3. log[h] = <<>>
    BY DEF SinkInv
  <2>4. registered[sub[h]] # h
    BY <2>1 DEF SinkInv
  <2> QED
    BY <2>2, <2>3, <2>4
<1>2. ASSUME UNCHANGED <<registered, sub, log>>, NEW r \in {"open", "refused"},
             \A g \in Stream : consumer'[g] = IF g = h THEN r ELSE consumer[g]
      PROVE  /\ \A s \in SubId : registered[s] # NoStream =>
                   registered[s] \in Stream \ {h} /\ sub'[registered[s]] = s
                   /\ consumer'[registered[s]] \in {"open", "dropped"}
             /\ \A s \in U : \E g \in Stream : sub'[g] = s /\ consumer'[g] = "dropped"
  <2>1. \A s \in SubId : registered[s] # NoStream =>
          registered[s] \in Stream \ {h} /\ consumer'[registered[s]] = consumer[registered[s]]
    BY <1>2 DEF SubTypesOK, SinkInv
  <2>2. \A g \in Stream : consumer[g] = "dropped" => consumer'[g] = "dropped"
    BY <1>2
  <2> QED
    BY <1>2, <2>1, <2>2 DEF SinkInv
<1>3. ASSUME Becomes(h, "open") PROVE SinkInv(W \cup {h}, U)' /\ Kept(W, W \cup {h}, capacity)
  <2>1. /\ UNCHANGED <<registered, sub, log>>
        /\ \A g \in Stream : consumer'[g] = IF g = h THEN "open" ELSE consumer[g]
    BY <1>3 DEF Becomes, SubTypesOK
  <2>2. SinkInv(W \cup {h}, U)'
    BY <1>1, <1>2, <2>1 DEF SinkInv
  <2> QED
    BY <2>1, <2>2 DEF Kept, Alive
<1>4. ASSUME Becomes(h, "refused") PROVE SinkInv(W, U)' /\ Kept(W, W, capacity)
  <2>1. /\ UNCHANGED <<registered, sub, log>>
        /\ \A g \in Stream : consumer'[g] = IF g = h THEN "refused" ELSE consumer[g]
    BY <1>4 DEF Becomes, SubTypesOK
  <2>2. SinkInv(W, U)'
    BY <1>1, <1>2, <2>1 DEF SinkInv
  <2> QED
    BY <2>1, <2>2 DEF Kept, Alive
<1> QED
  BY <1>3, <1>4

LEMMA SinkDrop ==
    ASSUME SubTypesOK, NEW W \in SUBSET Stream, NEW U \in SUBSET SubId, SinkInv(W, U),
           NEW h \in Stream, consumer[h] \in {"open", "ended"}, Becomes(h, "dropped"), NEW capacity
    PROVE  SinkInv(W, U)' /\ SinkInv(W, U \cup {sub[h]})' /\ Kept(W, W, capacity)
BY StreamsAssumption DEF SubTypesOK, SinkInv, Becomes, Kept, Alive

LEMMA SinkReceive ==
    ASSUME SubTypesOK, NEW W \in SUBSET Stream, NEW U \in SUBSET SubId, SinkInv(W, U),
           NEW h \in Stream, consumer[h] = "open", NEW capacity,
           Receive(h, Alive(h, W))
    PROVE  SinkInv(W, U)' /\ Kept(W, W, capacity)
<1>1. CASE Becomes(h, "ended") /\ ~Alive(h, W)
  BY <1>1, StreamsAssumption DEF SubTypesOK, SinkInv, Becomes, Kept, Alive
<1>2. CASE UNCHANGED <<registered, sub, consumer, log, emitted>>
  BY <1>2 DEF SubTypesOK, SinkInv, Kept, Alive
<1> QED
  BY <1>1, <1>2 DEF Receive

LEMMA SinkRegister ==
    ASSUME SubTypesOK, NEW W \in SUBSET Stream, NEW U \in SUBSET SubId, SinkInv(W, U),
           NEW h \in W, Register(h), NEW capacity
    PROVE  SinkInv(W \ {h}, U)' /\ Kept(W, W \ {h}, capacity)
BY StreamsAssumption DEF SubTypesOK, SinkInv, Register, Kept, Alive, MayGo

LEMMA SinkUnregister ==
    ASSUME SubTypesOK, NEW W \in SUBSET Stream, NEW U \in SUBSET SubId, SinkInv(W, U),
           NEW s \in SubId, Unregister(s), NEW capacity
    PROVE  SinkInv(W, U)' /\ (s \in U => Kept(W, W, capacity))
<1>1. /\ registered' = [registered EXCEPT ![s] = NoStream]
      /\ UNCHANGED <<sub, consumer, log>>
  BY DEF Unregister
<1>2. SinkInv(W, U)'
  BY <1>1, StreamsAssumption DEF SubTypesOK, SinkInv
<1>3. ASSUME s \in U, NEW h \in Stream, Alive(h, W), ~(h \in W \/ registered'[sub'[h]] = h)
      PROVE  MayGo(h, capacity)
  <2>1. sub[h] = s
    BY <1>1, <1>3 DEF SubTypesOK, Alive
  <2>2. PICK g \in Stream : sub[g] = s /\ consumer[g] = "dropped"
    BY <1>3 DEF SinkInv
  <2> QED
    BY <2>1, <2>2 DEF MayGo
<1> QED
  BY <1>2, <1>3 DEF Kept

LEMMA SinkOffer ==
    ASSUME SubTypesOK, NEW W \in SUBSET Stream, NEW U \in SUBSET SubId, SinkInv(W, U),
           NEW s \in SubId, NEW n \in Nat, NEW capacity \in Nat, Offer(s, n, capacity)
    PROVE  SinkInv(W, U)' /\ Kept(W, W, capacity)
<1> DEFINE h == registered[s]
<1>1. CASE UNCHANGED subVars
  BY <1>1 DEF SubTypesOK, SinkInv, subVars, Kept, Alive
<1>2. CASE /\ h # NoStream /\ consumer[h] = "open"
           /\ log' = [log EXCEPT ![h] = Append(@, n)]
           /\ UNCHANGED <<registered, sub, consumer, taken, emitted>>
  <2>1. h \in Stream /\ sub[h] = s /\ h \notin W
    BY <1>2 DEF SubTypesOK, SinkInv
  <2>2. \A g \in Stream : g # h => log'[g] = log[g]
    BY <1>2, <2>1 DEF SubTypesOK
  <2>3. SinkInv(W, U)'
    BY <1>2, <2>1, <2>2 DEF SubTypesOK, SinkInv
  <2>4. Kept(W, W, capacity)
    BY <1>2 DEF Kept, Alive
  <2> QED
    BY <2>3, <2>4
<1>3. CASE h # NoStream /\ ~(consumer[h] = "open" /\ Buffered(h) < capacity) /\ Unregister(s)
  <2>1. SinkInv(W, U)'
    BY <1>3, SinkUnregister
  <2>2. ASSUME NEW g \in Stream, Alive(g, W), ~(g \in W \/ registered'[sub'[g]] = g)
        PROVE  MayGo(g, capacity)
    <3>1. g = h /\ consumer[h] \in {"open", "dropped"}
      BY <1>3, <2>2 DEF SubTypesOK, SinkInv, Alive, Unregister
    <3>2. Buffered(h) \in Int
      BY <3>1 DEF SubTypesOK, Buffered
    <3> QED
      BY <1>3, <3>1, <3>2 DEF MayGo
  <2> QED
    BY <2>1, <2>2 DEF Kept
<1> QED
  BY <1>1, <1>2, <1>3 DEF Offer

LEMMA SinkCloseAll ==
    ASSUME SubTypesOK, NEW W \in SUBSET Stream, NEW U \in SUBSET SubId, SinkInv(W, U), CloseAll
    PROVE  SinkInv({}, {})'
BY StreamsAssumption DEF SubTypesOK, SinkInv, CloseAll

(* A message that left the queue, or a step that is about no stream. *)
LEMMA SinkFrame ==
    ASSUME SubTypesOK, NEW W \in SUBSET Stream, NEW U \in SUBSET SubId, SinkInv(W, U),
           NEW U2 \in SUBSET U, NEW capacity,
           UNCHANGED subVars \/ \E s \in SubId : Emit(s)
    PROVE  SinkInv(W, U2)' /\ Kept(W, W, capacity)
BY DEF SubTypesOK, SinkInv, subVars, Emit, Kept, Alive

-----------------------------------------------------------------------------
(* The queue q of the task. *)

SubscribeOf(h)   == [kind |-> "subscribe", stream |-> h]
UnsubscribeOf(s) == [kind |-> "unsubscribe", id |-> s]

Waiting(q)  == {h \in Stream : \E i \in 1 .. Len(q) : q[i] = SubscribeOf(h)}
Leaving(q)  == {s \in SubId : \E i \in 1 .. Len(q) : q[i] = UnsubscribeOf(s)}
OnceEach(q) == \A h \in Stream : \A i, j \in 1 .. Len(q) :
                  q[i] = SubscribeOf(h) /\ q[j] = SubscribeOf(h) => i = j

LEMMA QueueAppend ==
    ASSUME NEW S, NEW q \in Seq(S), NEW m \in S
    PROVE  /\ Waiting(Append(q, m)) = Waiting(q) \cup {h \in Stream : m = SubscribeOf(h)}
           /\ Leaving(Append(q, m)) = Leaving(q) \cup {s \in SubId : m = UnsubscribeOf(s)}
           /\ OnceEach(q) /\ (\A h \in Waiting(q) : m # SubscribeOf(h)) => OnceEach(Append(q, m))
<1> DEFINE r == Append(q, m)
<1>1. /\ Len(r) = Len(q) + 1 /\ Len(q) \in Nat
      /\ \A i \in 1 .. Len(q) : r[i] = q[i]
      /\ r[Len(q) + 1] = m
  OBVIOUS
<1> HIDE DEF r
<1>2. Waiting(r) = Waiting(q) \cup {h \in Stream : m = SubscribeOf(h)}
  BY <1>1 DEF Waiting
<1>3. Leaving(r) = Leaving(q) \cup {s \in SubId : m = UnsubscribeOf(s)}
  BY <1>1 DEF Leaving
<1>4. ASSUME OnceEach(q), \A h \in Waiting(q) : m # SubscribeOf(h) PROVE OnceEach(r)
  <2> SUFFICES ASSUME NEW h \in Stream, NEW i \in 1 .. Len(r), NEW j \in 1 .. Len(r),
                      r[i] = SubscribeOf(h), r[j] = SubscribeOf(h)
               PROVE  i = j
    BY DEF OnceEach
  <2>1. CASE i \in 1 .. Len(q) /\ j \in 1 .. Len(q)
    BY <1>1, <1>4, <2>1 DEF OnceEach
  <2>2. CASE i = Len(q) + 1 \/ j = Len(q) + 1
    BY <1>1, <1>4, <2>2 DEF Waiting
  <2> QED
    BY <1>1, <2>1, <2>2
<1> QED
  BY <1>2, <1>3, <1>4 DEF r

LEMMA QueueTail ==
    ASSUME NEW S, NEW q \in Seq(S), q # <<>>, OnceEach(q)
    PROVE  /\ Waiting(Tail(q)) = Waiting(q) \ {h \in Stream : Head(q) = SubscribeOf(h)}
           /\ \A h \in Stream : Head(q) = SubscribeOf(h) => h \in Waiting(q)
           /\ Leaving(Tail(q)) \subseteq Leaving(q)
           /\ \A s \in SubId : Head(q) = UnsubscribeOf(s) => s \in Leaving(q)
           /\ OnceEach(Tail(q))
<1> DEFINE r == Tail(q)
<1>1. /\ Len(q) \in Nat \ {0} /\ Len(r) = Len(q) - 1
      /\ \A i \in 1 .. Len(r) : r[i] = q[i + 1]
      /\ Head(q) = q[1]
  OBVIOUS
<1> HIDE DEF r
<1>2. \A i \in 1 .. Len(r) : i + 1 \in 2 .. Len(q)
  BY <1>1
<1>3. \A i \in 2 .. Len(q) : i - 1 \in 1 .. Len(r) /\ r[i - 1] = q[i]
  BY <1>1
<1>4. ASSUME NEW h \in Stream
      PROVE  h \in Waiting(r) <=> h \in Waiting(q) /\ Head(q) # SubscribeOf(h)
  <2>1. ASSUME h \in Waiting(r) PROVE h \in Waiting(q) /\ Head(q) # SubscribeOf(h)
    <3>1. PICK i \in 1 .. Len(r) : q[i + 1] = SubscribeOf(h)
      BY <1>1, <2>1 DEF Waiting
    <3>2. i + 1 \in 1 .. Len(q) /\ 1 \in 1 .. Len(q) /\ i + 1 # 1
      BY <1>1
    <3> QED
      BY <1>1, <3>1, <3>2 DEF Waiting, OnceEach
  <2>2. ASSUME h \in Waiting(q), Head(q) # SubscribeOf(h) PROVE h \in Waiting(r)
    <3>1. PICK i \in 1 .. Len(q) : q[i] = SubscribeOf(h)
      BY <2>2 DEF Waiting
    <3>2. i \in 2 .. Len(q)
      BY <1>1, <2>2, <3>1
    <3> QED
      BY <1>3, <3>1, <3>2 DEF Waiting
  <2> QED
    BY <2>1, <2>2
<1>5. Waiting(r) = Waiting(q) \ {h \in Stream : Head(q) = SubscribeOf(h)}
  BY <1>4 DEF Waiting
<1>6. \A h \in Stream : Head(q) = SubscribeOf(h) => h \in Waiting(q)
  BY <1>1 DEF Waiting
<1>7. Leaving(r) \subseteq Leaving(q)
  BY <1>1, <1>2 DEF Leaving
<1>8. \A s \in SubId : Head(q) = UnsubscribeOf(s) => s \in Leaving(q)
  BY <1>1 DEF Leaving
<1>9. OnceEach(r)
  <2> SUFFICES ASSUME NEW h \in Stream, NEW i \in 1 .. Len(r), NEW j \in 1 .. Len(r),
                      r[i] = SubscribeOf(h), r[j] = SubscribeOf(h)
               PROVE  i = j
    BY DEF OnceEach
  <2>1. /\ i + 1 \in 1 .. Len(q) /\ q[i + 1] = SubscribeOf(h)
        /\ j + 1 \in 1 .. Len(q) /\ q[j + 1] = SubscribeOf(h)
    BY <1>1
  <2>2. i + 1 = j + 1
    BY <2>1 DEF OnceEach
  <2> QED
    BY <2>2
<1> QED
  BY <1>5, <1>6, <1>7, <1>8, <1>9 DEF r

-----------------------------------------------------------------------------
(* The notifications.  w are the messages on their way to the task. *)

NoteOf(s, n)   == [kind |-> "notification", id |-> s, number |-> n]
IsNote(m, s)   == m.kind = "notification" /\ m.id = s
Numbers(w, s)  == {w[i].number : i \in {j \in 1 .. Len(w) : IsNote(w[j], s)}}

(* Those of a subscription are on their way in their order, without a gap, up
   to the last that the peer sent; and they follow what the stream that is
   registered for it was given before. *)
Ordered(w) ==
    \A s \in SubId : \A i, j \in 1 .. Len(w) :
       IsNote(w[i], s) /\ IsNote(w[j], s) /\ i < j => w[i].number < w[j].number
Contiguous(w) ==
    \A s \in SubId : \E n \in Nat : n <= emitted[s] /\ Numbers(w, s) = n + 1 .. emitted[s]
Follows(w) ==
    \A h \in Stream : registered[sub[h]] = h /\ log[h] # <<>> =>
       /\ log[h][Len(log[h])] <= emitted[sub[h]]
       /\ Numbers(w, sub[h]) = log[h][Len(log[h])] + 1 .. emitted[sub[h]]

FlowInv(w) == Ordered(w) /\ Contiguous(w) /\ Follows(w) /\ NoGap

(* Messages are records whose notifications are numbered. *)
Messages(S) == \A m \in S : \A s \in SubId : IsNote(m, s) => m.number \in Nat

LEMMA Intervals ==
    /\ \A k, e \in Nat : k <= e => (k + 1 .. e) \cup {e + 1} = k + 1 .. e + 1
    /\ \A k, e \in Nat : (k + 1 .. e) \ {k + 1} = k + 2 .. e
OBVIOUS

LEMMA FlowInit == SubInit => FlowInv(<<>>)
<1> SUFFICES ASSUME SubInit PROVE FlowInv(<<>>)
  OBVIOUS
<1>1. \A s \in SubId : Numbers(<<>>, s) = {} /\ emitted[s] = 0
  BY DEF Numbers, SubInit
<1>2. Contiguous(<<>>)
  <2> SUFFICES ASSUME NEW s \in SubId
               PROVE  \E n \in Nat : n <= emitted[s] /\ Numbers(<<>>, s) = n + 1 .. emitted[s]
    BY DEF Contiguous
  <2>1. 0 \in Nat /\ 0 <= 0 /\ {} = 0 + 1 .. 0
    OBVIOUS
  <2> WITNESS 0 \in Nat
  <2> QED
    BY <1>1, <2>1
<1>3. Ordered(<<>>)
  BY DEF Ordered
<1>4. Follows(<<>>) /\ NoGap
  BY DEF SubInit, Follows, NoGap
<1> QED
  BY <1>2, <1>3, <1>4 DEF FlowInv

LEMMA NumbersAppend ==
    ASSUME NEW S, NEW w \in Seq(S), NEW m \in S, NEW s
    PROVE  Numbers(Append(w, m), s) = Numbers(w, s) \cup (IF IsNote(m, s) THEN {m.number} ELSE {})
<1> DEFINE r == Append(w, m)
<1>1. /\ Len(r) = Len(w) + 1 /\ Len(w) \in Nat
      /\ \A i \in 1 .. Len(w) : r[i] = w[i]
      /\ r[Len(w) + 1] = m
  OBVIOUS
<1> HIDE DEF r
<1>2. \A i \in 1 .. Len(r) : i \in 1 .. Len(w) \/ i = Len(w) + 1
  BY <1>1
<1>3. \A i \in 1 .. Len(w) : i \in 1 .. Len(r)
  BY <1>1
<1>4. Len(w) + 1 \in 1 .. Len(r)
  BY <1>1
<1>5. Numbers(r, s) = Numbers(w, s) \cup (IF IsNote(m, s) THEN {m.number} ELSE {})
  BY <1>1, <1>2, <1>3, <1>4 DEF Numbers
<1> QED
  BY <1>5 DEF r

LEMMA NumbersTail ==
    ASSUME NEW S, NEW w \in Seq(S), w # <<>>, Ordered(w), Messages(S), NEW s \in SubId
    PROVE  Numbers(Tail(w), s) =
             Numbers(w, s) \ (IF IsNote(Head(w), s) THEN {Head(w).number} ELSE {})
<1> DEFINE r == Tail(w)
<1>1. /\ Len(w) \in Nat \ {0} /\ Len(r) = Len(w) - 1
      /\ \A i \in 1 .. Len(r) : r[i] = w[i + 1]
      /\ \A i \in 1 .. Len(w) : w[i] \in S
      /\ Head(w) = w[1]
  OBVIOUS
<1> HIDE DEF r
<1>2. \A i \in 1 .. Len(r) : i + 1 \in 1 .. Len(w) /\ 1 < i + 1
  BY <1>1
<1>3. \A i \in 1 .. Len(w) : i = 1 \/ (i - 1 \in 1 .. Len(r) /\ r[i - 1] = w[i])
  BY <1>1
<1>4. \A n \in Numbers(r, s) : n \in Numbers(w, s)
  BY <1>1, <1>2 DEF Numbers
<1>5. ASSUME IsNote(Head(w), s), NEW n \in Numbers(r, s) PROVE n # Head(w).number
  <2>1. PICK i \in 1 .. Len(r) : IsNote(w[i + 1], s) /\ n = w[i + 1].number
    BY <1>1 DEF Numbers
  <2>2. 1 \in 1 .. Len(w) /\ i + 1 \in 1 .. Len(w) /\ 1 < i + 1
    BY <1>1, <1>2
  <2>3. w[1].number < w[i + 1].number
    BY <1>1, <1>5, <2>1, <2>2 DEF Ordered
  <2>4. w[1].number \in Nat /\ w[i + 1].number \in Nat
    <3>1. w[1] \in S /\ w[i + 1] \in S
      BY <1>1, <2>2
    <3> QED
      BY <1>1, <1>5, <2>1, <3>1 DEF Messages
  <2> QED
    BY <1>1, <2>1, <2>3, <2>4
<1>6. ASSUME NEW n \in Numbers(w, s), n \notin Numbers(r, s)
      PROVE  IsNote(Head(w), s) /\ n = Head(w).number
  <2>1. PICK i \in 1 .. Len(w) : IsNote(w[i], s) /\ n = w[i].number
    BY DEF Numbers
  <2>2. i = 1
    BY <1>3, <1>6, <2>1 DEF Numbers
  <2> QED
    BY <1>1, <2>1, <2>2
<1>7. Numbers(r, s) = Numbers(w, s) \ (IF IsNote(Head(w), s) THEN {Head(w).number} ELSE {})
  <2>1. CASE IsNote(Head(w), s)
    BY <1>4, <1>5, <1>6, <2>1
  <2>2. CASE ~IsNote(Head(w), s)
    BY <1>4, <1>6, <2>2
  <2> QED
    BY <2>1, <2>2
<1> QED
  BY <1>7 DEF r

LEMMA OrderedAppend ==
    ASSUME NEW S, NEW w \in Seq(S), NEW m \in S, Ordered(w), Messages(S),
           \A s \in SubId : IsNote(m, s) => \A n \in Numbers(w, s) : n < m.number
    PROVE  Ordered(Append(w, m))
<1> DEFINE r == Append(w, m)
<1>1. /\ Len(r) = Len(w) + 1 /\ Len(w) \in Nat
      /\ \A i \in 1 .. Len(w) : r[i] = w[i]
      /\ r[Len(w) + 1] = m
  OBVIOUS
<1> HIDE DEF r
<1>2. ASSUME NEW s \in SubId, NEW i \in 1 .. Len(r), NEW j \in 1 .. Len(r),
             IsNote(r[i], s), IsNote(r[j], s), i < j
      PROVE  r[i].number < r[j].number
  <2>1. i \in 1 .. Len(w)
    BY <1>1, <1>2
  <2>2. CASE j \in 1 .. Len(w)
    BY <1>1, <1>2, <2>1, <2>2 DEF Ordered
  <2>3. CASE j = Len(w) + 1
    <3>1. w[i].number \in Numbers(w, s)
      BY <1>1, <1>2, <2>1 DEF Numbers
    <3> QED
      BY <1>1, <1>2, <2>1, <2>3, <3>1
  <2> QED
    BY <1>1, <2>2, <2>3
<1>3. Ordered(r)
  BY <1>2 DEF Ordered
<1> QED
  BY <1>3 DEF r

LEMMA OrderedTail ==
    ASSUME NEW S, NEW w \in Seq(S), w # <<>>, Ordered(w)
    PROVE  Ordered(Tail(w))
<1> DEFINE r == Tail(w)
<1>1. /\ Len(w) \in Nat \ {0} /\ Len(r) = Len(w) - 1
      /\ \A i \in 1 .. Len(r) : r[i] = w[i + 1] /\ i + 1 \in 1 .. Len(w)
  OBVIOUS
<1> HIDE DEF r
<1>2. ASSUME NEW s \in SubId, NEW i \in 1 .. Len(r), NEW j \in 1 .. Len(r),
             IsNote(r[i], s), IsNote(r[j], s), i < j
      PROVE  r[i].number < r[j].number
  <2>1. i + 1 \in 1 .. Len(w) /\ j + 1 \in 1 .. Len(w) /\ i + 1 < j + 1
    BY <1>1, <1>2
  <2> QED
    BY <1>1, <1>2, <2>1 DEF Ordered
<1>3. Ordered(r)
  BY <1>2 DEF Ordered
<1> QED
  BY <1>3 DEF r

(* A step that changes neither the numbers on their way nor what the streams
   were given, and registers no stream that was given any. *)
LEMMA FlowFrame ==
    ASSUME SubTypesOK, NEW w, FlowInv(w), NEW w2, Ordered(w2),
           \A s \in SubId : Numbers(w2, s) = Numbers(w, s),
           UNCHANGED <<sub, log, emitted>>,
           \A h \in Stream : registered'[sub[h]] = h => registered[sub[h]] = h \/ log[h] = <<>>
    PROVE  FlowInv(w2)'
<1>1. Ordered(w2)'
  BY DEF Ordered
<1>2. \A s : Numbers(w2, s)' = Numbers(w2, s)
  BY DEF Numbers
<1>3. Contiguous(w2)'
  BY <1>2 DEF FlowInv, Contiguous
<1>4. Follows(w2)'
  BY <1>2 DEF FlowInv, Follows, SubTypesOK
<1>5. NoGap'
  BY DEF FlowInv, NoGap
<1> QED
  BY <1>1, <1>3, <1>4, <1>5 DEF FlowInv

(* A message that is no notification joins the others or is taken. *)
LEMMA FlowAppend ==
    ASSUME SubTypesOK, NEW S, NEW w \in Seq(S), FlowInv(w), Messages(S), NEW m \in S,
           \A s \in SubId : ~IsNote(m, s), UNCHANGED subVars
    PROVE  FlowInv(Append(w, m))'
<1>1. ASSUME NEW s \in SubId PROVE Numbers(Append(w, m), s) = Numbers(w, s)
  <2>1. Numbers(Append(w, m), s) = Numbers(w, s) \cup (IF IsNote(m, s) THEN {m.number} ELSE {})
    BY NumbersAppend
  <2> QED
    BY <2>1
<1>2. Ordered(Append(w, m))
  BY OrderedAppend DEF FlowInv
<1> QED
  BY <1>1, <1>2, FlowFrame DEF subVars

LEMMA FlowTail ==
    ASSUME SubTypesOK, NEW S, NEW w \in Seq(S), w # <<>>, FlowInv(w), Messages(S),
           \A s \in SubId : ~IsNote(Head(w), s), UNCHANGED subVars
    PROVE  FlowInv(Tail(w))'
<1>1. \A s \in SubId : Numbers(Tail(w), s) = Numbers(w, s)
  BY NumbersTail DEF FlowInv
<1>2. Ordered(Tail(w))
  BY OrderedTail DEF FlowInv
<1> QED
  BY <1>1, <1>2, FlowFrame DEF subVars

LEMMA FlowEmit ==
    ASSUME SubTypesOK, NEW S, NEW w \in Seq(S), FlowInv(w), Messages(S),
           NEW s \in SubId, NEW m \in S, m = NoteOf(s, emitted[s] + 1), Emit(s),
           NEW w2, w2 = Append(w, m)
    PROVE  FlowInv(w2)'
<1>1. /\ \A t : IsNote(m, t) <=> t = s
      /\ m.number = emitted[s] + 1
      /\ emitted[s] \in Nat
  BY DEF NoteOf, IsNote, SubTypesOK
<1>2. \A t \in SubId : Numbers(w2, t) = Numbers(w, t) \cup (IF t = s THEN {emitted[s] + 1} ELSE {})
  BY <1>1, NumbersAppend
<1>3. PICK n \in Nat : n <= emitted[s] /\ Numbers(w, s) = n + 1 .. emitted[s]
  BY DEF FlowInv, Contiguous
<1>4. Ordered(w2)
  BY <1>1, <1>3, OrderedAppend DEF FlowInv
<1>5. /\ \A t \in SubId : emitted'[t] = IF t = s THEN emitted[s] + 1 ELSE emitted[t]
      /\ UNCHANGED <<registered, sub, log>>
  BY DEF Emit, SubTypesOK
<1>6. ASSUME NEW k \in Nat, k <= emitted[s], Numbers(w, s) = k + 1 .. emitted[s]
      PROVE  k <= emitted'[s] /\ Numbers(w2, s) = k + 1 .. emitted'[s]
  <2>1. Numbers(w2, s) = (k + 1 .. emitted[s]) \cup {emitted[s] + 1}
    BY <1>2, <1>6
  <2>2. Numbers(w2, s) = k + 1 .. emitted[s] + 1
    BY <1>1, <1>6, <2>1, Intervals
  <2> QED
    BY <1>1, <1>5, <1>6, <2>2
<1>7. \A t : Numbers(w2, t)' = Numbers(w2, t)
  BY DEF Numbers
<1>8. Contiguous(w2)'
  <2> SUFFICES ASSUME NEW t \in SubId
               PROVE  \E k \in Nat : k <= emitted'[t] /\ Numbers(w2, t) = k + 1 .. emitted'[t]
    BY <1>7 DEF Contiguous
  <2>1. PICK k \in Nat : k <= emitted[t] /\ Numbers(w, t) = k + 1 .. emitted[t]
    BY DEF FlowInv, Contiguous
  <2>2. CASE t = s
    BY <1>6, <2>1, <2>2
  <2>3. CASE t # s
    BY <1>2, <1>5, <2>1, <2>3
  <2> QED
    BY <2>2, <2>3
<1>9. Follows(w2)'
  <2> SUFFICES ASSUME NEW h \in Stream, registered[sub[h]] = h, log[h] # <<>>
               PROVE  /\ log[h][Len(log[h])] <= emitted'[sub[h]]
                      /\ Numbers(w2, sub[h]) = log[h][Len(log[h])] + 1 .. emitted'[sub[h]]
    BY <1>5, <1>7 DEF Follows
  <2>1. /\ sub[h] \in SubId /\ log[h] \in Seq(Nat)
        /\ log[h][Len(log[h])] <= emitted[sub[h]]
        /\ Numbers(w, sub[h]) = log[h][Len(log[h])] + 1 .. emitted[sub[h]]
    BY DEF FlowInv, Follows, SubTypesOK
  <2>2. CASE sub[h] # s
    BY <1>2, <1>5, <2>1, <2>2
  <2>3. CASE sub[h] = s
    <3>1. log[h][Len(log[h])] \in Nat
      BY <2>1
    <3> QED
      BY <1>6, <2>1, <2>3, <3>1
  <2> QED
    BY <2>2, <2>3
<1>10. NoGap'
  BY <1>5 DEF FlowInv, NoGap
<1>11. Ordered(w2)'
  BY <1>4 DEF Ordered
<1> QED
  BY <1>8, <1>9, <1>10, <1>11 DEF FlowInv

LEMMA FlowRegister ==
    ASSUME SubTypesOK, NEW w, FlowInv(w), NEW W \in SUBSET Stream, NEW U, SinkInv(W, U),
           (\E h \in W : Register(h)) \/ (\E s \in SubId : Unregister(s)) \/ CloseAll
           \/ (\E h \in Stream, r \in Reader : Becomes(h, r))
           \/ (\E h \in Stream, alive \in BOOLEAN : Receive(h, alive))
    PROVE  FlowInv(w)'
<1>1. Ordered(w)
  BY DEF FlowInv
<1>2. UNCHANGED <<sub, log, emitted>>
  BY DEF Register, Unregister, CloseAll, Becomes, Receive
<1>3. ASSUME NEW g \in W, Register(g), NEW h \in Stream, registered'[sub[h]] = h
      PROVE  registered[sub[h]] = h \/ log[h] = <<>>
  BY <1>3 DEF Register, SubTypesOK, SinkInv
<1>4. ASSUME NEW h \in Stream, registered'[sub[h]] = h,
             (\E s \in SubId : Unregister(s)) \/ CloseAll
      PROVE  registered[sub[h]] = h
  BY <1>4, StreamsAssumption DEF Unregister, CloseAll, SubTypesOK
<1>5. (\E h \in Stream, r \in Reader : Becomes(h, r))
      \/ (\E h \in Stream, alive \in BOOLEAN : Receive(h, alive)) => registered' = registered
  BY DEF Becomes, Receive
<1>6. \A h \in Stream : registered'[sub[h]] = h => registered[sub[h]] = h \/ log[h] = <<>>
  BY <1>3, <1>4, <1>5
<1> QED
  BY <1>1, <1>2, <1>6, FlowFrame

(* The task takes the next notification off the wire. *)
LEMMA FlowOffer ==
    ASSUME SubTypesOK, NEW S, NEW w \in Seq(S), w # <<>>, FlowInv(w), Messages(S),
           NEW W, NEW U, SinkInv(W, U), NEW capacity,
           NEW s \in SubId, IsNote(Head(w), s), Offer(s, Head(w).number, capacity),
           NEW w2, w2 = Tail(w)
    PROVE  FlowInv(w2)'
<1> DEFINE n == Head(w).number
           h == registered[s]
<1>1. Head(w) \in S /\ n \in Nat
  BY DEF Messages
<1>2. \A t \in SubId : IsNote(Head(w), t) <=> t = s
  BY DEF IsNote
<1>3. ASSUME NEW t \in SubId
      PROVE  Numbers(w2, t) = Numbers(w, t) \ (IF t = s THEN {n} ELSE {})
  <2>1. Numbers(w2, t) = Numbers(w, t) \ (IF IsNote(Head(w), t) THEN {n} ELSE {})
    BY NumbersTail DEF FlowInv
  <2> QED
    BY <1>2, <2>1
<1>4. PICK k \in Nat : k <= emitted[s] /\ Numbers(w, s) = k + 1 .. emitted[s]
  BY DEF FlowInv, Contiguous
<1>5. emitted[s] \in Nat
  BY DEF SubTypesOK
<1>6. n = k + 1 /\ n <= emitted[s]
  <2>1. /\ Len(w) \in Nat /\ 1 \in 1 .. Len(w) /\ Head(w) = w[1]
        /\ \A i \in 1 .. Len(w) : w[i] \in S
    OBVIOUS
  <2>2. n \in Numbers(w, s)
    BY <2>1 DEF Numbers
  <2>3. k + 1 \in Numbers(w, s)
    BY <1>4, <1>5, <2>2
  <2>4. PICK i \in 1 .. Len(w) : IsNote(w[i], s) /\ w[i].number = k + 1
    BY <2>3 DEF Numbers
  <2>5. i = 1 \/ n < k + 1
    <3>1. i = 1 \/ 1 < i
      BY <2>1
    <3> QED
      BY <2>1, <2>4, <3>1 DEF FlowInv, Ordered
  <2> QED
    BY <1>1, <1>4, <1>5, <2>1, <2>2, <2>4, <2>5
<1>7. Numbers(w2, s) = n + 1 .. emitted[s]
  <2>1. Numbers(w2, s) = (k + 1 .. emitted[s]) \ {k + 1}
    BY <1>3, <1>4, <1>6
  <2>2. Numbers(w2, s) = k + 2 .. emitted[s]
    BY <1>4, <1>5, <2>1, Intervals
  <2>3. k + 2 = n + 1
    BY <1>6
  <2> QED
    BY <2>2, <2>3
<1>8. Ordered(w2) /\ \A t : Numbers(w2, t)' = Numbers(w2, t)
  BY OrderedTail DEF FlowInv, Numbers
<1>9. /\ UNCHANGED <<sub, emitted>>
      /\ \A g \in Stream : registered'[sub[g]] = g => registered[sub[g]] = g
  BY StreamsAssumption DEF Offer, Unregister, subVars, SubTypesOK
<1>10. Contiguous(w2)'
  <2> SUFFICES ASSUME NEW t \in SubId
               PROVE  \E m \in Nat : m <= emitted[t] /\ Numbers(w2, t) = m + 1 .. emitted[t]
    BY <1>8, <1>9 DEF Contiguous
  <2>1. CASE t = s
    BY <1>1, <1>6, <1>7, <2>1
  <2>2. CASE t # s
    BY <1>3, <2>2 DEF FlowInv, Contiguous
  <2> QED
    BY <2>1, <2>2
<1>11. \A g \in Stream : log'[g] = log[g] \/ (g = h /\ log'[g] = Append(log[g], n))
  BY DEF Offer, Unregister, subVars, SubTypesOK
<1>12. ASSUME NEW g \in Stream, g = h PROVE sub[g] = s /\ registered[sub[g]] = g
  BY <1>12, StreamsAssumption DEF SinkInv
<1>13. ASSUME NEW g \in Stream, registered[sub[g]] = g, sub[g] = s,
              log'[g] = log[g], log[g] # <<>>
       PROVE  registered'[sub[g]] # g
  <2>1. h = g /\ g # NoStream
    BY <1>13, StreamsAssumption
  <2>2. CASE /\ h # NoStream /\ consumer[h] = "open" /\ Buffered(h) < capacity
             /\ log' = [log EXCEPT ![h] = Append(@, n)]
    <3>1. log[g] \in Seq(Nat) /\ log'[g] = Append(log[g], n)
      BY <2>1, <2>2 DEF SubTypesOK
    <3> QED
      BY <1>1, <1>13, <3>1
  <2>3. CASE Unregister(s)
    BY <1>13, <2>1, <2>3 DEF Unregister, SubTypesOK
  <2> QED
    BY <2>1, <2>2, <2>3 DEF Offer
<1>14. Follows(w2)'
  <2> SUFFICES ASSUME NEW g \in Stream, registered'[sub[g]] = g, log'[g] # <<>>
               PROVE  /\ log'[g][Len(log'[g])] <= emitted[sub[g]]
                      /\ Numbers(w2, sub[g]) = log'[g][Len(log'[g])] + 1 .. emitted[sub[g]]
    BY <1>8, <1>9 DEF Follows
  <2>1. registered[sub[g]] = g /\ sub[g] \in SubId /\ log[g] \in Seq(Nat)
    BY <1>9 DEF SubTypesOK
  <2>2. CASE log'[g] = log[g]
    <3>1. sub[g] # s
      BY <1>13, <2>1, <2>2
    <3> QED
      BY <1>3, <2>1, <2>2, <3>1 DEF FlowInv, Follows
  <2>3. CASE g = h /\ log'[g] = Append(log[g], n)
    <3>1. log'[g][Len(log'[g])] = n
      BY <1>1, <2>1, <2>3
    <3> QED
      BY <1>6, <1>7, <1>12, <2>3, <3>1
  <2> QED
    BY <1>11, <2>2, <2>3
<1>15. NoGap'
  <2> SUFFICES ASSUME NEW g \in Stream, NEW i \in 1 .. Len(log'[g]) - 1
               PROVE  log'[g][i + 1] = log'[g][i] + 1
    BY DEF NoGap
  <2>1. log[g] \in Seq(Nat) /\ \A j \in 1 .. Len(log[g]) - 1 : log[g][j + 1] = log[g][j] + 1
    BY DEF SubTypesOK, FlowInv, NoGap
  <2>2. CASE log'[g] = log[g]
    BY <2>1, <2>2
  <2>3. CASE g = h /\ log'[g] = Append(log[g], n)
    <3>1. CASE i \in 1 .. Len(log[g]) - 1
      BY <1>1, <2>1, <2>3, <3>1
    <3>2. CASE i = Len(log[g])
      <4>1. log[g] # <<>> /\ log[g][i] \in Nat
        BY <2>1, <3>2
      <4>2. Numbers(w, s) = log[g][i] + 1 .. emitted[s]
        BY <1>12, <2>3, <3>2, <4>1 DEF FlowInv, Follows
      <4>3. n = log[g][i] + 1
        <5>1. k + 1 .. emitted[s] = log[g][i] + 1 .. emitted[s]
          BY <1>4, <4>2
        <5> QED
          BY <1>5, <1>6, <4>1, <5>1
      <4>4. log'[g][i] = log[g][i] /\ log'[g][i + 1] = n
        BY <1>1, <2>1, <2>3, <3>2, <4>1
      <4> QED
        BY <4>3, <4>4
    <3>3. Len(log'[g]) = Len(log[g]) + 1 /\ Len(log[g]) \in Nat
      BY <1>1, <2>1, <2>3
    <3> QED
      BY <3>1, <3>2, <3>3
  <2> QED
    BY <1>11, <2>2, <2>3
<1>16. Ordered(w2)'
  BY <1>8 DEF Ordered
<1> QED
  BY <1>10, <1>14, <1>15, <1>16 DEF FlowInv

-----------------------------------------------------------------------------
(* A transport: q is the queue of its task, w the messages on their way to it. *)

StreamsInv(q, w) == SinkInv(Waiting(q), Leaving(q)) /\ OnceEach(q) /\ FlowInv(w)

(* A message of the queue that is about no stream. *)
Other(m) == (\A h \in Stream : m # SubscribeOf(h)) /\ \A s \in SubId : m # UnsubscribeOf(s)

LEMMA QueueDiffers ==
    /\ \A g, h : SubscribeOf(g) = SubscribeOf(h) => g = h
    /\ \A s, t : UnsubscribeOf(s) = UnsubscribeOf(t) => s = t
    /\ \A h, s : SubscribeOf(h) # UnsubscribeOf(s)
BY DEF SubscribeOf, UnsubscribeOf

LEMMA WaitingTypes == \A q : Waiting(q) \in SUBSET Stream /\ Leaving(q) \in SUBSET SubId
BY DEF Waiting, Leaving

LEMMA StreamsIdle ==
    ASSUME SubTypesOK, NEW Q, NEW q \in Seq(Q), NEW S, NEW w \in Seq(S), Messages(S),
           StreamsInv(q, w), NEW capacity, NEW q2, NEW w2, UNCHANGED subVars,
           \/ q2 = q
           \/ \E m \in Q : q2 = Append(q, m) /\ Other(m)
           \/ q # <<>> /\ q2 = Tail(q) /\ \A h \in Stream : Head(q) # SubscribeOf(h),
           \/ w2 = w
           \/ \E m \in S : w2 = Append(w, m) /\ \A s \in SubId : ~IsNote(m, s)
           \/ w # <<>> /\ w2 = Tail(w) /\ \A s \in SubId : ~IsNote(Head(w), s)
    PROVE  StreamsInv(q2, w2)' /\ Kept(Waiting(q), Waiting(q2), capacity)
<1>1. Waiting(q2) = Waiting(q) /\ Leaving(q2) \subseteq Leaving(q) /\ OnceEach(q2)
  <2>1. ASSUME NEW m \in Q, q2 = Append(q, m), Other(m)
        PROVE  Waiting(q2) = Waiting(q) /\ Leaving(q2) \subseteq Leaving(q) /\ OnceEach(q2)
    <3>1. /\ Waiting(Append(q, m)) = Waiting(q) \cup {h \in Stream : m = SubscribeOf(h)}
          /\ Leaving(Append(q, m)) = Leaving(q) \cup {s \in SubId : m = UnsubscribeOf(s)}
          /\ OnceEach(q) /\ (\A h \in Waiting(q) : m # SubscribeOf(h)) => OnceEach(Append(q, m))
      BY QueueAppend
    <3>2. /\ {h \in Stream : m = SubscribeOf(h)} = {}
          /\ {s \in SubId : m = UnsubscribeOf(s)} = {}
          /\ \A h \in Waiting(q) : m # SubscribeOf(h)
      BY <2>1, WaitingTypes DEF Other
    <3> QED
      BY <2>1, <3>1, <3>2 DEF StreamsInv
  <2>2. ASSUME q # <<>>, q2 = Tail(q), \A h \in Stream : Head(q) # SubscribeOf(h)
        PROVE  Waiting(q2) = Waiting(q) /\ Leaving(q2) \subseteq Leaving(q) /\ OnceEach(q2)
    BY <2>2, QueueTail DEF StreamsInv
  <2> QED
    BY <2>1, <2>2 DEF StreamsInv
<1>2. FlowInv(w2)'
  <2>1. CASE w2 = w
    <3>1. Ordered(w)
      BY DEF StreamsInv, FlowInv
    <3> QED
      BY <2>1, <3>1, FlowFrame DEF StreamsInv, subVars
  <2>2. ASSUME NEW m \in S, w2 = Append(w, m), \A s \in SubId : ~IsNote(m, s)
        PROVE  FlowInv(w2)'
    BY <2>2, FlowAppend DEF StreamsInv
  <2>3. CASE w # <<>> /\ w2 = Tail(w) /\ \A s \in SubId : ~IsNote(Head(w), s)
    BY <2>3, FlowTail DEF StreamsInv
  <2> QED
    BY <2>1, <2>2, <2>3
<1>3. SinkInv(Waiting(q), Leaving(q2))' /\ Kept(Waiting(q), Waiting(q), capacity)
  BY <1>1, WaitingTypes, SinkFrame DEF StreamsInv
<1> QED
  BY <1>1, <1>2, <1>3 DEF StreamsInv, OnceEach

(* A caller subscribes, reads, or drops a stream. *)
LEMMA StreamsSubscribe ==
    ASSUME SubTypesOK, NEW Q, NEW q \in Seq(Q), NEW w, StreamsInv(q, w), NEW capacity, NEW q2,
           NEW h \in Stream, SubscribeOf(h) \in Q, consumer[h] = "none",
           \/ q2 = Append(q, SubscribeOf(h)) /\ Becomes(h, "open")
           \/ q2 = q /\ Becomes(h, "refused")
    PROVE  StreamsInv(q2, w)' /\ Kept(Waiting(q), Waiting(q2), capacity)
<1>1. FlowInv(w)'
  <2>1. Ordered(w) /\ UNCHANGED <<registered, sub, log, emitted>>
    BY DEF StreamsInv, FlowInv, Becomes
  <2> QED
    BY <2>1, FlowFrame DEF StreamsInv
<1>2. CASE q2 = Append(q, SubscribeOf(h)) /\ Becomes(h, "open")
  <2>1. Waiting(q2) = Waiting(q) \cup {h} /\ Leaving(q2) = Leaving(q)
    <3>1. /\ Waiting(q2) = Waiting(q) \cup {g \in Stream : SubscribeOf(h) = SubscribeOf(g)}
          /\ Leaving(q2) = Leaving(q) \cup {s \in SubId : SubscribeOf(h) = UnsubscribeOf(s)}
      BY <1>2, QueueAppend
    <3>2. /\ {g \in Stream : SubscribeOf(h) = SubscribeOf(g)} = {h}
          /\ {s \in SubId : SubscribeOf(h) = UnsubscribeOf(s)} = {}
      BY QueueDiffers
    <3> QED
      BY <3>1, <3>2
  <2>2. h \notin Waiting(q)
    BY DEF StreamsInv, SinkInv
  <2>3. OnceEach(q2)
    <3>1. OnceEach(q) /\ (\A g \in Waiting(q) : SubscribeOf(h) # SubscribeOf(g)) => OnceEach(q2)
      BY <1>2, QueueAppend
    <3> QED
      BY <2>2, <3>1, QueueDiffers DEF StreamsInv
  <2>4. SinkInv(Waiting(q) \cup {h}, Leaving(q))' /\ Kept(Waiting(q), Waiting(q) \cup {h}, capacity)
    BY <1>2, WaitingTypes, SinkSubscribe DEF StreamsInv
  <2> QED
    BY <1>1, <2>1, <2>3, <2>4 DEF StreamsInv, OnceEach
<1>3. CASE q2 = q /\ Becomes(h, "refused")
  <2>1. SinkInv(Waiting(q), Leaving(q))' /\ Kept(Waiting(q), Waiting(q), capacity)
    BY <1>3, WaitingTypes, SinkSubscribe DEF StreamsInv
  <2> QED
    BY <1>1, <1>3, <2>1 DEF StreamsInv, OnceEach
<1> QED
  BY <1>2, <1>3

LEMMA StreamsPoll ==
    ASSUME SubTypesOK, NEW q, NEW w, StreamsInv(q, w), NEW capacity,
           NEW h \in Stream, consumer[h] = "open", Receive(h, Alive(h, Waiting(q)))
    PROVE  StreamsInv(q, w)' /\ Kept(Waiting(q), Waiting(q), capacity)
<1>1. FlowInv(w)'
  <2>1. Ordered(w) /\ UNCHANGED <<registered, sub, log, emitted>>
    BY DEF StreamsInv, FlowInv, Receive, Becomes
  <2> QED
    BY <2>1, FlowFrame DEF StreamsInv
<1>2. SinkInv(Waiting(q), Leaving(q))' /\ Kept(Waiting(q), Waiting(q), capacity)
  BY WaitingTypes, SinkReceive DEF StreamsInv
<1> QED
  BY <1>1, <1>2 DEF StreamsInv, OnceEach

LEMMA StreamsDrop ==
    ASSUME SubTypesOK, NEW Q, NEW q \in Seq(Q), NEW w, StreamsInv(q, w), NEW capacity, NEW q2,
           NEW h \in Stream, UnsubscribeOf(sub[h]) \in Q, consumer[h] \in {"open", "ended"},
           Becomes(h, "dropped"), q2 = q \/ q2 = Append(q, UnsubscribeOf(sub[h]))
    PROVE  StreamsInv(q2, w)' /\ Kept(Waiting(q), Waiting(q2), capacity)
<1>1. FlowInv(w)'
  <2>1. Ordered(w) /\ UNCHANGED <<registered, sub, log, emitted>>
    BY DEF StreamsInv, FlowInv, Becomes
  <2> QED
    BY <2>1, FlowFrame DEF StreamsInv
<1>2. sub[h] \in SubId
  BY DEF SubTypesOK
<1>3. /\ SinkInv(Waiting(q), Leaving(q))' /\ SinkInv(Waiting(q), Leaving(q) \cup {sub[h]})'
      /\ Kept(Waiting(q), Waiting(q), capacity)
  BY WaitingTypes, SinkDrop DEF StreamsInv
<1>4. CASE q2 = Append(q, UnsubscribeOf(sub[h]))
  <2>1. Waiting(q2) = Waiting(q) /\ Leaving(q2) = Leaving(q) \cup {sub[h]} /\ OnceEach(q2)
    <3> DEFINE m == UnsubscribeOf(sub[h])
    <3>1. /\ Waiting(q2) = Waiting(q) \cup {g \in Stream : m = SubscribeOf(g)}
          /\ Leaving(q2) = Leaving(q) \cup {s \in SubId : m = UnsubscribeOf(s)}
          /\ OnceEach(q) /\ (\A g \in Waiting(q) : m # SubscribeOf(g)) => OnceEach(q2)
      BY <1>4, QueueAppend
    <3>2. /\ {g \in Stream : m = SubscribeOf(g)} = {}
          /\ {s \in SubId : m = UnsubscribeOf(s)} = {sub[h]}
          /\ \A g \in Waiting(q) : m # SubscribeOf(g)
      BY <1>2, QueueDiffers
    <3> QED
      BY <3>1, <3>2 DEF StreamsInv
  <2>2. sub' = sub
    BY DEF Becomes
  <2>3. SinkInv(Waiting(q2), Leaving(q2))'
    BY <1>3, <2>1, <2>2 DEF SinkInv
  <2> QED
    BY <1>1, <1>3, <2>1, <2>3 DEF StreamsInv, OnceEach
<1> QED
  BY <1>1, <1>3, <1>4 DEF StreamsInv, OnceEach

(* The task takes a message about a stream off the queue. *)
LEMMA StreamsTake ==
    ASSUME SubTypesOK, NEW Q, NEW q \in Seq(Q), NEW w, StreamsInv(q, w), NEW capacity, NEW q2,
           q # <<>>, q2 = Tail(q),
           \/ \E h \in Stream : Head(q) = SubscribeOf(h) /\ Register(h)
           \/ \E s \in SubId : Head(q) = UnsubscribeOf(s) /\ Unregister(s)
    PROVE  StreamsInv(q2, w)' /\ Kept(Waiting(q), Waiting(q2), capacity)
<1>1. ASSUME NEW h \in Stream, Head(q) = SubscribeOf(h), Register(h)
      PROVE  StreamsInv(q2, w)' /\ Kept(Waiting(q), Waiting(q2), capacity)
  <2>1. /\ h \in Waiting(q) /\ Waiting(q2) = Waiting(q) \ {h}
        /\ Leaving(q2) \subseteq Leaving(q) /\ OnceEach(q2)
    <3>1. /\ Waiting(q2) = Waiting(q) \ {g \in Stream : SubscribeOf(h) = SubscribeOf(g)}
          /\ h \in Waiting(q) /\ Leaving(q2) \subseteq Leaving(q) /\ OnceEach(q2)
      BY <1>1, QueueTail DEF StreamsInv
    <3>2. {g \in Stream : SubscribeOf(h) = SubscribeOf(g)} = {h}
      BY QueueDiffers
    <3> QED
      BY <3>1, <3>2
  <2>2. FlowInv(w)'
    BY <1>1, <2>1, WaitingTypes, FlowRegister DEF StreamsInv
  <2>3. SinkInv(Waiting(q) \ {h}, Leaving(q))' /\ Kept(Waiting(q), Waiting(q) \ {h}, capacity)
    BY <1>1, <2>1, WaitingTypes, SinkRegister DEF StreamsInv
  <2>4. SinkInv(Waiting(q2), Leaving(q2))'
    BY <2>1, <2>3 DEF SinkInv
  <2> QED
    BY <2>1, <2>2, <2>3, <2>4 DEF StreamsInv, OnceEach
<1>2. ASSUME NEW s \in SubId, Head(q) = UnsubscribeOf(s), Unregister(s)
      PROVE  StreamsInv(q2, w)' /\ Kept(Waiting(q), Waiting(q2), capacity)
  <2>1. /\ s \in Leaving(q) /\ Waiting(q2) = Waiting(q)
        /\ Leaving(q2) \subseteq Leaving(q) /\ OnceEach(q2)
    <3>1. /\ Waiting(q2) = Waiting(q) \ {g \in Stream : UnsubscribeOf(s) = SubscribeOf(g)}
          /\ s \in Leaving(q) /\ Leaving(q2) \subseteq Leaving(q) /\ OnceEach(q2)
      BY <1>2, QueueTail DEF StreamsInv
    <3>2. {g \in Stream : UnsubscribeOf(s) = SubscribeOf(g)} = {}
      BY QueueDiffers
    <3> QED
      BY <3>1, <3>2
  <2>2. FlowInv(w)'
    BY <1>2, WaitingTypes, FlowRegister DEF StreamsInv
  <2>3. SinkInv(Waiting(q), Leaving(q))' /\ Kept(Waiting(q), Waiting(q), capacity)
    BY <1>2, <2>1, WaitingTypes, SinkUnregister DEF StreamsInv
  <2>4. SinkInv(Waiting(q2), Leaving(q2))'
    BY <2>1, <2>3 DEF SinkInv
  <2> QED
    BY <2>1, <2>2, <2>3, <2>4 DEF StreamsInv, OnceEach
<1> QED
  BY <1>1, <1>2

(* The task takes a notification off the wire, or the peer sends one. *)
LEMMA StreamsOffer ==
    ASSUME SubTypesOK, NEW q, NEW S, NEW w \in Seq(S), w # <<>>, Messages(S), StreamsInv(q, w),
           NEW capacity \in Nat, NEW w2, w2 = Tail(w),
           NEW s \in SubId, IsNote(Head(w), s), Offer(s, Head(w).number, capacity)
    PROVE  StreamsInv(q, w2)' /\ Kept(Waiting(q), Waiting(q), capacity)
<1>1. FlowInv(w2)'
  BY WaitingTypes, FlowOffer DEF StreamsInv
<1>2. Head(w).number \in Nat
  BY DEF Messages
<1>3. SinkInv(Waiting(q), Leaving(q))' /\ Kept(Waiting(q), Waiting(q), capacity)
  BY <1>2, WaitingTypes, SinkOffer DEF StreamsInv
<1> QED
  BY <1>1, <1>3 DEF StreamsInv, OnceEach

LEMMA StreamsEmit ==
    ASSUME SubTypesOK, NEW q, NEW S, NEW w \in Seq(S), Messages(S), StreamsInv(q, w),
           NEW capacity, NEW m \in S, NEW w2, w2 = Append(w, m),
           NEW s \in SubId, m = NoteOf(s, emitted[s] + 1), Emit(s)
    PROVE  StreamsInv(q, w2)' /\ Kept(Waiting(q), Waiting(q), capacity)
<1>1. FlowInv(w2)'
  BY FlowEmit DEF StreamsInv
<1>2. SinkInv(Waiting(q), Leaving(q))' /\ Kept(Waiting(q), Waiting(q), capacity)
  BY WaitingTypes, SinkFrame DEF StreamsInv
<1> QED
  BY <1>1, <1>2 DEF StreamsInv, OnceEach

(* The task is dropped, with its queue and its sinks. *)
LEMMA StreamsClose ==
    ASSUME SubTypesOK, NEW q, NEW w, StreamsInv(q, w), NEW q2, q2 = <<>>, CloseAll
    PROVE  StreamsInv(q2, w)'
<1>1. Waiting(q2) = {} /\ Leaving(q2) = {} /\ OnceEach(q2)
  BY DEF Waiting, Leaving, OnceEach
<1>2. FlowInv(w)'
  BY WaitingTypes, FlowRegister DEF StreamsInv
<1>3. SinkInv({}, {})'
  BY WaitingTypes, SinkCloseAll DEF StreamsInv
<1> QED
  BY <1>1, <1>2, <1>3 DEF StreamsInv, OnceEach

LEMMA StreamsInit == SubInit => StreamsInv(<<>>, <<>>)
<1>1. Waiting(<<>>) = {} /\ Leaving(<<>>) = {} /\ OnceEach(<<>>)
  BY DEF Waiting, Leaving, OnceEach
<1> QED
  BY <1>1, SinkInit, FlowInit DEF StreamsInv
=============================================================================
