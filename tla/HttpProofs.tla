----------------------------- MODULE HttpProofs -----------------------------
(* The HTTP transport, for any number of calls, sizes of batches and ids:
   types, the bound on a response, whose answer a call gets, and the promise of
   RpcClient.  Then its callers, for any wishes: they only use the transport as
   it allows, their requests have what they were given, their signatures can be
   recovered, and their values are what the node or the contract said. *)
EXTENDS HttpClient, TLAPS, WellFoundedInduction, SequenceTheorems, FiniteSetTheorems

-----------------------------------------------------------------------------
(* The transport on its own. *)

CallStatus == {"idle", "waiting", "answered", "unsent", "failed", "cancelled"}

(* HttpTypeOK, with domains for the functions to sequences. *)
TypesOK ==
    /\ status \in [Call -> CallStatus] /\ counter \in 0 .. MaxId
    /\ ids \in [Call -> Seq(0 .. MaxId)] /\ \A c \in Call : Len(ids[c]) <= Size[c]
    /\ exchange \in [Call -> {"none", "lazy", "posted", "reading"}]
    /\ received \in [Call -> Nat] /\ answer \in [Call -> Seq(Request)]
    /\ sent \in SUBSET Call

(* Who has an exchange waits and has all its ids; only what was posted is
   received, and only what the server received is answered. *)
Exchanges ==
    \A c \in Call :
        /\ exchange[c] # "none" => status[c] = "waiting"
        /\ status[c] = "waiting" => Len(ids[c]) = Size[c]
        /\ c \in sent => status[c] # "idle" /\ Len(ids[c]) = Size[c]
        /\ exchange[c] = "reading" => c \in sent

HttpInv == TypesOK /\ Exchanges /\ WithinBound /\ OwnAnswer

-----------------------------------------------------------------------------
(* What a body means to a call. *)

(* Naturals are well founded; so some of them have a least. *)
LEMMA LessIsWellFounded == IsWellFoundedOn({p \in Nat \X Nat : p[1] < p[2]}, Nat)
BY NatLessThanWellFounded, Zenon DEF OpToRel

LEMMA Least == ASSUME NEW T, T \subseteq Nat, T # {} PROVE \E x \in T : \A y \in T : x <= y
<1> DEFINE Less == {p \in Nat \X Nat : p[1] < p[2]}
<1>1. PICK x \in T : \A y \in T : ~ (<<y, x>> \in Less)
  <2>1. IsWellFoundedOn(Less, Nat)
    BY LessIsWellFounded
  <2> HIDE DEF Less
  <2> QED
    BY <2>1, WFMin
<1>2. ASSUME NEW y \in T PROVE x <= y
  <2>1. y \in Nat /\ x \in Nat
    OBVIOUS
  <2>2. CASE y < x
    <3>1. <<y, x>> \in Less
      BY <2>1, <2>2
    <3> QED
      BY <1>1, <3>1
  <2> QED
    BY <2>1, <2>2
<1> QED
  BY <1>2

(* The last of some positions. *)
LEMMA LastPosition ==
    ASSUME NEW n \in Nat, NEW S, S \subseteq 1 .. n, S # {}
    PROVE  \E k \in S : \A l \in S : l <= k
<1>1. PICK s \in S : TRUE
  OBVIOUS
<1> DEFINE T == {x \in Nat : n - x \in S}
<1>2. T \in SUBSET Nat /\ n - s \in T
  BY <1>1
<1>3. PICK x \in T : \A y \in T : x <= y
  <2> HIDE DEF T
  <2> QED
    BY <1>2, Least
<1>4. x \in Nat /\ n - x \in S
  BY <1>3
<1>5. ASSUME NEW l \in S PROVE l <= n - x
  <2>1. l \in Nat /\ n - l \in Nat /\ n - (n - l) = l
    OBVIOUS
  <2>2. n - l \in T
    BY <2>1
  <2>3. x <= n - l
    BY <1>3, <2>2
  <2> QED
    BY <1>4, <2>1, <2>3
<1> QED
  BY <1>4, <1>5

(* An output with an id of a call is one of the call's own. *)
LEMMA OutputIsOwn ==
    ASSUME TypesOK, Exchanges, NEW c \in Call, Len(ids[c]) = Size[c],
           NEW output \in Outputs(c), output.id \in IdsOf(c)
    PROVE  \E j \in 1 .. Size[c] : output.of = <<c, j>> /\ ids[c][j] = output.id
<1>1. PICK r \in Request : /\ r[1] \in Mixes(c)
                           /\ output \in [id : {ids[r[1]][r[2]], NoId}, of : {r}]
  BY DEF Outputs
<1>2. r[1] \in Call /\ r[2] \in 1 .. Size[r[1]] /\ r = <<r[1], r[2]>>
  BY <1>1, HttpAssumption DEF Request
<1>3. Len(ids[r[1]]) = Size[r[1]]
  BY <1>1, <1>2 DEF Mixes, Exchanges
<1>4. output.id = ids[r[1]][r[2]] /\ output.of = r
  <2>1. output.id \in Nat
    BY HttpAssumption DEF TypesOK, IdsOf
  <2> QED
    BY <1>1, <2>1, HttpAssumption
<1>5. output.id \in IdsOf(r[1])
  BY <1>2, <1>3, <1>4 DEF IdsOf
<1>6. r[1] = c
  BY <1>1, <1>5 DEF Mixes
<1> QED
  BY <1>2, <1>4, <1>6

LEMMA SingleIsOwn ==
    ASSUME TypesOK, Exchanges, NEW c \in Call, Len(ids[c]) = Size[c], Size[c] = 1,
           NEW outputs \in Bodies(c), Single(c, outputs) # <<>>
    PROVE  Single(c, outputs) = Own(c)
<1>1. Len(outputs) = 1 /\ outputs[1].id = ids[c][1] /\ Single(c, outputs) = <<outputs[1].of>>
  BY DEF Single
<1>2. outputs[1] \in Outputs(c)
  BY <1>1 DEF Bodies
<1>3. outputs[1].id \in IdsOf(c)
  BY <1>1 DEF IdsOf
<1>4. PICK j \in 1 .. Size[c] : outputs[1].of = <<c, j>>
  BY <1>2, <1>3, OutputIsOwn
<1>5. j = 1
  BY <1>4
<1> QED
  BY <1>1, <1>4, <1>5 DEF Own

LEMMA LatestIsOne ==
    ASSUME NEW n \in Nat, NEW outputs, DOMAIN outputs = 1 .. n, NEW i,
           \E k \in DOMAIN outputs : outputs[k].id = i
    PROVE  \E k \in DOMAIN outputs : outputs[k].id = i /\ LatestOf(outputs, i) = outputs[k].of
<1> DEFINE S == {k \in DOMAIN outputs : outputs[k].id = i}
<1>1. PICK k \in S : \A l \in S : l <= k
  <2>1. S \subseteq 1 .. n /\ S # {}
    OBVIOUS
  <2> QED
    BY <2>1, LastPosition
<1>2. \E m \in DOMAIN outputs :
        outputs[m].id = i /\ \A l \in DOMAIN outputs : outputs[l].id = i => l <= m
  BY <1>1
<1> QED
  BY <1>2 DEF LatestOf

LEMMA BatchIsOwn ==
    ASSUME TypesOK, Exchanges, NEW c \in Call, Len(ids[c]) = Size[c],
           NEW outputs \in Bodies(c), Batch(c, outputs) # <<>>
    PROVE  Batch(c, outputs) = Own(c)
<1>1. /\ Found(c, outputs) /\ \A j, k \in 1 .. Size[c] : ids[c][j] = ids[c][k] => j = k
      /\ Batch(c, outputs) = [j \in 1 .. Size[c] |-> LatestOf(outputs, ids[c][j])]
  BY DEF Batch
<1>2. PICK n \in 0 .. Size[c] : outputs \in [1 .. n -> Outputs(c)]
  BY DEF Bodies
<1>3. ASSUME NEW j \in 1 .. Size[c] PROVE LatestOf(outputs, ids[c][j]) = <<c, j>>
  <2>1. \E k \in DOMAIN outputs : outputs[k].id = ids[c][j]
    BY <1>1 DEF Found
  <2>2. n \in Nat /\ DOMAIN outputs = 1 .. n
    BY <1>2, HttpAssumption
  <2>3. PICK k \in DOMAIN outputs :
          outputs[k].id = ids[c][j] /\ LatestOf(outputs, ids[c][j]) = outputs[k].of
    BY <2>1, <2>2, LatestIsOne
  <2>4. outputs[k] \in Outputs(c) /\ outputs[k].id \in IdsOf(c)
    BY <1>2, <2>2, <2>3 DEF IdsOf
  <2>5. PICK m \in 1 .. Size[c] : outputs[k].of = <<c, m>> /\ ids[c][m] = outputs[k].id
    BY <2>4, OutputIsOwn
  <2> QED
    BY <1>1, <2>3, <2>5
<1> QED
  BY <1>1, <1>3 DEF Own

LEMMA OwnIsSeq == ASSUME NEW c \in Call PROVE Own(c) \in Seq(Request) /\ Own(c) # <<>>
<1>1. \A j \in 1 .. Size[c] : <<c, j>> \in Request
  BY DEF Request
<1>2. Size[c] \in Nat \ {0}
  BY HttpAssumption
<1>3. Own(c) \in Seq(Request) /\ Len(Own(c)) = Size[c]
  BY <1>1, <1>2 DEF Own
<1> QED
  BY <1>2, <1>3

-----------------------------------------------------------------------------
(* The invariant. *)

(* How a call is settled: with nothing, or with its own answer. *)
Settles(c) ==
    \/ \E outcome \in {"failed", "cancelled"} : Settle(c, outcome, <<>>)
    \/ c \in sent /\ Settle(c, "answered", Own(c))

LEMMA EndSettles ==
    ASSUME TypesOK, Exchanges, NEW c \in Call, ReadEnd(c) PROVE Settles(c)
<1>1. CASE Settle(c, "failed", <<>>)
  BY <1>1 DEF Settles
<1>2. ASSUME NEW outputs \in Bodies(c), NEW result,
             result = IF Size[c] = 1 THEN Single(c, outputs) ELSE Batch(c, outputs),
             Settle(c, IF result = <<>> THEN "failed" ELSE "answered", result)
      PROVE  Settles(c)
  <2>1. c \in sent /\ Len(ids[c]) = Size[c]
    BY DEF ReadEnd, Exchanges
  <2>2. CASE result = <<>>
    BY <1>2, <2>2 DEF Settles
  <2>3. CASE result # <<>>
    <3>1. result = Own(c)
      BY <1>2, <2>1, <2>3, SingleIsOwn, BatchIsOwn
    <3> QED
      BY <1>2, <2>1, <2>3, <3>1 DEF Settles
  <2> QED
    BY <2>2, <2>3
<1> QED
  BY <1>1, <1>2 DEF ReadEnd

LEMMA SettleKeeps ==
    ASSUME HttpInv, NEW c \in Call, Settles(c) PROVE HttpInv'
<1> USE DEF HttpInv
<1>1. PICK outcome \in {"failed", "cancelled", "answered"}, result \in Seq(Request) :
        Settle(c, outcome, result) /\ (outcome = "answered" => result = Own(c))
  <2>1. <<>> \in Seq(Request)
    OBVIOUS
  <2>2. CASE c \in sent /\ Settle(c, "answered", Own(c))
    BY <2>2, OwnIsSeq
  <2>3. CASE \E outcome \in {"failed", "cancelled"} : Settle(c, outcome, <<>>)
    BY <2>1, <2>3
  <2> QED
    BY <2>2, <2>3 DEF Settles
<1>2. TypesOK'
  BY <1>1 DEF Settle, TypesOK, CallStatus
<1>3. Exchanges'
  BY <1>1 DEF Settle, TypesOK, Exchanges
<1>4. WithinBound'
  BY <1>1, HttpAssumption DEF Settle, TypesOK, WithinBound
<1>5. OwnAnswer'
  BY <1>1 DEF Settle, TypesOK, OwnAnswer, Own
<1> QED
  BY <1>2, <1>3, <1>4, <1>5

(* Every step but those that take an id, send, or read settles its call, or
   lets the server receive it. *)
LEMMA Steps ==
    ASSUME HttpInv, NEW c \in Call, HttpStep(c)
    PROVE  \/ Send(c) \/ Post(c) \/ Arrive(c)
           \/ Settles(c) /\ status[c] = "waiting"
           \/ exchange[c] = "posted" /\ c \in sent /\ exchange' = [exchange EXCEPT ![c] = "reading"]
              /\ UNCHANGED <<status, counter, ids, received, answer, sent>>
           \/ exchange[c] = "reading" /\ \E n \in 1 .. MaxLength :
                 received[c] + n <= MaxResponseSize /\ Buffers(c, n)
<1>1. CASE ReadHead(c)
  BY <1>1 DEF ReadHead, Settles, HttpInv, Exchanges
<1>2. CASE ReadChunk(c)
  <2>1. PICK n \in 1 .. MaxLength :
          IF received[c] + n > MaxResponseSize THEN Settle(c, "failed", <<>>) ELSE Buffers(c, n)
    BY <1>2 DEF ReadChunk
  <2>2. received[c] + n > MaxResponseSize \/ received[c] + n <= MaxResponseSize
    BY HttpAssumption DEF HttpInv, TypesOK
  <2> QED
    BY <1>2, <2>1, <2>2 DEF ReadChunk, Settles, HttpInv, Exchanges
<1>3. CASE ReadEnd(c)
  BY <1>3, EndSettles DEF ReadEnd, HttpInv, Exchanges
<1>4. CASE ConnectionFails(c) \/ Cancel(c)
  BY <1>4 DEF ConnectionFails, Cancel, Settles, HttpInv, Exchanges
<1> QED
  BY <1>1, <1>2, <1>3, <1>4 DEF HttpStep

LEMMA InvStep == ASSUME HttpInv, [HttpNext]_httpVars PROVE HttpInv'
<1> USE HttpAssumption DEF HttpInv, TypesOK, Exchanges, WithinBound, OwnAnswer, Own
<1>1. ASSUME NEW c \in Call, Prepare(c) PROVE HttpInv'
  <2>1. ids' \in [Call -> Seq(0 .. MaxId)] /\ Len(ids'[c]) = Len(ids[c]) + 1
    BY <1>1 DEF Prepare
  <2>2. counter' \in 0 .. MaxId
    BY <1>1 DEF Prepare, NextCounter
  <2>3. \A d \in Call \ {c} : ids'[d] = ids[d]
    BY <1>1 DEF Prepare
  <2> QED
    BY <1>1, <2>1, <2>2, <2>3 DEF Prepare
<1>2. ASSUME NEW c \in Call, Send(c) PROVE HttpInv'
  BY <1>2 DEF Send, NextCounter, CallStatus
<1>3. ASSUME NEW c \in Call, Post(c) PROVE HttpInv'
  BY <1>3 DEF Post
<1>4. ASSUME NEW c \in Call, Arrive(c) PROVE HttpInv'
  BY <1>4 DEF Arrive
<1>8. ASSUME NEW c \in Call, GiveUp(c) PROVE HttpInv'
  BY <1>8 DEF GiveUp, CallStatus
<1>5. ASSUME NEW c \in Call, exchange[c] = "posted", c \in sent,
             exchange' = [exchange EXCEPT ![c] = "reading"],
             UNCHANGED <<status, counter, ids, received, answer, sent>>
      PROVE  HttpInv'
  BY <1>5
<1>6. ASSUME NEW c \in Call, NEW n \in 1 .. MaxLength,
             received[c] + n <= MaxResponseSize, Buffers(c, n)
      PROVE  HttpInv'
  BY <1>6 DEF Buffers
<1>7. CASE UNCHANGED httpVars
  BY <1>7 DEF httpVars
<1> HIDE DEF HttpInv, TypesOK, Exchanges, WithinBound, OwnAnswer, Own
<1> QED
  BY <1>1, <1>2, <1>3, <1>4, <1>5, <1>6, <1>7, <1>8, Steps, SettleKeeps DEF HttpNext

(* The inductive invariant of the HTTP transport. *)
THEOREM InvHolds == HttpSpec => []HttpInv
<1>1. HttpInit => HttpInv
  BY HttpAssumption DEF HttpInit, HttpInv, TypesOK, CallStatus, Exchanges, WithinBound, OwnAnswer
<1> QED
  BY <1>1, InvStep, PTL DEF HttpSpec

(* However a response is cut into chunks and whatever length it announces, the
   transport never holds more than its bound. *)
THEOREM BoundHolds == HttpSpec => []WithinBound
<1>1. HttpInv => WithinBound
  BY DEF HttpInv
<1> QED
  BY <1>1, InvHolds, PTL

(* A call is answered with the results of its own requests in their order,
   even when ids repeat because the counter saturated. *)
THEOREM AnswersAreOwn == HttpSpec => []OwnAnswer
<1>1. HttpInv => OwnAnswer
  BY DEF HttpInv
<1> QED
  BY <1>1, InvHolds, PTL

-----------------------------------------------------------------------------
(* The refinement. *)

LEMMA PromisedIsStatus ==
    ASSUME HttpInv PROVE [c \in Call |-> Promised(c)] = [c \in Call |-> status[c]]
BY DEF HttpInv, OwnAnswer, Promised

LEMMA PromisedIsStatusNext ==
    ASSUME HttpInv' PROVE [c \in Call |-> Promised(c)]' = [c \in Call |-> status'[c]]
BY DEF HttpInv, OwnAnswer, Promised

LEMMA StepRefines ==
    ASSUME HttpInv, HttpInv', [HttpNext]_httpVars
    PROVE  Client!Next \/ UNCHANGED Client!vars
<1> USE PromisedIsStatus, PromisedIsStatusNext
<1>1. ASSUME NEW c \in Call, Send(c) PROVE Client!Next
  <2>1. Client!Issue({c})
    BY <1>1 DEF Send, Client!Issue, HttpInv, TypesOK
  <2> QED
    BY <2>1 DEF Client!Next
<1>2. ASSUME NEW c \in Call, Arrive(c) PROVE Client!Next
  <2>1. Client!Execute({c})
    BY <1>2 DEF Arrive, Client!Execute, HttpInv, Exchanges
  <2> QED
    BY <2>1 DEF Client!Next
<1>3. ASSUME NEW c \in Call, Settles(c), status[c] = "waiting" PROVE Client!Next
  <2>1. PICK outcome \in {"failed", "cancelled", "answered"} :
          /\ status' = [status EXCEPT ![c] = outcome] /\ sent' = sent
          /\ outcome = "answered" => c \in sent
    BY <1>3 DEF Settles, Settle
  <2>2. status \in [Call -> Client!Status] /\ status' \in [Call -> Client!Status]
    BY DEF HttpInv, TypesOK, CallStatus, Client!Status
  <2>3. \A d \in Call : status'[d] # status[d]
                       => status[d] = "waiting" /\ status'[d] \in Client!Outcome(d)
    <3>1. \A d \in Call : status'[d] # status[d] => d = c /\ status'[d] = outcome
      BY <2>1, <2>2
    <3>2. outcome \in Client!Outcome(c)
      BY <2>1 DEF Client!Outcome
    <3> QED
      BY <1>3, <3>1, <3>2
  <2>4. [d \in Call |-> status[d]] = status /\ [d \in Call |-> status'[d]] = status'
    BY <2>2
  <2>5. Client!Resolve
    BY <2>1, <2>2, <2>3, <2>4 DEF Client!Resolve
  <2> QED
    BY <2>5 DEF Client!Next
<1>4. ASSUME UNCHANGED <<status, sent>> PROVE UNCHANGED Client!vars
  BY <1>4 DEF Client!vars
<1>5. ASSUME NEW c \in Call, Prepare(c) \/ Post(c) PROVE UNCHANGED <<status, sent>>
  BY <1>5 DEF Prepare, Post
<1>6. ASSUME NEW c \in Call, NEW n, Buffers(c, n) PROVE UNCHANGED <<status, sent>>
  BY <1>6 DEF Buffers
<1>7. UNCHANGED httpVars => UNCHANGED <<status, sent>>
  BY DEF httpVars
<1>8. ASSUME NEW c \in Call, GiveUp(c) PROVE Client!Next
  <2>1. Client!Issue({c})
    BY <1>8 DEF GiveUp, Client!Issue, HttpInv, TypesOK
  <2> QED
    BY <2>1 DEF Client!Next
<1> QED
  BY <1>1, <1>2, <1>3, <1>4, <1>5, <1>6, <1>7, <1>8, Steps DEF HttpNext

(* The HTTP transport implements the promise of RpcClient: one execution, one
   outcome, and an answer that is the call's own. *)
THEOREM ImplementsRpcClient == HttpSpec => ClientSpec
<1>1. HttpInit /\ HttpInv => Client!Init
  BY PromisedIsStatus DEF HttpInit, Client!Init
<1>2. HttpInv /\ HttpInv' /\ [HttpNext]_httpVars => [Client!Next]_(Client!vars)
  BY StepRefines
<1> QED
  BY <1>1, <1>2, InvHolds, PTL DEF HttpSpec, ClientSpec, Client!Spec

-----------------------------------------------------------------------------
(* The callers. *)

(* Whatever its callers want, the transport is used as it allows: what was
   proved of HttpSpec is true of the whole client. *)
THEOREM ClientUsesHttp == Spec => HttpSpec
<1>1. ClientInit => HttpInit
  BY DEF ClientInit
<1>2. [Next]_<<httpVars, clientVars>> => [HttpNext]_httpVars
  <2>1. ASSUME NEW c \in Call, Ask(c) PROVE HttpNext
    BY <2>1 DEF Ask, HttpNext
  <2>2. ASSUME NEW c \in Call, NewBuilder(c) \/ UseSetter(c) \/ Deliver(c) PROVE UNCHANGED httpVars
    BY <2>2 DEF NewBuilder, UseSetter, Deliver
  <2>3. ASSUME NEW c \in Call, AskMore(c) \/ Transports(c) PROVE HttpNext
    BY <2>3 DEF AskMore, Transports, HttpNext
  <2> QED
    BY <2>1, <2>2, <2>3 DEF Next
<1> QED
  BY <1>1, <1>2, PTL DEF Spec, HttpSpec

(* The greatest of a finite set of positions. *)
LEMMA GreatestPosition ==
    ASSUME NEW n \in Nat, NEW S, S \subseteq 1 .. n
    PROVE  /\ Max(S \cup {0}) \in 0 .. n
           /\ \A i \in S : i <= Max(S \cup {0})
<1>1. \E x \in S \cup {0} : \A y \in S \cup {0} : x >= y
  <2>1. CASE S = {}
    BY <2>1
  <2>2. CASE S # {}
    <3>1. PICK k \in S : \A l \in S : l <= k
      BY <2>2, LastPosition
    <3> QED
      BY <3>1
  <2> QED
    BY <2>1, <2>2
<1>2. PICK m : m = Max(S \cup {0})
  OBVIOUS
<1>3. m \in S \cup {0} /\ \A y \in S \cup {0} : m >= y
  BY <1>1, <1>2 DEF Max
<1>4. m \in 0 .. n /\ \A i \in S : i <= m
  BY <1>3
<1> QED
  BY <1>2, <1>4

(* Each parameter of a method is where the method has it. *)
LEMMA ParamsKept ==
    ASSUME NEW row, row.params \in Seq(Parameter), NEW given
    PROVE  \A i \in DOMAIN row.params : ParamKept(row, given, Params(row, given), i)
<1>1. PICK n \in Nat : DOMAIN row.params = 1 .. n
  OBVIOUS
<1>2. PICK S : S = {i \in DOMAIN row.params : Sends(row, given, i)}
  OBVIOUS
<1>3. PICK m : m = Max(S \cup {0})
  OBVIOUS
<1>4. m \in 0 .. n /\ \A i \in S : i <= m
  BY <1>1, <1>2, <1>3, GreatestPosition
<1>5. Params(row, given) = [i \in 1 .. m |-> Slot(row, given, i)]
  BY <1>2, <1>3 DEF Params
<1>6. Len(Params(row, given)) = m
  BY <1>4, <1>5
<1>7. ASSUME NEW i \in DOMAIN row.params PROVE ParamKept(row, given, Params(row, given), i)
  <2>1. CASE row.params[i].absent = "never" \/ i \in given
    <3>1. i \notin Optional(row) \ given
      BY <2>1 DEF Optional
    <3>2. i \in S
      BY <1>2, <3>1 DEF Sends
    <3>3. i \in 1 .. m
      BY <1>1, <1>4, <3>2
    <3>4. Params(row, given)[i] = row.params[i].name
      BY <1>5, <3>1, <3>3 DEF Slot
    <3> QED
      BY <1>4, <1>6, <2>1, <3>3, <3>4 DEF ParamKept
  <2>2. CASE ~(row.params[i].absent = "never" \/ i \in given)
    <3>1. i \in Optional(row) \ given
      BY <2>2 DEF Optional
    <3>2. CASE i \in 1 .. m
      BY <1>5, <1>6, <1>4, <2>2, <3>1, <3>2 DEF ParamKept, Slot
    <3>3. CASE i \notin 1 .. m
      <4>1. i > m
        BY <1>1, <1>4, <3>3
      <4>2. i \notin S
        BY <1>1, <1>4, <4>1
      <4>3. row.params[i].absent = "omitted"
        BY <1>2, <4>2 DEF Sends
      <4> QED
        BY <1>6, <2>2, <4>1, <4>3 DEF ParamKept
    <3> QED
      BY <3>2, <3>3
  <2> QED
    BY <2>1, <2>2
<1> QED
  BY <1>7

(* The topics keep their places. *)
LEMMA TopicsKept ==
    ASSUME NEW hashes \in [1 .. 4 -> Nat \cup {AnyTopic}]
    PROVE  \A i \in 1 .. 4 : hashes[i] # AnyTopic <=> i \in DOMAIN Topics(hashes) /\ Topics(hashes)[i] # "null"
<1>1. PICK S : S = {i \in DOMAIN hashes : hashes[i] # AnyTopic}
  OBVIOUS
<1>2. PICK m : m = Max(S \cup {0})
  OBVIOUS
<1>3. m \in 0 .. 4 /\ \A i \in S : i <= m
  BY <1>1, <1>2, GreatestPosition
<1>4. Topics(hashes) = [i \in 1 .. m |->
          IF hashes[i] = AnyTopic THEN "null" ELSE IF hashes[i] = 1 THEN "one" ELSE "list"]
  BY <1>1, <1>2 DEF Topics
<1> QED
  BY <1>1, <1>3, <1>4

-----------------------------------------------------------------------------
(* Signatures. *)

(* What a secret key signs, and what is left to a key of another kind. *)
LEMMA SignerFacts ==
    ASSUME NEW signer \in Signer
    PROVE  /\ signer.secret \in BOOLEAN
           /\ signer.secret => signer.parity \in {0, 1}
           /\ ~signer.secret => signer.v \in Nat /\ signer.valid \in BOOLEAN
BY DEF Signer

LEMMA SignatureFields ==
    /\ \A v, valid : /\ Signature(v, valid).ok = TRUE /\ Signature(v, valid).v = v
                     /\ Signature(v, valid).valid = valid
    /\ NoSignature.ok = FALSE
BY DEF Signature, NoSignature

(* The recovery values of both parities, and what is recovered of them. *)
LEMMA RecoveryValues ==
    ASSUME NEW chain \in Nat, NEW parity \in {0, 1}
    PROVE  /\ ReplayProtected(chain, parity) \in Nat
           /\ ReplayProtected(chain, 0) <= ReplayProtected(chain, parity)
           /\ (ReplayProtected(chain, parity) - 35) \div 2 = chain
           /\ RecoveryId(ReplayProtected(chain, parity)) = parity
           /\ RecoveryId(27 + parity) = parity
           /\ RecoveryId(parity) = 4
<1>1. CASE parity = 0
  BY <1>1 DEF ReplayProtected, RecoveryId
<1>2. CASE parity = 1
  BY <1>2 DEF ReplayProtected, RecoveryId
<1> QED
  BY <1>1, <1>2

(* A transaction signed for a legacy type names its chain, and whoever has its
   v has the parity of a secret key. *)
LEMMA TransactionSigned ==
    ASSUME NEW type, NEW chain \in Nat, NEW signer \in Signer,
           SignTransaction(type, chain, signer).ok
    PROVE  LET signed == SignTransaction(type, chain, signer)
           IN  /\ type \in Legacy \cup Typed
               /\ type \in Legacy => signed.v <= MaxU64 /\ (signed.v - 35) \div 2 = chain
               /\ signer.secret => RecoveryId(signed.v) = IF type \in Typed THEN 4 ELSE signer.parity
<1>1. PICK secret : secret = IF type \in Legacy THEN SecretKeySigns(chain, signer.parity)
                             ELSE Signature(signer.parity, TRUE)
  OBVIOUS
<1>2. PICK signature : signature = Key(signer, secret)
  OBVIOUS
<1>3. /\ SignTransaction(type, chain, signer) = signature
      /\ type \in Legacy \cup Typed /\ signature.ok /\ signature.v \in Allowed(type, chain)
  BY <1>1, <1>2, SignatureFields DEF SignTransaction
<1>4. CASE type \in Legacy
  <2>1. PICK parity \in {0, 1} : signature.v = ReplayProtected(chain, parity) /\ signature.v <= MaxU64
    BY <1>3, <1>4, SignaturesAssumption DEF Allowed
  <2>2. ASSUME signer.secret PROVE RecoveryId(signature.v) = signer.parity
    <3>1. signature = SecretKeySigns(chain, signer.parity) /\ signer.parity \in {0, 1}
      BY <1>1, <1>2, <1>4, <2>2, SignerFacts DEF Key
    <3>2. signature.v = ReplayProtected(chain, signer.parity)
      BY <1>3, <3>1, SignatureFields DEF SecretKeySigns
    <3> QED
      BY <3>1, <3>2, RecoveryValues
  <2>3. type \notin Typed
    BY <1>4 DEF Legacy, Typed
  <2>4. (signature.v - 35) \div 2 = chain
    <3>1. (ReplayProtected(chain, parity) - 35) \div 2 = chain
      BY RecoveryValues
    <3> QED
      BY <2>1, <3>1, Zenon
  <2> QED
    BY <1>3, <2>1, <2>2, <2>3, <2>4
<1>5. CASE type \in Typed
  <2>1. type \notin Legacy
    BY <1>5 DEF Legacy, Typed
  <2>2. signature.v \in {0, 1}
    BY <1>3, <2>1 DEF Allowed
  <2>3. RecoveryId(signature.v) = 4
    BY <2>2, RecoveryValues
  <2> QED
    BY <1>3, <1>5, <2>1, <2>3
<1> QED
  BY <1>3, <1>4, <1>5

(* A secret key refuses a transaction of a type it does not know, and one
   whose recovery value does not fit. *)
LEMMA TransactionRefused ==
    ASSUME NEW type, NEW chain \in Nat, NEW signer \in Signer, signer.secret,
           ~SignTransaction(type, chain, signer).ok
    PROVE  type \notin Legacy \cup Typed \/ ReplayProtected(chain, signer.parity) > MaxU64
<1> SUFFICES ASSUME type \in Legacy \cup Typed, ReplayProtected(chain, signer.parity) <= MaxU64
             PROVE  FALSE
  BY RecoveryValues, SignerFacts, SignaturesAssumption
<1>0. signer.parity \in {0, 1}
  BY SignerFacts
<1>1. CASE type \in Legacy
  <2>0. PICK v : v = ReplayProtected(chain, signer.parity)
    OBVIOUS
  <2>1. SecretKeySigns(chain, signer.parity) = Signature(v, TRUE)
    <3>1. v \in Nat /\ v <= MaxU64
      BY <1>0, <2>0, RecoveryValues
    <3>2. ~(v > MaxU64)
      BY <3>1, SignaturesAssumption
    <3> QED
      BY <2>0, <3>2 DEF SecretKeySigns
  <2>2. ReplayProtected(chain, 0) <= MaxU64
    BY <1>0, RecoveryValues, SignaturesAssumption DEF ReplayProtected
  <2>3. v \in Allowed(type, chain)
    BY <1>0, <1>1, <2>0, RecoveryValues, SignaturesAssumption DEF Allowed
  <2>4. PICK signature : signature = Signature(v, TRUE)
    OBVIOUS
  <2>5. signature.ok /\ signature.v = v /\ signature.valid
    BY <2>4, SignatureFields
  <2>6. SignTransaction(type, chain, signer) = signature
    BY <1>1, <2>1, <2>2, <2>3, <2>4, <2>5 DEF SignTransaction, Key
  <2> QED
    BY <2>5, <2>6
<1>2. CASE type \in Typed
  <2>1. type \notin Legacy
    BY <1>2 DEF Legacy, Typed
  <2>2. signer.parity \in Allowed(type, chain)
    BY <1>0, <2>1 DEF Allowed
  <2> QED
    BY <1>2, <2>1, <2>2, SignatureFields DEF SignTransaction, Key
<1> QED
  BY <1>1, <1>2

(* A message is signed in Electrum notation, by a secret key always. *)
LEMMA MessageSigned ==
    ASSUME NEW signer \in Signer
    PROVE  /\ SignMessage(signer).ok => SignMessage(signer).v \in {27, 28}
           /\ signer.secret => /\ SignMessage(signer).ok
                               /\ RecoveryId(SignMessage(signer).v) = signer.parity
<1>1. CASE signer.secret
  <2>1. signer.parity \in {0, 1}
    BY <1>1, SignerFacts
  <2>2. 27 + signer.parity \in {27, 28}
    BY <2>1
  <2>3. PICK signature : signature = Signature(27 + signer.parity, TRUE)
    OBVIOUS
  <2>4. signature.ok /\ signature.v = 27 + signer.parity /\ signature.valid
    BY <2>3, SignatureFields
  <2>5. SignMessage(signer) = signature
    BY <1>1, <2>2, <2>3, <2>4 DEF SignMessage, Key
  <2>6. RecoveryId(27 + signer.parity) = signer.parity
    <3>1. 0 \in Nat
      OBVIOUS
    <3> QED
      BY <2>1, <3>1, RecoveryValues
  <2> QED
    BY <2>2, <2>4, <2>5, <2>6
<1>2. CASE ~signer.secret
  BY <1>2, SignatureFields DEF SignMessage, Key
<1> QED
  BY <1>1, <1>2, SignerFacts

(* An envelope declares as many fields as it has. *)
LEMMA EnvelopeWhole ==
    ASSUME NEW type \in Legacy \cup Typed, NEW signature
    PROVE  Encode(type, signature).declared = Len(Encode(type, signature).fields)
<1>1. CASE signature.ok
  BY <1>1 DEF Encode, EncodeLegacy, EncodeAccessList, EncodeEip1559, Body, Legacy, Typed
<1>2. CASE ~signature.ok
  BY <1>2 DEF Encode, EncodeLegacy, EncodeAccessList, EncodeEip1559, Body, Legacy, Typed
<1> QED
  BY <1>1, <1>2

-----------------------------------------------------------------------------
(* What a caller wants, what it gave to the transport, and what it was given
   back.  Every wish but the first has led to a request, or to a call that is
   refused; a value was read from what came back. *)

Wished(c, w) == \E k \in DOMAIN Wish[c] : w \in Wish[c][k]

LastSetters(b, s, built) ==
    \A f \in Fields[b] : {k \in DOMAIN s : s[k] = f /\ ~Undone(b, s, k)} = {built[f]} \ {0}

Building(w, r) ==
    /\ w = [want |-> "build", builder |-> w.builder, setters |-> w.setters]
    /\ r = [rpc |-> "any", built |-> r.built]
    /\ w.builder \in DOMAIN Fields /\ w.setters \in Seq(Fields[w.builder])
    /\ r.built \in [Fields[w.builder] -> Nat]
    /\ LastSetters(w.builder, w.setters, r.built)

Unasked(c) == wish[c] = None /\ request[c] = None /\ status[c] = "idle" /\ ids[c] = <<>>
Refused(c) == Wished(c, wish[c]) /\ request[c] = None /\ status[c] = "unsent"
              /\ Builds(wish[c]) = NoSignature
Asked(c)   == Wished(c, wish[c]) /\ request[c] = Builds(wish[c]) /\ status[c] # "unsent"
              /\ Builds(wish[c]) # NoSignature
Built(c)   == Building(wish[c], request[c]) /\ status[c] # "unsent"
              /\ (ids[c] = <<>> => status[c] = "idle")

Given(c)   == value[c] # None => /\ status[c] = "answered" /\ returned[c] \in Returns(c)
                                 /\ value[c] = Reads(wish[c], returned[c], request[c])

AskedOf(c) == (Unasked(c) \/ Refused(c) \/ Asked(c) \/ Built(c)) /\ Given(c)

AreMaps ==
    /\ wish = [c \in Call |-> wish[c]] /\ request = [c \in Call |-> request[c]]
    /\ value = [c \in Call |-> value[c]] /\ returned = [c \in Call |-> returned[c]]

AskedInv == AreMaps /\ \A c \in Call : AskedOf(c)

(* The wishes of the kinds that can be told apart. *)
LEMMA Wishes ==
    ASSUME NEW c \in Call, NEW w, Wished(c, w)
    PROVE  /\ w.want \notin {"none", "build"}
           /\ w.want = "method" => w.row.params \in Seq(Parameter)
           /\ w.want = "events" => w.topics \in [1 .. 4 -> Nat \cup {AnyTopic}]
           /\ w.want = "form" => w.form \in DOMAIN FormValues /\ w.value \in FormValues[w.form]
           /\ w.want = "json" => w.form \in JsonForms /\ \A j \in Json[w.form] : IsJson(j)
           /\ w.want \in {"outputs", "events", "echo"} => w.types \in Seq(Types)
           /\ w.want = "echo" => IsValues(w.types, w.values)
           /\ w.want \in {"transaction", "message"} => w.signer \in Signer
           /\ w.want = "transaction" => w.chain \in Nat
BY WishAssumption DEF Wished

(* A step of the transport neither tells a call that it was not sent, nor does
   it touch a call that was told so, or nothing was asked for. *)
LEMMA TransportStatus ==
    ASSUME HttpInv, NEW c \in Call, HttpStep(c)
    PROVE  /\ status[c] \in {"idle", "waiting"} /\ ids[c] # <<>>
           /\ status'[c] # "unsent"
           /\ ids' = ids /\ \A d \in Call \ {c} : status'[d] = status[d]
<1> USE DEF HttpInv, TypesOK, Exchanges
<1>0. Size[c] # 0
  BY HttpAssumption
<1>1. CASE Send(c)
  BY <1>0, <1>1 DEF Send
<1>2. CASE Post(c) \/ Arrive(c)
  BY <1>0, <1>2 DEF Post, Arrive
<1>3. CASE Settles(c) /\ status[c] = "waiting"
  BY <1>0, <1>3 DEF Settles, Settle
<1>4. CASE exchange[c] \in {"posted", "reading"} /\ UNCHANGED <<status, ids>>
  BY <1>0, <1>4
<1> HIDE DEF HttpInv, TypesOK, Exchanges
<1> QED
  BY <1>1, <1>2, <1>3, <1>4, Steps DEF Buffers

(* A new builder has nothing set. *)
LEMMA BlankIsBuilding ==
    ASSUME NEW b \in DOMAIN Fields
    PROVE  Building([want |-> "build", builder |-> b, setters |-> <<>>],
                    [rpc |-> "any", built |-> Blank(b)])
<1>1. PICK w : w = [want |-> "build", builder |-> b, setters |-> <<>>]
  OBVIOUS
<1>2. PICK r : r = [rpc |-> "any", built |-> Blank(b)]
  OBVIOUS
<1>3. w.want = "build" /\ w.builder = b /\ w.setters = <<>> /\ r.rpc = "any" /\ r.built = Blank(b)
  BY <1>1, <1>2
<1>4. w.setters \in Seq(Fields[b]) /\ DOMAIN w.setters = {}
  BY <1>3
<1>5. r.built \in [Fields[b] -> Nat] /\ \A f \in Fields[b] : r.built[f] = 0
  BY <1>3 DEF Blank
<1>6. LastSetters(b, w.setters, r.built)
  BY <1>4, <1>5 DEF LastSetters
<1>7. Building(w, r)
  BY <1>1, <1>2, <1>3, <1>4, <1>5, <1>6 DEF Building
<1> QED
  BY <1>1, <1>2, <1>7

LEMMA SettersAreFields == \A b \in DOMAIN Fields : Setters[b] \subseteq Fields[b]
BY DEF Setters, Fields

(* One more setter: it undoes the earlier ones of its own field and, of a log
   filter, those of the fields it clears. *)
LEMMA SetterUndoes ==
    ASSUME NEW b \in DOMAIN Fields, NEW f \in Fields[b], NEW g \in Fields[b], g # f
    PROVE  g \in Clears(b, f) <=> b = "filter" /\ {g, f} \in {{"block_hash", "from_block"},
                                                           {"block_hash", "to_block"}}
<1>1. CASE b # "filter"
  BY <1>1 DEF Clears
<1>2. CASE b = "filter"
  <2>1. f \in FilterFields /\ g \in FilterFields
    BY <1>2 DEF Fields
  <2>2. CASE f \in {"address", "limit"}
    BY <1>2, <2>2 DEF Clears
  <2>3. CASE f = "block_hash"
    BY <1>2, <2>1, <2>3 DEF Clears, FilterFields
  <2>4. CASE f \in {"from_block", "to_block"}
    BY <1>2, <2>1, <2>4 DEF Clears, FilterFields
  <2> QED
    BY <2>1, <2>2, <2>3, <2>4 DEF FilterFields
<1> QED
  BY <1>1, <1>2

LEMMA SetterKeepsLast ==
    ASSUME NEW b \in DOMAIN Fields, NEW s \in Seq(Fields[b]), NEW built \in [Fields[b] -> Nat],
           LastSetters(b, s, built), NEW f \in Fields[b],
           NEW t, t = Append(s, f), NEW after, after = Set(b, built, f, Len(s) + 1)
    PROVE  /\ t \in Seq(Fields[b]) /\ after \in [Fields[b] -> Nat]
           /\ LastSetters(b, t, after)
<1> PICK n \in Nat : n = Len(s)
  OBVIOUS
<1>1. /\ t \in Seq(Fields[b]) /\ Len(t) = n + 1 /\ t[n + 1] = f
      /\ DOMAIN s = 1 .. n /\ DOMAIN t = 1 .. n + 1
      /\ \A k \in 1 .. n : t[k] = s[k] /\ s[k] \in Fields[b]
  OBVIOUS
<1>2. \A g \in Fields[b] : after[g] = IF g = f THEN n + 1 ELSE IF g \in Clears(b, f) THEN 0 ELSE built[g]
  BY DEF Set
<1>3. after \in [Fields[b] -> Nat]
  BY <1>2 DEF Set
<1>4. ~Undone(b, t, n + 1)
  BY <1>1 DEF Undone
<1>5. ASSUME NEW k \in 1 .. n
      PROVE  Undone(b, t, k) <=> Undone(b, s, k) \/ s[k] = f \/ s[k] \in Clears(b, f)
  <2>1. k + 1 .. Len(t) = (k + 1 .. Len(s)) \cup {n + 1}
    BY <1>1
  <2>2. \A l \in k + 1 .. Len(s) : t[l] = s[l] /\ t[k] = s[k] /\ s[l] \in Fields[b]
    BY <1>1
  <2>3. s[k] # f => (s[k] \in Clears(b, f) <=> b = "filter" /\ {s[k], f} \in {{"block_hash", "from_block"},
                                                           {"block_hash", "to_block"}})
    BY <1>1, SetterUndoes
  <2>4. Undone(b, t, k) <=> Undone(b, s, k) \/ t[n + 1] = t[k]
            \/ (b = "filter" /\ {t[k], t[n + 1]} \in {{"block_hash", "from_block"},
                                                     {"block_hash", "to_block"}})
    BY <2>1, <2>2 DEF Undone
  <2> QED
    BY <1>1, <2>3, <2>4
<1>6. ASSUME NEW g \in Fields[b]
      PROVE  {k \in DOMAIN t : t[k] = g /\ ~Undone(b, t, k)} = {after[g]} \ {0}
  <2>1. {k \in DOMAIN s : s[k] = g /\ ~Undone(b, s, k)} = {built[g]} \ {0}
    BY DEF LastSetters
  <2>2. CASE g = f
    <3>1. \A k \in DOMAIN t : t[k] = g /\ ~Undone(b, t, k) <=> k = n + 1
      BY <1>1, <1>4, <1>5, <2>2
    <3> QED
      BY <1>1, <1>2, <2>2, <3>1
  <2>3. CASE g # f /\ g \in Clears(b, f)
    <3>1. \A k \in DOMAIN t : ~(t[k] = g /\ ~Undone(b, t, k))
      BY <1>1, <1>5, <2>3
    <3>2. after[g] = 0
      BY <1>2, <2>3
    <3> QED
      BY <3>1, <3>2
  <2>4. CASE g # f /\ g \notin Clears(b, f)
    <3>1. \A k \in DOMAIN t : t[k] = g /\ ~Undone(b, t, k)
                              <=> k \in DOMAIN s /\ s[k] = g /\ ~Undone(b, s, k)
      BY <1>1, <1>5, <2>4
    <3>2. after[g] = built[g] /\ DOMAIN s \subseteq DOMAIN t
      BY <1>1, <1>2, <2>4
    <3> QED
      BY <2>1, <3>1, <3>2
  <2> QED
    BY <2>2, <2>3, <2>4
<1> QED
  BY <1>1, <1>3, <1>6 DEF LastSetters

(* The steps of one call are its own. *)
LEMMA OwnStep ==
    ASSUME AskedInv, NEW c \in Call, AreMaps',
           \A d \in Call \ {c} : /\ wish'[d] = wish[d] /\ request'[d] = request[d]
                                 /\ value'[d] = value[d] /\ returned'[d] = returned[d]
                                 /\ status'[d] = status[d] /\ ids'[d] = ids[d],
           AskedOf(c)'
    PROVE  AskedInv'
<1>1. ASSUME NEW d \in Call \ {c} PROVE AskedOf(d)'
  <2>1. AskedOf(d)
    BY DEF AskedInv
  <2>2. (Unasked(d) \/ Refused(d) \/ Asked(d) \/ Built(d))'
    BY <2>1 DEF AskedOf, Unasked, Refused, Asked, Built, Wished
  <2>3. Given(d)'
    BY <2>1 DEF AskedOf, Given, Returns
  <2> QED
    BY <2>2, <2>3 DEF AskedOf
<1> QED
  BY <1>1 DEF AskedInv

(* The first request, a new builder, and one more setter. *)
LEMMA AskStep ==
    ASSUME HttpInv, AskedInv, NEW c \in Call, Ask(c) PROVE AskedInv'
<1>1. wish[c] = None /\ UNCHANGED <<returned, value>>
  BY DEF Ask
<1>2. PICK w : /\ Wished(c, w) /\ wish' = [wish EXCEPT ![c] = w]
               /\ \/ /\ Builds(w) # NoSignature /\ Prepare(c)
                     /\ request' = [request EXCEPT ![c] = Builds(w)]
                  \/ Builds(w) = NoSignature /\ GiveUp(c) /\ UNCHANGED request
  BY DEF Ask, Wished
<1>3. Unasked(c)
  <2>1. ~Wished(c, wish[c])
    BY <1>1, Wishes DEF None
  <2>2. ~Built(c)
    BY <1>1 DEF Built, Building, None
  <2> QED
    BY <2>1, <2>2 DEF AskedInv, AskedOf, Refused, Asked
<1>4. value[c] = None /\ request[c] = None
  BY <1>3 DEF AskedInv, AskedOf, Given, Unasked
<1>5. AreMaps' /\ wish'[c] = w /\ \A d \in Call \ {c} : wish'[d] = wish[d] /\ request'[d] = request[d]
  BY <1>1, <1>2 DEF AskedInv, AreMaps
<1>6. \A d \in Call \ {c} : status'[d] = status[d] /\ ids'[d] = ids[d]
  BY <1>2 DEF Prepare, GiveUp, HttpInv, TypesOK
<1>7. (Refused(c) \/ Asked(c))'
  <2>1. CASE Builds(w) # NoSignature
    <3>1. request'[c] = Builds(w) /\ status'[c] = "idle"
      BY <1>2, <1>3, <2>1 DEF AskedInv, AreMaps, Prepare, Unasked
    <3> QED
      BY <1>2, <1>5, <2>1, <3>1 DEF Asked, Wished
  <2>2. CASE Builds(w) = NoSignature
    <3>1. request'[c] = None /\ status'[c] = "unsent"
      BY <1>2, <1>4, <2>2 DEF GiveUp, HttpInv, TypesOK
    <3> QED
      BY <1>2, <1>5, <2>2, <3>1 DEF Refused, Wished
  <2> QED
    BY <2>1, <2>2
<1>8. Given(c)'
  BY <1>1, <1>4 DEF Given
<1> QED
  BY <1>1, <1>5, <1>6, <1>7, <1>8, OwnStep DEF AskedOf

LEMMA NewBuilderStep ==
    ASSUME HttpInv, AskedInv, NEW c \in Call, NewBuilder(c) PROVE AskedInv'
<1>1. wish[c] = None /\ UNCHANGED <<returned, value, status, ids>>
  BY DEF NewBuilder, httpVars
<1>2. PICK b \in DOMAIN Turns[c] :
        /\ wish' = [wish EXCEPT ![c] = [want |-> "build", builder |-> b, setters |-> <<>>]]
        /\ request' = [request EXCEPT ![c] = [rpc |-> "any", built |-> Blank(b)]]
  BY DEF NewBuilder
<1>3. Unasked(c)
  <2>1. ~Wished(c, wish[c])
    BY <1>1, Wishes DEF None
  <2>2. ~Built(c)
    BY <1>1 DEF Built, Building, None
  <2> QED
    BY <2>1, <2>2 DEF AskedInv, AskedOf, Refused, Asked
<1>4. value[c] = None /\ status[c] = "idle"
  BY <1>3 DEF AskedInv, AskedOf, Given, Unasked
<1>5. /\ wish'[c] = [want |-> "build", builder |-> b, setters |-> <<>>]
      /\ request'[c] = [rpc |-> "any", built |-> Blank(b)]
      /\ AreMaps' /\ \A d \in Call \ {c} : wish'[d] = wish[d] /\ request'[d] = request[d]
  BY <1>1, <1>2 DEF AskedInv, AreMaps
<1>6. b \in DOMAIN Fields
  BY WishAssumption
<1>7. Building(wish'[c], request'[c])
  BY <1>5, <1>6, BlankIsBuilding
<1>8. Built(c)' /\ Given(c)'
  BY <1>1, <1>4, <1>7 DEF Built, Given
<1> QED
  BY <1>1, <1>5, <1>8, OwnStep DEF AskedOf

LEMMA UseSetterStep ==
    ASSUME HttpInv, AskedInv, NEW c \in Call, UseSetter(c) PROVE AskedInv'
<1>1. wish[c].want = "build" /\ UNCHANGED <<returned, value, status, ids>>
  BY DEF UseSetter, httpVars
<1>2. Built(c)
  <2>1. wish[c] # None /\ ~Wished(c, wish[c])
    BY <1>1, Wishes DEF None
  <2> QED
    BY <2>1 DEF AskedInv, AskedOf, Unasked, Refused, Asked
<1>3. PICK b, s, built :
        /\ b = wish[c].builder /\ s = wish[c].setters /\ built = request[c].built
        /\ wish[c] = [want |-> "build", builder |-> b, setters |-> s]
        /\ request[c] = [rpc |-> "any", built |-> built]
  BY <1>2 DEF Built, Building
<1>4. /\ b \in DOMAIN Fields /\ s \in Seq(Fields[b]) /\ built \in [Fields[b] -> Nat]
      /\ LastSetters(b, s, built) /\ status[c] # "unsent"
  BY <1>2, <1>3 DEF Built, Building
<1>5. PICK f \in Fields[b] :
        /\ wish' = [wish EXCEPT ![c].setters = Append(@, f)]
        /\ request' = [request EXCEPT ![c].built = Set(b, @, f, Len(s) + 1)]
  BY <1>3, <1>4, SettersAreFields DEF UseSetter
<1>6. PICK t, after : t = Append(s, f) /\ after = Set(b, built, f, Len(s) + 1)
  OBVIOUS
<1>7. /\ wish'[c] = [want |-> "build", builder |-> b, setters |-> t]
      /\ request'[c] = [rpc |-> "any", built |-> after]
  <2>1. wish[c].setters = s /\ request[c].built = built
    BY <1>3
  <2>2. wish'[c] = [wish[c] EXCEPT !.setters = t] /\ request'[c] = [request[c] EXCEPT !.built = after]
    BY <1>5, <1>6, <2>1 DEF AskedInv, AreMaps
  <2>3. [wish[c] EXCEPT !.setters = t] = [want |-> "build", builder |-> b, setters |-> t]
    BY <1>3
  <2>4. [request[c] EXCEPT !.built = after] = [rpc |-> "any", built |-> after]
    BY <1>3
  <2> QED
    BY <2>2, <2>3, <2>4
<1>8. AreMaps' /\ \A d \in Call \ {c} : wish'[d] = wish[d] /\ request'[d] = request[d]
  BY <1>1, <1>5 DEF AskedInv, AreMaps
<1>9. t \in Seq(Fields[b]) /\ after \in [Fields[b] -> Nat] /\ LastSetters(b, t, after)
  BY <1>4, <1>6, SetterKeepsLast
<1>10. Building(wish'[c], request'[c])
  BY <1>4, <1>7, <1>9 DEF Building
<1>11. Built(c)'
  BY <1>1, <1>2, <1>4, <1>10 DEF Built
<1>12. Given(c)'
  <2>1. status[c] = "idle"
    BY <1>2 DEF UseSetter, Built
  <2> QED
    BY <1>1, <2>1 DEF AskedInv, AskedOf, Given
<1> QED
  BY <1>1, <1>8, <1>11, <1>12, OwnStep DEF AskedOf

(* The further requests of a call, and the steps of the transport. *)
LEMMA TransportKeeps ==
    ASSUME HttpInv, AskedInv, NEW c \in Call, AskMore(c) \/ Transports(c) PROVE AskedInv'
<1>1. UNCHANGED <<wish, request, returned, value>>
  BY DEF AskMore, Transports, clientVars
<1>2. /\ status'[c] # "unsent" /\ ids'[c] # <<>> /\ ~Unasked(c) /\ ~Refused(c)
      /\ status[c] # "answered"
      /\ \A d \in Call \ {c} : status'[d] = status[d] /\ ids'[d] = ids[d]
  <2>1. CASE AskMore(c)
    BY <2>1 DEF AskMore, Prepare, HttpInv, TypesOK, Unasked, Refused
  <2>2. CASE Transports(c)
    BY <2>2, TransportStatus DEF Transports, Unasked, Refused
  <2> QED
    BY <2>1, <2>2
<1>3. (Asked(c) \/ Built(c))'
  BY <1>1, <1>2 DEF AskedInv, AskedOf, Asked, Built, Wished
<1>4. Given(c)'
  BY <1>1, <1>2 DEF AskedInv, AskedOf, Given
<1> QED
  BY <1>1, <1>2, <1>3, <1>4, OwnStep DEF AskedOf, AskedInv, AreMaps

(* The caller is given a value. *)
LEMMA DeliverStep ==
    ASSUME HttpInv, AskedInv, NEW c \in Call, Deliver(c) PROVE AskedInv'
<1>1. UNCHANGED <<wish, request, status, ids>> /\ status[c] = "answered"
  BY DEF Deliver, httpVars
<1>2. PICK r \in Returns(c) : /\ returned' = [returned EXCEPT ![c] = r]
                              /\ value' = [value EXCEPT ![c] = Reads(wish[c], r, request[c])]
  BY DEF Deliver
<1>3. /\ returned'[c] = r /\ value'[c] = Reads(wish[c], r, request[c])
      /\ AreMaps' /\ \A d \in Call \ {c} : value'[d] = value[d] /\ returned'[d] = returned[d]
  BY <1>1, <1>2 DEF AskedInv, AreMaps
<1>4. Given(c)'
  BY <1>1, <1>3 DEF Given, Returns
<1>5. (Unasked(c) \/ Refused(c) \/ Asked(c) \/ Built(c))'
  BY <1>1 DEF AskedInv, AskedOf, Unasked, Refused, Asked, Built, Wished
<1> QED
  BY <1>1, <1>3, <1>4, <1>5, OwnStep DEF AskedOf

(* The inductive invariant of the callers. *)
THEOREM AskedInvHolds == Spec => [](HttpInv /\ AskedInv)
<1>1. ClientInit => AskedInv
  BY DEF ClientInit, HttpInit, AskedInv, AreMaps, AskedOf, Unasked, Given
<1>2. HttpInv /\ AskedInv /\ [Next]_<<httpVars, clientVars>> => AskedInv'
  <2>1. ASSUME UNCHANGED <<httpVars, clientVars>>, AskedInv PROVE AskedInv'
    <3>1. UNCHANGED <<wish, request, returned, value, status, ids>>
      BY <2>1 DEF httpVars, clientVars
    <3>2. ASSUME NEW c \in Call PROVE AskedOf(c)'
      <4>1. (Unasked(c) \/ Refused(c) \/ Asked(c) \/ Built(c))'
        BY <2>1, <3>1 DEF AskedInv, AskedOf, Unasked, Refused, Asked, Built, Wished
      <4>2. Given(c)'
        BY <2>1, <3>1 DEF AskedInv, AskedOf, Given, Returns
      <4> QED
        BY <4>1, <4>2 DEF AskedOf
    <3>3. AreMaps'
      BY <2>1, <3>1 DEF AskedInv, AreMaps
    <3> QED
      BY <3>2, <3>3 DEF AskedInv
  <2> QED
    BY <2>1, AskStep, NewBuilderStep, UseSetterStep, TransportKeeps, DeliverStep DEF Next
<1> QED
  BY <1>1, <1>2, ClientUsesHttp, InvHolds, PTL DEF Spec

LEMMA RequestOfAsked ==
    ASSUME AskedInv, NEW c \in Call, request[c] # None
    PROVE  Asked(c) \/ Built(c)
BY DEF AskedInv, AskedOf, Unasked, Refused

LEMMA MethodRequest ==
    ASSUME NEW w
    PROVE  /\ w.want = "method" => Builds(w).params = Params(w.row, w.given)
           /\ w.want = "events" => Builds(w).topics = Topics(w.topics)
BY DEF Builds

(* Every request has its parameters where its method has them, the fields of a
   built one are from the last setters of them, and topics keep their places. *)
THEOREM RequestsAreKept == Spec => []RequestKept
<1>1. AskedInv => RequestKept
  <2> SUFFICES ASSUME AskedInv, NEW c \in Call, request[c] # None
               PROVE  /\ wish[c].want = "method" =>
                           \A i \in DOMAIN wish[c].row.params :
                             ParamKept(wish[c].row, wish[c].given, request[c].params, i)
                      /\ wish[c].want = "build" =>
                           LastSetters(wish[c].builder, wish[c].setters, request[c].built)
                      /\ wish[c].want = "events" =>
                           \A i \in 1 .. 4 :
                             wish[c].topics[i] # AnyTopic
                             <=> i \in DOMAIN request[c].topics /\ request[c].topics[i] # "null"
    BY DEF RequestKept, LastSetters
  <2>1. CASE Asked(c)
    <3>1. wish[c].want # "build" /\ request[c] = Builds(wish[c])
      BY <2>1, Wishes DEF Asked
    <3>2. ASSUME wish[c].want = "method"
          PROVE  \A i \in DOMAIN wish[c].row.params :
                   ParamKept(wish[c].row, wish[c].given, request[c].params, i)
      <4>1. wish[c].row.params \in Seq(Parameter)
        BY <2>1, <3>2, Wishes DEF Asked
      <4>2. request[c].params = Params(wish[c].row, wish[c].given)
        BY <3>1, <3>2, MethodRequest
      <4> QED
        BY <4>1, <4>2, ParamsKept
    <3>3. ASSUME wish[c].want = "events"
          PROVE  \A i \in 1 .. 4 :
                   wish[c].topics[i] # AnyTopic
                   <=> i \in DOMAIN request[c].topics /\ request[c].topics[i] # "null"
      <4>1. wish[c].topics \in [1 .. 4 -> Nat \cup {AnyTopic}]
        BY <2>1, <3>3, Wishes DEF Asked
      <4>2. request[c].topics = Topics(wish[c].topics)
        BY <3>1, <3>3, MethodRequest
      <4> QED
        BY <4>1, <4>2, TopicsKept
    <3> QED
      BY <3>1, <3>2, <3>3
  <2>2. CASE Built(c)
    <3>1. wish[c].want = "build" /\ LastSetters(wish[c].builder, wish[c].setters, request[c].built)
      BY <2>2 DEF Built, Building
    <3> QED
      BY <3>1
  <2> QED
    BY <2>1, <2>2, RequestOfAsked
<1> QED
  BY <1>1, AskedInvHolds, PTL

(* What is signed and sent, and what is read of it. *)
LEMMA TransactionRequest ==
    ASSUME NEW w, w.want = "transaction", NEW signed, signed = SignTransaction(w.type, w.chain, w.signer)
    PROVE  /\ signed.ok => /\ Builds(w).signed = signed /\ Builds(w).raw = Encode(w.type, signed)
                           /\ Builds(w).hashed = Encode(w.type, NoSignature)
           /\ ~signed.ok => Builds(w) = NoSignature
           /\ Builds(w) = NoSignature => ~signed.ok
<1>1. Builds(w) = IF ~signed.ok THEN NoSignature
                  ELSE [rpc |-> "eth_sendRawTransaction", signed |-> signed,
                        hashed |-> Encode(w.type, NoSignature), raw |-> Encode(w.type, signed)]
  BY DEF Builds
<1>2. PICK r : r = [rpc |-> "eth_sendRawTransaction", signed |-> signed,
                    hashed |-> Encode(w.type, NoSignature), raw |-> Encode(w.type, signed)]
  OBVIOUS
<1>3. /\ r.signed = signed /\ r.raw = Encode(w.type, signed) /\ r.hashed = Encode(w.type, NoSignature)
      /\ "signed" \in DOMAIN r
  BY <1>2
<1>4. r # NoSignature
  BY <1>3 DEF NoSignature
<1> QED
  BY <1>1, <1>2, <1>3, <1>4

LEMMA MessageRequest ==
    ASSUME NEW w, w.want = "message", NEW signed, signed = SignMessage(w.signer)
    PROVE  /\ signed.ok => Builds(w).signed = signed
           /\ ~signed.ok => Builds(w) = NoSignature
           /\ Builds(w) = NoSignature => ~signed.ok
<1>1. Builds(w) = IF ~signed.ok THEN NoSignature ELSE [rpc |-> "eth_call", signed |-> signed]
  BY DEF Builds
<1>2. PICK r : r = [rpc |-> "eth_call", signed |-> signed]
  OBVIOUS
<1>3. r.signed = signed /\ "signed" \in DOMAIN r
  BY <1>2
<1>4. r # NoSignature
  BY <1>3 DEF NoSignature
<1> QED
  BY <1>1, <1>2, <1>3, <1>4

LEMMA RecoveredValue ==
    ASSUME NEW c \in Call, Given(c), wish[c].want \in {"transaction", "message"}, value[c] # None
    PROVE  value[c].value = RecoveryId(request[c].signed.v)
<1>1. value[c] = Reads(wish[c], returned[c], request[c])
  BY DEF Given
<1>2. Reads(wish[c], returned[c], request[c]) = Ok(RecoveryId(request[c].signed.v))
  BY DEF Reads
<1>3. PICK v : v = RecoveryId(request[c].signed.v)
  OBVIOUS
<1>4. Ok(v).value = v
  BY DEF Ok
<1> QED
  BY <1>1, <1>2, <1>3, <1>4, Zenon

(* A signature that leaves the crate fits, names the chain and gives the parity
   of its signer back, its envelope is whole, and a secret key refuses only
   what it cannot sign (Transaction::sign, Accounts::sign, recovery_id). *)
THEOREM SignaturesAreExact == Spec => []SignatureExact
<1>1. AskedInv => SignatureExact
  <2> SUFFICES ASSUME AskedInv, NEW c \in Call, wish[c].want \in {"transaction", "message"},
                      NEW w, w = wish[c]
               PROVE  /\ request[c] # None =>
                           /\ w.want = "message" => request[c].signed.v \in {27, 28}
                           /\ w.want = "transaction" =>
                                /\ request[c].raw.declared = Len(request[c].raw.fields)
                                /\ request[c].hashed.declared = Len(request[c].hashed.fields)
                                /\ w.type \in Legacy => request[c].signed.v <= MaxU64
                                                        /\ (request[c].signed.v - 35) \div 2 = w.chain
                           /\ w.signer.secret /\ value[c] # None =>
                                value[c].value = IF w.want = "transaction" /\ w.type \in Typed
                                                   THEN 4 ELSE w.signer.parity
                      /\ status[c] = "unsent" /\ w.signer.secret =>
                           w.want = "transaction" /\ (w.type \notin Legacy \cup Typed
                                                      \/ ReplayProtected(w.chain, w.signer.parity) > MaxU64)
    BY DEF SignatureExact
  <2>1. Refused(c) \/ Asked(c)
    <3>1. ~Built(c)
      BY DEF Built, Building
    <3>2. ~Unasked(c)
      BY DEF Unasked, None
    <3> QED
      BY <3>1, <3>2 DEF AskedInv, AskedOf
  <2>2. w.signer \in Signer /\ (w.want = "transaction" => w.chain \in Nat)
    BY <2>1, Wishes DEF Refused, Asked
  <2>3. value[c] # None => value[c].value = RecoveryId(request[c].signed.v)
    BY RecoveredValue DEF AskedInv, AskedOf
  <2>4. CASE Refused(c) /\ w.want = "transaction"
    <3>1. ~SignTransaction(w.type, w.chain, w.signer).ok
      BY <2>4, TransactionRequest DEF Refused
    <3> QED
      BY <2>2, <2>4, <3>1, TransactionRefused DEF Refused
  <2>5. CASE Refused(c) /\ w.want = "message"
    <3>1. ~SignMessage(w.signer).ok
      BY <2>5, MessageRequest DEF Refused
    <3> QED
      BY <2>2, <2>5, <3>1, MessageSigned DEF Refused
  <2>6. CASE Asked(c) /\ w.want = "transaction"
    <3>1. PICK signed : signed = SignTransaction(w.type, w.chain, w.signer)
      OBVIOUS
    <3>2. signed.ok
      BY <2>6, <3>1, TransactionRequest DEF Asked
    <3>3. /\ request[c].signed = signed /\ request[c].raw = Encode(w.type, signed)
          /\ request[c].hashed = Encode(w.type, NoSignature)
      BY <2>6, <3>1, <3>2, TransactionRequest DEF Asked
    <3>4. /\ w.type \in Legacy \cup Typed
          /\ w.type \in Legacy => signed.v <= MaxU64 /\ (signed.v - 35) \div 2 = w.chain
          /\ w.signer.secret => RecoveryId(signed.v) = IF w.type \in Typed THEN 4 ELSE w.signer.parity
      BY <2>2, <2>6, <3>1, <3>2, TransactionSigned
    <3>5. Encode(w.type, signed).declared = Len(Encode(w.type, signed).fields)
      BY <3>2, <3>4, EnvelopeWhole
    <3>6. Encode(w.type, NoSignature).declared = Len(Encode(w.type, NoSignature).fields)
      BY <3>4, SignatureFields, EnvelopeWhole
    <3> QED
      BY <2>3, <2>6, <3>3, <3>4, <3>5, <3>6 DEF Asked
  <2>7. CASE Asked(c) /\ w.want = "message"
    <3>1. PICK signed : signed = SignMessage(w.signer)
      OBVIOUS
    <3>2. signed.ok
      BY <2>7, <3>1, MessageRequest DEF Asked
    <3>3. request[c].signed = signed
      BY <2>7, <3>1, <3>2, MessageRequest DEF Asked
    <3>4. signed.v \in {27, 28} /\ (w.signer.secret => RecoveryId(signed.v) = w.signer.parity)
      BY <2>2, <3>1, <3>2, MessageSigned
    <3> QED
      BY <2>3, <2>7, <3>3, <3>4 DEF Asked
  <2> QED
    BY <2>1, <2>4, <2>5, <2>6, <2>7
<1> QED
  BY <1>1, AskedInvHolds, PTL

-----------------------------------------------------------------------------
(* The JSON forms. *)

(* The number of digits of a number is one of those its type has. *)
LEMMA LengthFits ==
    ASSUME NEW n \in Nat, NEW width \in Nat \ {0}
    PROVE  Length(n, width) \in 1 .. width
<1>1. PICK longer : longer = {d \in 1 .. width - 1 : 16 ^ d <= n}
  OBVIOUS
<1>2. longer \in SUBSET (1 .. width - 1) /\ Length(n, width) = 1 + Cardinality(longer)
  BY <1>1 DEF Length
<1>3. IsFiniteSet(1 .. width - 1) /\ Cardinality(1 .. width - 1) = width - 1
  <2>1. 1 \in Int /\ width - 1 \in Int
    OBVIOUS
  <2>2. /\ IsFiniteSet(1 .. width - 1)
        /\ Cardinality(1 .. width - 1) = IF 1 > width - 1 THEN 0 ELSE width - 1 - 1 + 1
    BY <2>1, FS_Interval
  <2> QED
    BY <2>2
<1>4. IsFiniteSet(longer) /\ Cardinality(longer) <= width - 1
  BY <1>2, <1>3, FS_Subset
<1>5. Cardinality(longer) \in Nat
  BY <1>4, FS_CardinalityType
<1> QED
  BY <1>2, <1>4, <1>5

(* What is written as a quantity, or as a hash, is read as the number it is. *)
LEMMA QuantityFields ==
    ASSUME NEW n \in Nat, NEW width \in Nat \ {0}
    PROVE  /\ Quantity(n, width).json = "hex" /\ Quantity(n, width).number = n
           /\ Quantity(n, width).digits \in 1 .. width
BY LengthFits DEF Quantity, Hex

LEMMA HashFields == \A n : Hash(n).json = "hex" /\ Hash(n).digits = U256Digits /\ Hash(n).number = n
BY DEF Hash, Hex

LEMMA Names ==
    /\ DOMAIN InfoNames = 1 .. 3 /\ Len(InfoNames) = 3
    /\ InfoNames[1] = "startingBlock" /\ InfoNames[2] = "currentBlock" /\ InfoNames[3] = "highestBlock"
    /\ DOMAIN StatusNames = 1 .. 3 /\ Len(StatusNames) = 3
BY DEF InfoNames, StatusNames

LEMMA ResultFields == (\A v : Ok(v).ok = TRUE /\ Ok(v).value = v) /\ Fails.ok = FALSE
BY DEF Ok, Fails

(* The three blocks are read where each is a number of its type, whatever else
   there is, and are then the numbers written. *)
LEMMA InfoRead ==
    ASSUME NEW names, DOMAIN names = 1 .. 3, NEW j
    PROVE  /\ Info(names, j).ok <=>
                HasAll(names, j) /\ \A k \in 1 .. 3 : IsU256(FieldAt(names, j, k))
           /\ Info(names, j).ok =>
                /\ Info(names, j).value = [k \in 1 .. 3 |-> FieldAt(names, j, k).number]
                /\ Info(names, j).value # <<>>
                /\ Reports(names, j, Info(names, j).value)
<1>1. PICK read : read = [k \in 1 .. 3 |-> FieldAt(names, j, k).number]
  OBVIOUS
<1>2. Info(names, j) = IF HasAll(names, j) /\ \A k \in 1 .. 3 : IsU256(FieldAt(names, j, k))
                         THEN Ok(read) ELSE Fails
  BY <1>1 DEF Info
<1>3. ASSUME HasAll(names, j), \A k \in 1 .. 3 : IsU256(FieldAt(names, j, k))
      PROVE  read # <<>> /\ Reports(names, j, read)
  <2>1. 1 \in DOMAIN read
    BY <1>1
  <2>2. \A k \in 1 .. 3 : FieldAt(names, j, k).json = "hex" /\ FieldAt(names, j, k).number = read[k]
    BY <1>1, <1>3 DEF IsU256
  <2> QED
    BY <1>3, <2>1, <2>2 DEF Reports
<1> QED
  BY <1>1, <1>2, <1>3, ResultFields

(* A value handed out in its form and read back. *)
LEMMA BlockNumberBack ==
    ASSUME NEW v \in FormValues["block_number"]
    PROVE  BlockNumberFrom(BlockNumberTo(v)) = Ok(v)
<1>1. v \in [tag : Tags] \cup [number : 0 .. MaxNumber]
  BY DEF FormValues
<1>2. CASE v \in [tag : Tags]
  <2>1. v = Tagged(v.tag) /\ v.tag \in Tags /\ BlockNumberTo(v) = Text(v.tag)
    BY <1>2 DEF BlockNumberTo, Tagged
  <2>2. PICK j : j = Text(v.tag)
    OBVIOUS
  <2>3. j.json = "text" /\ j.text = v.tag
    BY <2>2 DEF Text
  <2> QED
    BY <2>1, <2>2, <2>3 DEF BlockNumberFrom
<1>3. CASE v \in [number : 0 .. MaxNumber]
  <2>1. v = Numbered(v.number) /\ v.number \in Nat /\ BlockNumberTo(v) = Quantity(v.number, U64Digits)
    BY <1>3 DEF BlockNumberTo, Numbered
  <2>2. PICK j : j = Quantity(v.number, U64Digits)
    OBVIOUS
  <2>3. j.json = "hex" /\ j.number = v.number /\ j.digits <= U64Digits
    BY <2>1, <2>2, FormsAssumption, QuantityFields
  <2> QED
    BY <2>1, <2>2, <2>3 DEF BlockNumberFrom
<1> QED
  BY <1>1, <1>2, <1>3

LEMMA BytesBack ==
    ASSUME NEW v \in FormValues["bytes"]
    PROVE  BytesFrom(BytesTo(v)) = Ok(v)
<1>1. /\ v = [length |-> v.length, number |-> v.number] /\ v.length \in Nat
  BY DEF FormValues
<1>2. PICK j : j = Hex(2 * v.length, v.number)
  OBVIOUS
<1>3. /\ j.json = "hex" /\ j.digits = 2 * v.length /\ j.number = v.number /\ BytesTo(v) = j
  BY <1>2 DEF Hex, BytesTo
<1>4. j.digits % 2 = 0 /\ j.digits \div 2 = v.length
  BY <1>1, <1>3
<1> QED
  BY <1>1, <1>3, <1>4 DEF BytesFrom

LEMMA WorkBack ==
    ASSUME NEW v \in FormValues["work"]
    PROVE  /\ Len(v) = 3 => WorkFrom(WorkTo(v)) = Ok(v)
           /\ Len(v) = 4 => WorkFrom(WorkTo(v)) = Fails
           /\ Len(v) \in {3, 4}
<1>1. v \in [1 .. 3 -> Nat] \cup [1 .. 4 -> Nat]
  BY DEF FormValues
<1>2. PICK items : items = [k \in DOMAIN v |-> IF k <= 3 THEN Hash(v[k]) ELSE Quantity(v[k], U256Digits)]
  OBVIOUS
<1>3. PICK j : j = JsonArray(items)
  OBVIOUS
<1>4. j.json = "array" /\ j.items = items /\ WorkTo(v) = j
  BY <1>2, <1>3 DEF JsonArray, WorkTo
<1>5. PICK S : S = {items[k] : k \in DOMAIN v}
  OBVIOUS
<1>6. CASE v \in [1 .. 3 -> Nat]
  <2>1. Len(v) = 3 /\ DOMAIN v = 1 .. 3
    BY <1>6
  <2>2. items \in [1 .. 3 -> S]
    BY <1>2, <1>5, <2>1
  <2>3. Len(items) = 3 /\ DOMAIN items = 1 .. 3
    BY <2>2
  <2>4. \A k \in 1 .. 3 : IsHash(items[k]) /\ items[k].number = v[k]
    BY <1>2, <2>1, HashFields DEF IsHash
  <2>5. WorkFrom(j) = Ok([k \in DOMAIN items |-> items[k].number])
    BY <1>4, <2>3, <2>4 DEF WorkFrom
  <2>6. [k \in DOMAIN items |-> items[k].number] = v
    BY <1>6, <2>3, <2>4
  <2> QED
    BY <1>4, <2>1, <2>5, <2>6
<1>7. CASE v \in [1 .. 4 -> Nat]
  <2>1. Len(v) = 4 /\ DOMAIN v = 1 .. 4 /\ v[4] \in Nat
    BY <1>7
  <2>2. items \in [1 .. 4 -> S]
    BY <1>2, <1>5, <2>1
  <2>3. Len(items) = 4
    BY <2>2
  <2>4. items[4] = Quantity(v[4], U256Digits)
    BY <1>2, <2>1
  <2>5. items[4].json = "hex"
    BY <2>1, <2>4, FormsAssumption, QuantityFields
  <2>6. WorkFrom(j) = Fails
    BY <1>4, <2>3, <2>5 DEF WorkFrom
  <2> QED
    BY <1>4, <2>1, <2>6
<1> QED
  BY <1>1, <1>6, <1>7

LEMMA SyncStateBack ==
    ASSUME NEW v \in FormValues["sync_state"]
    PROVE  SyncStateFrom(SyncStateTo(v)) = Ok(v)
<1>1. v \in {<<>>} \cup [1 .. 3 -> Nat]
  BY DEF FormValues
<1>2. CASE v = <<>>
  <2>1. PICK j : j = JsonBool(FALSE)
    OBVIOUS
  <2>2. j.json = "bool" /\ SyncStateTo(v) = j
    BY <1>2, <2>1 DEF JsonBool, SyncStateTo
  <2>3. ~Info(InfoNames, j).ok
    BY <2>2, InfoRead, Names DEF HasAll
  <2>4. Flag(j) = JsonNull
    BY <2>2 DEF Flag
  <2>5. JsonNull.json = "null"
    BY DEF JsonNull
  <2>6. SyncStateFrom(j) = Ok(<<>>)
    BY <2>1, <2>3, <2>4, <2>5 DEF SyncStateFrom
  <2> QED
    BY <1>2, <2>2, <2>6
<1>3. CASE v \in [1 .. 3 -> Nat]
  <2>1. v # <<>> /\ v[1] \in Nat /\ v[2] \in Nat /\ v[3] \in Nat
    <3>1. 1 \in DOMAIN v
      BY <1>3
    <3> QED
      BY <1>3, <3>1
  <2>2. PICK members : members = [startingBlock |-> Quantity(v[1], U256Digits),
                                  currentBlock  |-> Quantity(v[2], U256Digits),
                                  highestBlock  |-> Quantity(v[3], U256Digits)]
    OBVIOUS
  <2>3. PICK j : j = Object(members)
    OBVIOUS
  <2>4. j.json = "object" /\ j.members = members /\ SyncStateTo(v) = j
    BY <2>1, <2>2, <2>3 DEF Object, SyncStateTo
  <2>5. \A k \in 1 .. 3 : InfoNames[k] \in DOMAIN members /\ members[InfoNames[k]] = Quantity(v[k], U256Digits)
    BY <2>2, Names
  <2>6. \A k \in 1 .. 3 : FieldAt(InfoNames, j, k) = Quantity(v[k], U256Digits)
    BY <2>4, <2>5 DEF FieldAt
  <2>7. \A k \in 1 .. 3 : IsU256(FieldAt(InfoNames, j, k)) /\ FieldAt(InfoNames, j, k).number = v[k]
    BY <1>3, <2>6, FormsAssumption, QuantityFields DEF IsU256
  <2>8. HasAll(InfoNames, j)
    BY <2>4, <2>5, Names DEF HasAll
  <2>9. Info(InfoNames, j).ok /\ Info(InfoNames, j) = Ok(v)
    <3>1. [k \in 1 .. 3 |-> FieldAt(InfoNames, j, k).number] = v
      BY <1>3, <2>7
    <3> QED
      BY <2>7, <2>8, <3>1, Names, ResultFields DEF Info
  <2>10. SyncStateFrom(j) = Ok(v)
    BY <2>9 DEF SyncStateFrom
  <2> QED
    BY <2>4, <2>10
<1> QED
  BY <1>1, <1>2, <1>3

LEMMA CallRequestBack ==
    ASSUME NEW v \in FormValues["call_request"]
    PROVE  \A f \in CommonFields : \/ CallOf(ParametersOf(v))[f] = v[f]
                                   \/ v[f] = 0 /\ f \in DOMAIN DefaultOf
<1>1. v \in [CallFields -> Nat]
  BY DEF FormValues
<1>2. PICK parameters : parameters = ParametersOf(v)
  OBVIOUS
<1>3. \A f \in CommonFields : f \in CallFields /\ CallOf(parameters)[f] = parameters[f]
  BY DEF CallOf, CommonFields
<1>4. \A f \in CommonFields : parameters[f] = IF v[f] = 0 /\ f \in DOMAIN DefaultOf THEN DefaultOf[f] ELSE v[f]
  BY <1>2, <1>3 DEF ParametersOf
<1> QED
  BY <1>2, <1>3, <1>4

LEMMA FormsGiveBack ==
    ASSUME NEW form \in DOMAIN FormValues, NEW v \in FormValues[form]
    PROVE  FormKept(form, v, From(form, To(form, v)))
<1>1. CASE form = "block_number"
  <2>1. From(form, To(form, v)) = Ok(v)
    BY <1>1, BlockNumberBack DEF From, To
  <2> QED
    BY <1>1, <2>1, ResultFields DEF FormKept
<1>2. CASE form = "bytes"
  <2>1. From(form, To(form, v)) = Ok(v)
    BY <1>2, BytesBack DEF From, To
  <2> QED
    BY <1>2, <2>1, ResultFields DEF FormKept
<1>3. CASE form = "work"
  <2>1. From(form, To(form, v)) = WorkFrom(WorkTo(v))
    BY <1>3 DEF From, To
  <2> QED
    BY <1>3, <2>1, WorkBack, ResultFields DEF FormKept
<1>4. CASE form = "sync_state"
  <2>1. From(form, To(form, v)) = Ok(v)
    BY <1>4, SyncStateBack DEF From, To
  <2> QED
    BY <1>4, <2>1, ResultFields DEF FormKept
<1>5. CASE form = "call_request"
  <2>1. From(form, To(form, v)) = Ok(CallOf(ParametersOf(v)))
    BY <1>5 DEF From, To
  <2> QED
    BY <1>5, <2>1, CallRequestBack, ResultFields DEF FormKept
<1> QED
  BY <1>1, <1>2, <1>3, <1>4, <1>5 DEF FormValues

(* The flag of a notification, in whichever JSON value, is one of the two. *)
LEMMA FlagIsBool ==
    ASSUME NEW j, IsJson(j), Flag(j).json = "bool"
    PROVE  Flag(j) = JsonBool(Flag(j).bool) /\ Flag(j).bool \in BOOLEAN
<1>1. JsonNull.json = "null"
  BY DEF JsonNull
<1>2. IsFlat(Flag(j))
  <2>1. ASSUME NEW i \in JsonScalars PROVE IsFlat(i)
    BY <2>1 DEF IsFlat
  <2>2. CASE j.json = "object" /\ "syncing" \in DOMAIN j.members
    <3>1. Flag(j) = j.members["syncing"]
      BY <2>2 DEF Flag
    <3>2. j \notin JsonScalars
      BY <1>1, <2>2 DEF JsonScalars
    <3> QED
      BY <2>1, <2>2, <3>1, <3>2 DEF IsJson, IsFlat
  <2>3. CASE j.json = "array" /\ Len(j.items) = 2
    <3>1. Flag(j) = j.items[1]
      BY <2>3 DEF Flag
    <3>2. j \notin JsonScalars
      BY <1>1, <2>3 DEF JsonScalars
    <3>3. j.items \in Seq(JsonScalars) => j.items[1] \in JsonScalars
      BY <2>3
    <3> QED
      BY <2>1, <2>3, <3>1, <3>2, <3>3 DEF IsJson, IsFlat
  <2> QED
    BY <1>1, <2>2, <2>3 DEF Flag
<1>3. Flag(j) \in JsonScalars
  BY <1>2 DEF IsFlat
<1>4. Flag(j) \in [json : {"bool"}, bool : BOOLEAN]
  BY <1>1, <1>3 DEF JsonScalars
<1> QED
  BY <1>4 DEF JsonBool

(* What is read of a JSON value, whatever its shape. *)
LEMMA SyncStateMeans ==
    ASSUME NEW j, IsJson(j), SyncStateFrom(j).ok
    PROVE  Means("sync_state", SyncStateFrom(j).value, j)
<1>1. CASE Info(InfoNames, j).ok
  <2>1. SyncStateFrom(j) = Info(InfoNames, j)
    BY <1>1 DEF SyncStateFrom
  <2>2. Info(InfoNames, j).value # <<>> /\ Reports(InfoNames, j, Info(InfoNames, j).value)
    BY <1>1, InfoRead, Names
  <2> QED
    BY <2>1, <2>2 DEF Means
<1>2. CASE ~Info(InfoNames, j).ok /\ Flag(j).json = "bool"
  <2>1. /\ SyncStateFrom(j) = Status(j) /\ Status(j).ok
        /\ Flag(j).bool <=> Status(j).value # <<>>
    BY <1>2, ResultFields DEF SyncStateFrom
  <2>2. Flag(j) = JsonBool(Flag(j).bool) /\ Flag(j).bool \in BOOLEAN
    BY <1>2, FlagIsBool
  <2>3. CASE Status(j).value = <<>>
    <3>1. Flag(j).bool = FALSE
      BY <2>1, <2>2, <2>3
    <3> QED
      BY <2>1, <2>2, <2>3, <3>1 DEF Means
  <2>4. CASE Status(j).value # <<>>
    <3>1. Flag(j).bool = TRUE
      BY <2>1, <2>2, <2>4
    <3>2. Status(j) = Info(StatusNames, StatusOf(j))
      BY <2>4, ResultFields DEF Status
    <3>3. Reports(StatusNames, StatusOf(j), Status(j).value)
      <4>1. PICK names, said : names = StatusNames /\ said = StatusOf(j)
        OBVIOUS
      <4>2. Info(names, said).ok /\ Status(j) = Info(names, said)
        BY <2>1, <3>2, <4>1, Zenon
      <4>3. DOMAIN names = 1 .. 3
        BY <4>1, Names
      <4>4. Reports(names, said, Info(names, said).value)
        BY <4>2, <4>3, InfoRead
      <4> QED
        BY <4>1, <4>2, <4>4, Zenon
    <3> QED
      BY <2>1, <2>2, <2>4, <3>1, <3>3 DEF Means
  <2> QED
    BY <2>3, <2>4
<1>3. CASE ~Info(InfoNames, j).ok /\ Flag(j).json # "bool"
  <2>1. SyncStateFrom(j) = Ok(<<>>) /\ j = JsonBool(FALSE)
    BY <1>3, ResultFields DEF SyncStateFrom
  <2> QED
    BY <2>1, ResultFields DEF Means
<1> QED
  BY <1>1, <1>2, <1>3

LEMMA JsonMeans ==
    ASSUME NEW form \in JsonForms, NEW j, IsJson(j), From(form, j).ok
    PROVE  Means(form, From(form, j).value, j)
<1>1. CASE form = "block_number"
  <2>1. From(form, j) = BlockNumberFrom(j)
    BY <1>1 DEF From
  <2>2. CASE j.json = "text" /\ j.text \in Tags
    <3>1. BlockNumberFrom(j) = Ok(Tagged(j.text))
      BY <2>2 DEF BlockNumberFrom
    <3> QED
      BY <1>1, <2>1, <2>2, <3>1, ResultFields DEF Means
  <2>3. CASE j.json = "hex" /\ j.digits <= U64Digits
    <3>1. BlockNumberFrom(j) = Ok(Numbered(j.number))
      BY <2>3 DEF BlockNumberFrom
    <3> QED
      BY <1>1, <2>1, <2>3, <3>1, ResultFields DEF Means
  <2> QED
    BY <2>1, <2>2, <2>3, ResultFields DEF BlockNumberFrom
<1>2. CASE form = "bytes"
  <2>1. From(form, j) = BytesFrom(j)
    BY <1>2 DEF From
  <2>2. j.json = "hex" /\ j.digits % 2 = 0
    BY <2>1, ResultFields DEF BytesFrom
  <2>3. j.digits \in Nat
    BY <2>2 DEF IsJson, IsFlat, JsonScalars, JsonNull
  <2>4. PICK n : n = j.digits \div 2
    OBVIOUS
  <2>5. PICK read : read = [length |-> n, number |-> j.number]
    OBVIOUS
  <2>6. BytesFrom(j) = Ok(read)
    BY <2>2, <2>4, <2>5 DEF BytesFrom
  <2>7. 2 * read.length = j.digits /\ read.number = j.number
    BY <2>2, <2>3, <2>4, <2>5
  <2> QED
    BY <1>2, <2>1, <2>6, <2>7, ResultFields DEF Means
<1>3. CASE form = "work"
  <2>1. From(form, j) = WorkFrom(j)
    BY <1>3 DEF From
  <2>2. PICK read : read = [k \in DOMAIN j.items |-> j.items[k].number]
    OBVIOUS
  <2>3. WorkFrom(j) = Ok(read)
    BY <2>1, <2>2, ResultFields DEF WorkFrom
  <2>4. DOMAIN read = DOMAIN j.items /\ \A k \in DOMAIN read : read[k] = j.items[k].number
    BY <2>2
  <2> QED
    BY <1>3, <2>1, <2>3, <2>4, ResultFields DEF Means
<1>4. CASE form = "sync_state"
  <2>1. From(form, j) = SyncStateFrom(j)
    BY <1>4 DEF From
  <2> QED
    BY <1>4, <2>1, SyncStateMeans
<1> QED
  BY <1>1, <1>2, <1>3, <1>4 DEF JsonForms

(* The three blocks in an object are not refused, whatever is beside them. *)
LEMMA ProgressRead ==
    ASSUME NEW form, NEW j, Progress(form, j)
    PROVE  From(form, j).ok
<1>1. /\ form = "sync_state" /\ j.json = "object"
      /\ \A k \in 1 .. 3 : InfoNames[k] \in DOMAIN j.members /\ IsU256(j.members[InfoNames[k]])
  BY DEF Progress
<1>2. HasAll(InfoNames, j) /\ \A k \in 1 .. 3 : IsU256(FieldAt(InfoNames, j, k))
  BY <1>1, Names DEF HasAll, FieldAt
<1>3. Info(InfoNames, j).ok
  BY <1>2, InfoRead, Names
<1>4. SyncStateFrom(j) = Info(InfoNames, j)
  BY <1>3 DEF SyncStateFrom
<1> QED
  BY <1>1, <1>3, <1>4 DEF From

(* A value handed to a node and back is the same value, one read from JSON is
   what the node said, and an object that has the three blocks of a progress is
   read whatever else it has (the conversions of src/types). *)
THEOREM FormsAreKept == Spec => []FormsKept
<1>1. AskedInv => FormsKept
  <2> SUFFICES ASSUME AskedInv, NEW c \in Call, value[c] # None, NEW w, w = wish[c]
               PROVE  /\ w.want = "form" => FormKept(w.form, w.value, value[c])
                      /\ w.want = "json" =>
                           IF value[c].ok THEN Means(w.form, value[c].value, returned[c])
                           ELSE ~Progress(w.form, returned[c])
    BY DEF FormsKept
  <2>1. /\ status[c] = "answered" /\ returned[c] \in Returns(c)
        /\ value[c] = Reads(w, returned[c], request[c])
    BY DEF AskedInv, AskedOf, Given
  <2>2. w.want \in {"form", "json"} => Asked(c)
    <3>1. ~Unasked(c) /\ ~Refused(c)
      BY <2>1 DEF Unasked, Refused
    <3>2. w.want \in {"form", "json"} => ~Built(c)
      BY DEF Built, Building
    <3> QED
      BY <3>1, <3>2 DEF AskedInv, AskedOf
  <2>3. w.want \in {"form", "json"} => value[c] = From(w.form, returned[c])
    BY <2>1 DEF Reads
  <2>4. ASSUME w.want = "form" PROVE FormKept(w.form, w.value, value[c])
    <3>1. w.form \in DOMAIN FormValues /\ w.value \in FormValues[w.form] /\ request[c] = Builds(w)
      BY <2>2, <2>4, Wishes DEF Asked
    <3>2. PICK json : json = To(w.form, w.value)
      OBVIOUS
    <3>3. request[c].json = json
      BY <2>4, <3>1, <3>2 DEF Builds
    <3>4. returned[c] = json
      BY <2>1, <2>4, <3>3 DEF Returns
    <3>5. FormKept(w.form, w.value, From(w.form, json))
      BY <3>1, <3>2, FormsGiveBack
    <3> QED
      BY <2>3, <2>4, <3>4, <3>5
  <2>5. ASSUME w.want = "json"
        PROVE  IF value[c].ok THEN Means(w.form, value[c].value, returned[c])
               ELSE ~Progress(w.form, returned[c])
    <3>1. w.form \in JsonForms /\ \A j \in Json[w.form] : IsJson(j)
      BY <2>2, <2>5, Wishes DEF Asked
    <3>2. IsJson(returned[c])
      BY <2>1, <2>5, <3>1 DEF Returns
    <3>3. ~value[c].ok => ~Progress(w.form, returned[c])
      BY <2>3, <2>5, ProgressRead
    <3> QED
      BY <2>3, <2>5, <3>1, <3>2, <3>3, JsonMeans
  <2> QED
    BY <2>4, <2>5
<1> QED
  BY <1>1, AskedInvHolds, PTL

-----------------------------------------------------------------------------
(* Tokens. *)

LEMMA HalfWord == \E half \in Nat : Word = 2 * half /\ Word \div 2 = half
BY TokensAssumption

(* A result of collecting: all of the results, or the failure of one. *)
LEMMA Collected ==
    ASSUME NEW results
    PROVE  /\ Collect(results).ok <=> \A k \in DOMAIN results : results[k].ok
           /\ Collect(results).ok =>
                 Collect(results) = Ok([k \in DOMAIN results |-> results[k].value])
BY ResultFields DEF Collect

(* A word is read as the number it means, where that fits: the comparisons of
   words and the two's complement are exact at both ends of the range. *)
LEMMA IntegerRead ==
    ASSUME NEW kind \in ScalarKinds, kind.kind \in {"signed", "unsigned"},
           NEW node \in Nodes, node.tag \in {"Int", "Uint"}
    PROVE  /\ kind.kind = "signed" =>
                FromSigned(kind, node) = IF Number(node) \in -(kind.max + 1) .. kind.max
                                           THEN Ok(Number(node)) ELSE Fails
           /\ kind.kind = "unsigned" =>
                FromUnsigned(kind, node) =
                  IF Number(node) \in 0 .. kind.max THEN Ok(Number(node))
                  ELSE IF kind.max = Word - 1 THEN Ok(Number(node) + Word) ELSE Fails
<1>1. PICK half \in Nat : Word = 2 * half /\ Word \div 2 = half
  BY HalfWord
<1>2. node.bits \in 0 .. Word - 1
  BY DEF Nodes, PlainTags, ListTags
<1>3. PICK max : max = kind.max
  OBVIOUS
<1>4. PICK bits : bits = node.bits
  OBVIOUS
<1>5. /\ kind.kind = "signed" => max \in 0 .. half - 1
      /\ kind.kind = "unsigned" => max \in 0 .. half - 1 \/ max = Word - 1
  BY <1>1, <1>3 DEF ScalarKinds
<1>6. CASE node.tag = "Int" /\ bits >= half
  <2>1. Number(node) = bits - Word
    BY <1>1, <1>4, <1>6 DEF Number
  <2>2. (Word - 1) - bits + 1 = Word - bits /\ -(Word - bits) = bits - Word
    BY <1>1, <1>2, <1>4
  <2>3. ASSUME kind.kind = "signed"
        PROVE  FromSigned(kind, node) = IF bits - Word \in -(max + 1) .. max
                                          THEN Ok(bits - Word) ELSE Fails
    <3>1. FromSigned(kind, node) = IF Word - bits > max + 1 THEN Fails ELSE Ok(bits - Word)
      BY <1>1, <1>3, <1>4, <1>6, <2>2 DEF FromSigned
    <3>2. Word - bits > max + 1 <=> bits - Word \notin -(max + 1) .. max
      BY <1>1, <1>2, <1>4, <1>5, <2>3
    <3> QED
      BY <3>1, <3>2
  <2>4. ASSUME kind.kind = "unsigned"
        PROVE  FromUnsigned(kind, node) =
                 IF bits - Word \in 0 .. max THEN Ok(bits - Word)
                 ELSE IF max = Word - 1 THEN Ok(bits - Word + Word) ELSE Fails
    <3>1. FromUnsigned(kind, node) = IF bits > max THEN Fails ELSE Ok(bits)
      BY <1>3, <1>4 DEF FromUnsigned
    <3>2. /\ bits > max <=> max # Word - 1
          /\ bits - Word \notin 0 .. max /\ bits - Word + Word = bits
      BY <1>1, <1>2, <1>4, <1>5, <1>6, <2>4
    <3> QED
      BY <3>1, <3>2
  <2> QED
    BY <1>3, <2>1, <2>3, <2>4
<1>7. CASE ~(node.tag = "Int" /\ bits >= half)
  <2>1. Number(node) = bits
    BY <1>1, <1>4, <1>7 DEF Number
  <2>2. ASSUME kind.kind = "signed"
        PROVE  FromSigned(kind, node) = IF bits \in -(max + 1) .. max THEN Ok(bits) ELSE Fails
    <3>1. FromSigned(kind, node) = IF bits > max THEN Fails ELSE Ok(bits)
      BY <1>1, <1>3, <1>4, <1>7 DEF FromSigned
    <3>2. bits > max <=> bits \notin -(max + 1) .. max
      BY <1>1, <1>2, <1>4, <1>5, <2>2
    <3> QED
      BY <3>1, <3>2
  <2>3. ASSUME kind.kind = "unsigned"
        PROVE  FromUnsigned(kind, node) =
                 IF bits \in 0 .. max THEN Ok(bits)
                 ELSE IF max = Word - 1 THEN Ok(bits + Word) ELSE Fails
    <3>1. FromUnsigned(kind, node) = IF bits > max THEN Fails ELSE Ok(bits)
      BY <1>3, <1>4 DEF FromUnsigned
    <3>2. (bits > max <=> bits \notin 0 .. max) /\ (max = Word - 1 => bits \in 0 .. max)
      BY <1>1, <1>2, <1>4, <1>5, <2>3
    <3> QED
      BY <3>1, <3>2
  <2> QED
    BY <1>3, <2>1, <2>2, <2>3
<1> QED
  BY <1>6, <1>7

(* What an accepted node holds. *)
LEMMA AcceptedNode ==
    ASSUME NEW kind \in ScalarKinds \cup ListKinds, NEW node \in Nodes, node.tag \in Accepts(kind)
    PROVE  /\ kind.kind \in {"signed", "unsigned"} =>
                kind \in ScalarKinds /\ node.tag \in {"Int", "Uint"} /\ node.bits \in 0 .. Word - 1
           /\ kind.kind \in {"plain", "bytes", "fixed"} => node.bytes \in Seq(Nat)
           /\ kind.kind \in {"vec", "array"} => node.length \in Nat
<1>1. kind.kind \in {"signed", "unsigned"} => Accepts(kind) = {"Int", "Uint"} /\ kind \in ScalarKinds
  BY DEF Accepts, ListKinds
<1>2. kind.kind \in {"plain", "bytes", "fixed"} => Accepts(kind) \subseteq PlainTags \cup {"FixedBytes"}
  <2>1. kind.kind = "plain" => kind.tag \in PlainTags /\ Accepts(kind) = {kind.tag}
    BY DEF Accepts, ScalarKinds, ListKinds
  <2>2. kind.kind \in {"bytes", "fixed"} => Accepts(kind) \subseteq {"Bytes", "FixedBytes"}
    BY DEF Accepts
  <2> QED
    BY <2>1, <2>2 DEF PlainTags
<1>3. kind.kind \in {"vec", "array"} => Accepts(kind) \subseteq ListTags
  BY DEF Accepts, ListTags
<1>4. /\ node.tag \in {"Int", "Uint"} => node.bits \in 0 .. Word - 1
      /\ node.tag \in PlainTags \cup {"FixedBytes"} => node.bytes \in Seq(Nat)
      /\ node.tag \in ListTags => node.length \in Nat
  BY DEF Nodes, PlainTags, ListTags
<1> QED
  BY <1>1, <1>2, <1>3, <1>4

LEMMA Kinds ==
    ASSUME NEW kind \in ScalarKinds \cup ListKinds
    PROVE  /\ kind.kind \in {"signed", "unsigned", "plain", "bytes", "fixed", "vec", "array"}
           /\ kind.kind \in {"fixed", "array"} => kind.length \in Nat
BY DEF ScalarKinds, ListKinds

(* A node is read as what it says, and refused only when no value of the type
   says it. *)
LEMMA NodeRead ==
    ASSUME NEW kind \in ScalarKinds \cup ListKinds, NEW node \in Nodes
    PROVE  IF FromNode(kind, node).ok THEN FromNode(kind, node).value \in Sayings(kind, node)
           ELSE Sayings(kind, node) = {}
<1>1. CASE node.tag \notin Accepts(kind)
  BY <1>1, ResultFields DEF FromNode, Sayings
<1>2. CASE node.tag \in Accepts(kind)
  <2> DEFINE Goal(result) == IF result.ok THEN result.value \in Sayings(kind, node)
                             ELSE Sayings(kind, node) = {}
  <2>1. Sayings(kind, node) = {m \in Meanings(kind, node) : m \in Atoms(kind)}
    BY <1>2 DEF Sayings
  <2>2. CASE kind.kind = "signed"
    <3>1. /\ FromNode(kind, node) = FromSigned(kind, node)
          /\ Sayings(kind, node) = {m \in {Number(node)} : m \in -(kind.max + 1) .. kind.max}
      BY <1>2, <2>1, <2>2 DEF FromNode, Meanings, Atoms
    <3>2. FromSigned(kind, node) = IF Number(node) \in -(kind.max + 1) .. kind.max
                                     THEN Ok(Number(node)) ELSE Fails
      BY <1>2, <2>2, AcceptedNode, IntegerRead
    <3> QED
      BY <3>1, <3>2, ResultFields
  <2>3. CASE kind.kind = "unsigned"
    <3>1. PICK S : S = IF kind.max = Word - 1 THEN {Number(node), Number(node) + Word} ELSE {Number(node)}
      OBVIOUS
    <3>2. /\ FromNode(kind, node) = FromUnsigned(kind, node)
          /\ Sayings(kind, node) = {m \in S : m \in 0 .. kind.max}
      BY <1>2, <2>1, <2>3, <3>1 DEF FromNode, Meanings, Atoms
    <3>3. FromUnsigned(kind, node) =
            IF Number(node) \in 0 .. kind.max THEN Ok(Number(node))
            ELSE IF kind.max = Word - 1 THEN Ok(Number(node) + Word) ELSE Fails
      BY <1>2, <2>3, AcceptedNode, IntegerRead
    <3>4. kind.max = Word - 1 /\ Number(node) \notin 0 .. kind.max => Number(node) + Word \in 0 .. kind.max
      <4>1. PICK half \in Nat : Word = 2 * half /\ Word \div 2 = half
        BY HalfWord
      <4>2. node.bits \in 0 .. Word - 1
        BY <1>2, <2>3, AcceptedNode
      <4>3. Number(node) = node.bits \/ Number(node) = node.bits - Word
        BY DEF Number
      <4> QED
        BY <4>1, <4>2, <4>3
    <3>5. CASE Number(node) \in 0 .. kind.max
      BY <3>1, <3>2, <3>3, <3>5, ResultFields
    <3>6. CASE Number(node) \notin 0 .. kind.max /\ kind.max = Word - 1
      BY <3>1, <3>2, <3>3, <3>4, <3>6, ResultFields
    <3>7. CASE Number(node) \notin 0 .. kind.max /\ kind.max # Word - 1
      BY <3>1, <3>2, <3>3, <3>7, ResultFields
    <3> QED
      BY <3>5, <3>6, <3>7
  <2>4. CASE kind.kind \in {"plain", "bytes", "fixed"}
    <3>1. /\ FromNode(kind, node) = IF Exactly(kind, Len(node.bytes)) THEN Ok(node.bytes) ELSE Fails
          /\ Sayings(kind, node) = {m \in {node.bytes} : m \in Atoms(kind)}
      BY <1>2, <2>1, <2>4 DEF FromNode, Meanings
    <3>2. node.bytes \in Atoms(kind) <=> Exactly(kind, Len(node.bytes))
      BY <1>2, <2>4, AcceptedNode DEF Atoms, Exactly
    <3> QED
      BY <3>1, <3>2, ResultFields
  <2>5. CASE kind.kind \in {"vec", "array"}
    <3>1. /\ FromNode(kind, node) = IF Exactly(kind, node.length) THEN Ok(node.length) ELSE Fails
          /\ Sayings(kind, node) = {m \in {node.length} : m \in Atoms(kind)}
      BY <1>2, <2>1, <2>5 DEF FromNode, Meanings
    <3>2. node.length \in Atoms(kind) <=> Exactly(kind, node.length)
      BY <1>2, <2>5, AcceptedNode DEF Atoms, Exactly
    <3> QED
      BY <3>1, <3>2, ResultFields
  <2> QED
    BY <2>2, <2>3, <2>4, <2>5, Kinds
<1> QED
  BY <1>1, <1>2

(* What is written of a value is read as the value, the least of a signed type
   included. *)
LEMMA NodeWritten ==
    ASSUME NEW kind \in ScalarKinds \cup ListKinds, NEW atom \in Atoms(kind)
    PROVE  FromNode(kind, IntoNode(kind, atom)) = Ok(atom)
<1>0. /\ \A tag, bits : IntNode(tag, bits).tag = tag /\ IntNode(tag, bits).bits = bits
      /\ \A tag, bytes : PlainNode(tag, bytes).tag = tag /\ PlainNode(tag, bytes).bytes = bytes
      /\ \A tag, n : ListNode(tag, n).tag = tag /\ ListNode(tag, n).length = n
  BY DEF IntNode, PlainNode, ListNode
<1>1. PICK node : node = IntoNode(kind, atom)
  OBVIOUS
<1>2. PICK half \in Nat : Word = 2 * half /\ Word \div 2 = half
  BY HalfWord
<1>3. CASE kind.kind = "signed"
  <2>1. kind.max \in 0 .. half - 1 /\ atom \in -(kind.max + 1) .. kind.max
    BY <1>2, <1>3 DEF ScalarKinds, ListKinds, Atoms
  <2>2. PICK bits : bits = IF atom < 0 THEN Word + atom ELSE atom
    OBVIOUS
  <2>3. node.tag = "Int" /\ node.bits = bits
    BY <1>0, <1>1, <1>3, <2>2 DEF IntoNode
  <2>4. FromNode(kind, node) = FromSigned(kind, node)
    BY <1>3, <2>3 DEF FromNode, Accepts
  <2>5. CASE atom < 0
    <3>1. /\ bits >= half /\ -((Word - 1) - bits + 1) = atom
          /\ ~((Word - 1) - bits + 1 > kind.max + 1)
      BY <1>2, <2>1, <2>2, <2>5
    <3> QED
      BY <1>1, <1>2, <2>3, <2>4, <3>1 DEF FromSigned
  <2>6. CASE ~(atom < 0)
    <3>1. bits = atom /\ ~(bits >= half) /\ ~(bits > kind.max)
      BY <1>2, <2>1, <2>2, <2>6
    <3> QED
      BY <1>1, <1>2, <2>3, <2>4, <3>1 DEF FromSigned
  <2> QED
    BY <2>5, <2>6
<1>4. CASE kind.kind = "unsigned"
  <2>1. kind.max \in Int /\ atom \in 0 .. kind.max
    BY <1>2, <1>4 DEF ScalarKinds, ListKinds, Atoms
  <2>2. node.tag = "Uint" /\ node.bits = atom
    BY <1>0, <1>1, <1>4 DEF IntoNode
  <2>3. FromNode(kind, node) = FromUnsigned(kind, node)
    BY <1>4, <2>2 DEF FromNode, Accepts
  <2> QED
    BY <1>1, <2>1, <2>2, <2>3 DEF FromUnsigned
<1>5. CASE kind.kind \in {"plain", "bytes", "fixed"}
  <2>1. node.tag \in Accepts(kind) /\ node.bytes = atom
    BY <1>0, <1>1, <1>5 DEF IntoNode, Accepts
  <2>2. Exactly(kind, Len(atom))
    BY <1>5 DEF Exactly, Atoms
  <2> QED
    BY <1>1, <1>5, <2>1, <2>2 DEF FromNode
<1>6. CASE kind.kind \in {"vec", "array"}
  <2>1. node.tag \in Accepts(kind) /\ node.length = atom
    BY <1>0, <1>1, <1>6 DEF IntoNode, Accepts
  <2>2. Exactly(kind, atom)
    BY <1>6 DEF Exactly, Atoms
  <2> QED
    BY <1>1, <1>6, <2>1, <2>2 DEF FromNode
<1> QED
  BY <1>3, <1>4, <1>5, <1>6, Kinds

LEMMA KindAt ==
    ASSUME NEW type \in Types, NEW p \in Seq(Nat)
    PROVE  At(type, p) \in ScalarKinds \cup ListKinds
<1>1. type.leaf \in ScalarKinds /\ type.nest \in Seq(ListKinds)
  BY DEF Types
<1>2. Len(p) \in Nat /\ Len(type.nest) \in Nat
  BY <1>1
<1>3. CASE Len(p) < Len(type.nest)
  <2>1. Len(p) + 1 \in 1 .. Len(type.nest)
    BY <1>2, <1>3
  <2>2. type.nest[Len(p) + 1] \in ListKinds
    BY <1>1, <2>1
  <2> QED
    BY <1>3, <2>2 DEF At
<1> QED
  BY <1>1, <1>3 DEF At

(* A token is read as what it says at every position, or refused for one where
   no value says it. *)
LEMMA TokenRead ==
    ASSUME NEW type \in Types, NEW token, IsToken(token)
    PROVE  IF FromToken(type, token).ok THEN Says(type, FromToken(type, token).value, token)
           ELSE ~Sayable(type, token)
<1>1. PICK results : results = [p \in DOMAIN token |-> FromNode(At(type, p), token[p])]
  OBVIOUS
<1>2. FromToken(type, token) = Collect(results) /\ DOMAIN results = DOMAIN token
  BY <1>1 DEF FromToken
<1>3. \A p \in DOMAIN token :
         IF results[p].ok THEN results[p].value \in Sayings(At(type, p), token[p])
         ELSE Sayings(At(type, p), token[p]) = {}
  <2>1. ASSUME NEW p \in DOMAIN token
        PROVE  IF results[p].ok THEN results[p].value \in Sayings(At(type, p), token[p])
               ELSE Sayings(At(type, p), token[p]) = {}
    <3>1. p \in Seq(Nat) /\ token[p] \in Nodes
      BY DEF IsToken
    <3>2. PICK kind \in ScalarKinds \cup ListKinds : kind = At(type, p)
      BY <3>1, KindAt
    <3>3. results[p] = FromNode(kind, token[p])
      BY <1>1, <3>2
    <3>4. IF FromNode(kind, token[p]).ok THEN FromNode(kind, token[p]).value \in Sayings(kind, token[p])
          ELSE Sayings(kind, token[p]) = {}
      BY <3>1, NodeRead
    <3> QED
      BY <3>2, <3>3, <3>4, Zenon
  <2> QED
    BY <2>1
<1>4. PICK result : result = Collect(results)
  OBVIOUS
<1>5. CASE result.ok
  <2>1. /\ \A p \in DOMAIN token : results[p].ok
        /\ result = Ok([p \in DOMAIN token |-> results[p].value])
    BY <1>2, <1>4, <1>5, Collected
  <2>2. result.value = [p \in DOMAIN token |-> results[p].value]
    BY <2>1, ResultFields
  <2>3. Says(type, result.value, token)
    BY <1>3, <2>1, <2>2 DEF Says
  <2> QED
    BY <1>2, <1>4, <1>5, <2>3
<1>6. CASE ~result.ok
  <2>1. PICK p \in DOMAIN token : ~results[p].ok
    BY <1>2, <1>4, <1>6, Collected
  <2>2. ~Sayable(type, token)
    BY <1>3, <2>1 DEF Sayable
  <2> QED
    BY <1>2, <1>4, <1>6, <2>2
<1> QED
  BY <1>5, <1>6

LEMMA TokenWritten ==
    ASSUME NEW type \in Types, NEW v, IsValue(type, v)
    PROVE  FromToken(type, IntoToken(type, v)) = Ok(v)
<1>1. PICK token : token = IntoToken(type, v)
  OBVIOUS
<1>2. DOMAIN token = DOMAIN v /\ \A p \in DOMAIN v : token[p] = IntoNode(At(type, p), v[p])
  BY <1>1 DEF IntoToken
<1>3. PICK results : results = [p \in DOMAIN token |-> FromNode(At(type, p), token[p])]
  OBVIOUS
<1>4. FromToken(type, token) = Collect(results) /\ DOMAIN results = DOMAIN v
  BY <1>2, <1>3 DEF FromToken
<1>5. \A p \in DOMAIN v : results[p] = Ok(v[p])
  <2>1. ASSUME NEW p \in DOMAIN v PROVE results[p] = Ok(v[p])
    <3>1. p \in Seq(Nat) /\ v[p] \in Atoms(At(type, p))
      BY DEF IsValue
    <3>2. PICK kind \in ScalarKinds \cup ListKinds : kind = At(type, p)
      BY <3>1, KindAt
    <3>3. results[p] = FromNode(kind, IntoNode(kind, v[p]))
      BY <1>2, <1>3, <3>2
    <3>4. FromNode(kind, IntoNode(kind, v[p])) = Ok(v[p])
      BY <3>1, <3>2, NodeWritten
    <3> QED
      BY <3>3, <3>4
  <2> QED
    BY <2>1
<1>6. \A p \in DOMAIN v : results[p].ok = TRUE /\ results[p].value = v[p]
  BY <1>5, ResultFields
<1>7. Collect(results) = Ok([p \in DOMAIN v |-> results[p].value])
  BY <1>4, <1>6, Collected
<1>8. [p \in DOMAIN v |-> results[p].value] = [p \in DOMAIN v |-> v[p]]
  BY <1>6
<1>9. [p \in DOMAIN v |-> v[p]] = v
  BY DEF IsValue
<1> QED
  BY <1>1, <1>4, <1>7, <1>8, <1>9, Zenon

(* The same of the tokens of a tuple: as many as its types, and each of its
   type. *)
LEMMA TokensRead ==
    ASSUME NEW types \in Seq(Types), NEW tokens, IsTokens(tokens)
    PROVE  IF FromTokens(types, tokens).ok THEN SaysAll(types, FromTokens(types, tokens).value, tokens)
           ELSE ~SayableAll(types, tokens)
<1>1. CASE Len(tokens) # Len(types)
  BY <1>1, ResultFields DEF FromTokens, SayableAll
<1>2. CASE Len(tokens) = Len(types)
  <2>1. PICK results : results = [k \in DOMAIN types |-> FromToken(types[k], tokens[k])]
    OBVIOUS
  <2>2. PICK result : result = Collect(results)
    OBVIOUS
  <2>3. FromTokens(types, tokens) = result /\ DOMAIN results = DOMAIN types
    BY <1>2, <2>1, <2>2 DEF FromTokens
  <2>4. \A k \in DOMAIN types : IF results[k].ok THEN Says(types[k], results[k].value, tokens[k])
                                ELSE ~Sayable(types[k], tokens[k])
    <3>1. ASSUME NEW k \in DOMAIN types
          PROVE  IF results[k].ok THEN Says(types[k], results[k].value, tokens[k])
                 ELSE ~Sayable(types[k], tokens[k])
      <4>1. k \in 1 .. Len(tokens) /\ types[k] \in Types
        BY <1>2
      <4>2. IsToken(tokens[k])
        BY <4>1 DEF IsTokens
      <4>3. results[k] = FromToken(types[k], tokens[k])
        BY <2>1
      <4> QED
        BY <4>1, <4>2, <4>3, TokenRead
    <3> QED
      BY <3>1
  <2>5. CASE result.ok
    <3>1. /\ \A k \in DOMAIN types : results[k].ok
          /\ result = Ok([k \in DOMAIN types |-> results[k].value])
      BY <2>2, <2>3, <2>5, Collected
    <3>2. result.value = [k \in DOMAIN types |-> results[k].value]
      BY <3>1, ResultFields
    <3>3. SaysAll(types, result.value, tokens)
      BY <1>2, <2>4, <3>1, <3>2 DEF SaysAll
    <3> QED
      BY <2>3, <2>5, <3>3
  <2>6. CASE ~result.ok
    <3>1. PICK k \in DOMAIN types : ~results[k].ok
      BY <2>2, <2>3, <2>6, Collected
    <3>2. ~SayableAll(types, tokens)
      BY <2>4, <3>1 DEF SayableAll
    <3> QED
      BY <2>3, <2>6, <3>2
  <2> QED
    BY <2>5, <2>6
<1> QED
  BY <1>1, <1>2

LEMMA TokensWritten ==
    ASSUME NEW types \in Seq(Types), NEW values, IsValues(types, values)
    PROVE  FromTokens(types, IntoTokens(types, values)) = Ok(values)
<1>1. PICK tokens : tokens = [k \in DOMAIN types |-> IntoToken(types[k], values[k])]
  OBVIOUS
<1>2. IntoTokens(types, values) = tokens /\ Len(tokens) = Len(types)
  BY <1>1 DEF IntoTokens
<1>3. PICK results : results = [k \in DOMAIN types |-> FromToken(types[k], tokens[k])]
  OBVIOUS
<1>4. FromTokens(types, tokens) = Collect(results)
  BY <1>2, <1>3 DEF FromTokens
<1>5. \A k \in DOMAIN types : results[k] = Ok(values[k])
  <2>1. ASSUME NEW k \in DOMAIN types PROVE results[k] = Ok(values[k])
    <3>1. types[k] \in Types /\ IsValue(types[k], values[k])
      BY DEF IsValues
    <3>2. results[k] = FromToken(types[k], IntoToken(types[k], values[k]))
      BY <1>1, <1>3
    <3> QED
      BY <3>1, <3>2, TokenWritten
  <2> QED
    BY <2>1
<1>6. \A k \in DOMAIN types : results[k].ok = TRUE /\ results[k].value = values[k]
  BY <1>5, ResultFields
<1>7. Collect(results) = Ok([k \in DOMAIN types |-> results[k].value])
  BY <1>3, <1>6, Collected
<1>8. [k \in DOMAIN types |-> results[k].value] = [k \in DOMAIN types |-> values[k]]
  BY <1>6
<1>9. [k \in DOMAIN types |-> values[k]] = values
  BY DEF IsValues
<1> QED
  BY <1>2, <1>4, <1>7, <1>8, <1>9, Zenon

-----------------------------------------------------------------------------
(* The items of a list. *)

(* Positions: one below an item, and the items of lists. *)
LEMMA Positions ==
    ASSUME NEW k \in Nat, NEW p \in Seq(Nat)
    PROVE  /\ <<k>> \o p \in Seq(Nat) /\ <<k>> \o p # <<>> /\ (<<k>> \o p)[1] = k
           /\ Append(<<>>, k) = <<k>> \o <<>>
           /\ \A q \in Seq(Nat) : <<k>> \o p = <<k>> \o q => p = q
           /\ \A j \in Nat : <<k>> \o Append(p, j) = Append(<<k>> \o p, j)
           /\ p # <<>> => p[1] \in Nat /\ Tail(p) \in Seq(Nat) /\ p = <<p[1]>> \o Tail(p)
<1>1. <<k>> \in Seq(Nat) /\ Len(<<k>>) = 1 /\ <<k>>[1] = k
  OBVIOUS
<1>2. /\ <<k>> \o p \in Seq(Nat) /\ Len(<<k>> \o p) = 1 + Len(p) /\ (<<k>> \o p)[1] = k
  BY <1>1, ConcatProperties
<1>3. <<k>> \o p # <<>>
  BY <1>2
<1>4. Append(<<>>, k) = <<k>> \o <<>>
  OBVIOUS
<1>5. \A q \in Seq(Nat) : <<k>> \o p = <<k>> \o q => p = q
  <2>1. ASSUME NEW q \in Seq(Nat), <<k>> \o p = <<k>> \o q PROVE p = q
    <3>1. PICK s \in Seq(Nat) : s = <<k>> /\ Len(s) = 1
      BY <1>1
    <3>2. /\ Len(s \o p) = 1 + Len(p) /\ Len(s \o q) = 1 + Len(q)
          /\ \A i \in 1 .. 1 + Len(p) : (s \o p)[i] = IF i <= 1 THEN s[i] ELSE p[i - 1]
          /\ \A i \in 1 .. 1 + Len(q) : (s \o q)[i] = IF i <= 1 THEN s[i] ELSE q[i - 1]
      BY <3>1, ConcatProperties
    <3>3. s \o p = s \o q
      BY <2>1, <3>1
    <3>4. Len(p) = Len(q)
      BY <3>2, <3>3
    <3>5. ASSUME NEW i \in 1 .. Len(p) PROVE p[i] = q[i]
      <4>1. i + 1 \in 1 .. 1 + Len(p) /\ ~(i + 1 <= 1) /\ i + 1 - 1 = i
        OBVIOUS
      <4>2. p[i] = (s \o p)[i + 1]
        BY <3>2, <4>1
      <4>3. q[i] = (s \o q)[i + 1]
        <5>1. i + 1 \in 1 .. 1 + Len(q)
          BY <3>4, <4>1
        <5> QED
          BY <3>2, <4>1, <5>1
      <4> QED
        BY <3>3, <4>2, <4>3
    <3> QED
      BY <3>4, <3>5, SeqEqual
  <2> QED
    BY <2>1
<1>6. \A j \in Nat : <<k>> \o Append(p, j) = Append(<<k>> \o p, j)
  <2>1. ASSUME NEW j \in Nat PROVE <<k>> \o Append(p, j) = Append(<<k>> \o p, j)
    <3>1. Append(p, j) = p \o <<j>> /\ Append(<<k>> \o p, j) = (<<k>> \o p) \o <<j>>
      BY <1>2, AppendIsConcat
    <3>2. <<j>> \in Seq(Nat)
      OBVIOUS
    <3>3. (<<k>> \o p) \o <<j>> = <<k>> \o (p \o <<j>>)
      BY <1>1, <3>2, ConcatAssociative
    <3> QED
      BY <3>1, <3>3
  <2> QED
    BY <2>1
<1>7. p # <<>> => p[1] \in Nat /\ Tail(p) \in Seq(Nat) /\ p = <<p[1]>> \o Tail(p)
  <2>1. ASSUME p # <<>> PROVE p[1] \in Nat /\ Tail(p) \in Seq(Nat) /\ p = <<p[1]>> \o Tail(p)
    <3>1. p[1] \in Nat /\ Len(p) \in Nat \ {0}
      BY <2>1
    <3>2. /\ Tail(p) \in Seq(Nat) /\ Len(Tail(p)) = Len(p) - 1
          /\ \A i \in 1 .. Len(Tail(p)) : Tail(p)[i] = p[i + 1]
      BY <2>1, HeadTailProperties
    <3>3. PICK t \in Seq(Nat) : t = Tail(p)
      BY <3>2
    <3>4. PICK h \in Nat, s \in Seq(Nat) : h = p[1] /\ s = <<h>> /\ Len(s) = 1
      <4>1. PICK h \in Nat : h = p[1]
        BY <3>1
      <4>2. <<h>> \in Seq(Nat) /\ Len(<<h>>) = 1
        OBVIOUS
      <4> QED
        BY <4>1, <4>2
    <3>5. /\ s \o t \in Seq(Nat) /\ Len(s) = 1 /\ Len(s \o t) = 1 + Len(t)
          /\ \A i \in 1 .. 1 + Len(t) : (s \o t)[i] = IF i <= 1 THEN s[i] ELSE t[i - 1]
      BY <3>4, ConcatProperties
    <3>6. Len(s \o t) = Len(p)
      BY <3>1, <3>2, <3>3, <3>5
    <3>7. ASSUME NEW i \in 1 .. Len(s \o t) PROVE (s \o t)[i] = p[i]
      <4>1. CASE i = 1
        BY <3>4, <3>5, <4>1
      <4>2. CASE i # 1
        <5>1. i - 1 \in 1 .. Len(t) /\ i - 1 + 1 = i /\ ~(i <= 1) /\ i \in 1 .. 1 + Len(t)
          BY <3>5, <4>2
        <5>2. (s \o t)[i] = t[i - 1] /\ t[i - 1] = p[i - 1 + 1]
          BY <3>2, <3>3, <3>5, <5>1
        <5> QED
          BY <5>1, <5>2
      <4> QED
        BY <4>1, <4>2
    <3>8. s \o t = p
      BY <3>5, <3>6, <3>7, SeqEqual
    <3> QED
      BY <3>1, <3>2, <3>3, <3>4, <3>8
  <2> QED
    BY <2>1
<1> QED
  BY <1>2, <1>3, <1>4, <1>5, <1>6, <1>7

LEMMA AppendBelow ==
    \A k \in Nat, p \in Seq(Nat), j \in Nat : <<k>> \o Append(p, j) = Append(<<k>> \o p, j)
<1>1. ASSUME NEW k \in Nat, NEW p \in Seq(Nat), NEW j \in Nat
      PROVE  <<k>> \o Append(p, j) = Append(<<k>> \o p, j)
  BY Positions
<1> QED
  BY <1>1

LEMMA RootedMeans ==
    ASSUME NEW lengths
    PROVE  Rooted(lengths) <=>
             \A p : p \in DOMAIN lengths
                     <=> p = <<>> \/ \E q \in DOMAIN lengths : \E j \in 1 .. lengths[q] : p = Append(q, j)
<1>1. PICK S : S = {<<>>} \cup UNION {{Append(p, k) : k \in 1 .. lengths[p]} : p \in DOMAIN lengths}
  OBVIOUS
<1>2. \A p : p \in S <=> p = <<>> \/ \E q \in DOMAIN lengths : \E j \in 1 .. lengths[q] : p = Append(q, j)
  BY <1>1
<1>3. Rooted(lengths) <=> DOMAIN lengths = S
  BY <1>1 DEF Rooted
<1>4. DOMAIN lengths = S <=> \A p : p \in DOMAIN lengths <=> p \in S
  OBVIOUS
<1> QED
  BY <1>2, <1>3, <1>4

(* Every position is the root or below one of its items. *)
LEMMA BelowAnItem ==
    ASSUME NEW lengths, DOMAIN lengths \subseteq Seq(Nat),
           \A p \in DOMAIN lengths : lengths[p] \in Nat, Rooted(lengths)
    PROVE  /\ <<>> \in DOMAIN lengths
           /\ \A p \in DOMAIN lengths : p # <<>> => p[1] \in 1 .. lengths[<<>>]
<1>1. /\ <<>> \in DOMAIN lengths
      /\ \A p \in DOMAIN lengths : p # <<>> =>
             \E q \in DOMAIN lengths : \E j \in 1 .. lengths[q] : p = Append(q, j)
  BY DEF Rooted
<1>2. PICK Bad : Bad = {p \in DOMAIN lengths : p # <<>> /\ p[1] \notin 1 .. lengths[<<>>]}
  OBVIOUS
<1>3. ASSUME Bad # {} PROVE FALSE
  <2>1. PICK T : T = {Len(p) : p \in Bad}
    OBVIOUS
  <2>2. T \in SUBSET Nat /\ T # {}
    BY <1>2, <1>3, <2>1
  <2>3. PICK n \in T : \A m \in T : n <= m
    BY <2>2, Least
  <2>4. PICK p \in Bad : n = Len(p)
    BY <2>1
  <2>5. PICK q \in DOMAIN lengths : \E j \in 1 .. lengths[q] : p = Append(q, j)
    BY <1>1, <1>2
  <2>6. PICK j \in 1 .. lengths[q] : p = Append(q, j)
    BY <2>5
  <2>7. q \in Seq(Nat) /\ j \in Nat
    OBVIOUS
  <2>8. /\ Len(p) = Len(q) + 1 /\ \A i \in 1 .. Len(q) : p[i] = q[i]
        /\ p[Len(q) + 1] = j
    BY <2>6, <2>7, AppendProperties
  <2>9. q # <<>>
    <3>1. ASSUME q = <<>> PROVE FALSE
      <4>1. Len(q) = 0
        BY <3>1
      <4>2. p[1] = j
        BY <2>8, <4>1
      <4> QED
        BY <1>2, <2>4, <2>6, <3>1, <4>2
    <3> QED
      BY <3>1
  <2>10. Len(q) \in Nat \ {0}
    BY <2>7, <2>9
  <2>11. q[1] = p[1]
    BY <2>8, <2>10
  <2>12. q \in Bad
    BY <1>2, <2>9, <2>11
  <2>13. n <= Len(q)
    BY <2>1, <2>3, <2>12
  <2> QED
    BY <2>4, <2>8, <2>10, <2>13
<1> QED
  BY <1>1, <1>2, <1>3

(* What is below one item has the shape of a token of its own. *)
LEMMA ItemRooted ==
    ASSUME NEW lengths, DOMAIN lengths \subseteq Seq(Nat),
           \A p \in DOMAIN lengths : lengths[p] \in Nat, Rooted(lengths),
           NEW k \in 1 .. lengths[<<>>], NEW item,
           item = [p \in {q \in Seq(Nat) : <<k>> \o q \in DOMAIN lengths} |-> lengths[<<k>> \o p]]
    PROVE  Rooted(item)
<1>0. k \in Nat /\ <<>> \in DOMAIN lengths
  BY BelowAnItem
<1>1. \A p : p \in DOMAIN lengths
             <=> p = <<>> \/ \E q \in DOMAIN lengths : \E j \in 1 .. lengths[q] : p = Append(q, j)
  BY RootedMeans
<1>4. \A p : p \in DOMAIN item <=> p \in Seq(Nat) /\ <<k>> \o p \in DOMAIN lengths
  OBVIOUS
<1>5. \A p \in DOMAIN item : item[p] = lengths[<<k>> \o p]
  OBVIOUS
<1>6. ASSUME NEW p \in DOMAIN item
      PROVE  p = <<>> \/ \E q \in DOMAIN item : \E j \in 1 .. item[q] : p = Append(q, j)
  <2>1. p \in Seq(Nat) /\ <<k>> \o p \in DOMAIN lengths /\ <<k>> \o p # <<>>
    BY <1>0, <1>4, Positions
  <2>2. PICK q \in DOMAIN lengths : \E j \in 1 .. lengths[q] : <<k>> \o p = Append(q, j)
    BY <1>1, <2>1
  <2>3. PICK j \in 1 .. lengths[q] : <<k>> \o p = Append(q, j)
    BY <2>2
  <2>4. q \in Seq(Nat) /\ j \in Nat
    OBVIOUS
  <2>5. CASE q = <<>>
    <3>1. <<k>> \o p = <<j>> \o <<>>
      BY <2>3, <2>4, <2>5, Positions
    <3>2. <<>> \in Seq(Nat)
      OBVIOUS
    <3>3. k = j
      <4>1. (<<k>> \o p)[1] = k
        BY <1>0, <2>1, Positions
      <4>2. (<<j>> \o <<>>)[1] = j
        BY <2>4, <3>2, Positions
      <4> QED
        BY <3>1, <4>1, <4>2
    <3>4. p = <<>>
      BY <1>0, <2>1, <3>1, <3>2, <3>3, Positions
    <3> QED
      BY <3>4
  <2>6. CASE q # <<>>
    <3>1. q[1] \in Nat /\ Tail(q) \in Seq(Nat) /\ q = <<q[1]>> \o Tail(q)
      BY <1>0, <2>4, <2>6, Positions
    <3>2. PICK h \in Nat, t \in Seq(Nat) : q = <<h>> \o t
      BY <3>1
    <3>3. <<k>> \o p = <<h>> \o Append(t, j) /\ Append(t, j) \in Seq(Nat)
      <4>1. <<h>> \o Append(t, j) = Append(<<h>> \o t, j)
        BY <2>4, AppendBelow, Zenon
      <4>2. Append(t, j) \in Seq(Nat)
        BY <2>4, AppendProperties
      <4> QED
        BY <2>3, <3>2, <4>1, <4>2
    <3>4. h = k
      <4>1. (<<k>> \o p)[1] = k
        BY <1>0, <2>1, Positions
      <4>2. (<<h>> \o Append(t, j))[1] = h
        BY <3>3, Positions
      <4> QED
        BY <3>3, <4>1, <4>2
    <3>5. p = Append(t, j)
      BY <1>0, <2>1, <3>3, <3>4, Positions
    <3>6. t \in DOMAIN item /\ item[t] = lengths[q]
      BY <1>4, <1>5, <3>2, <3>4
    <3> QED
      BY <2>3, <3>5, <3>6
  <2> QED
    BY <2>5, <2>6
<1>7. ASSUME NEW p, p = <<>> \/ \E q \in DOMAIN item : \E j \in 1 .. item[q] : p = Append(q, j)
      PROVE  p \in DOMAIN item
  <2>1. CASE p = <<>>
    <3>1. <<k>> \o <<>> = Append(<<>>, k) /\ <<>> \in Seq(Nat)
      BY <1>0, Positions
    <3>2. <<k>> \o <<>> \in DOMAIN lengths
      BY <1>0, <1>1, <3>1
    <3> QED
      BY <1>4, <2>1, <3>1, <3>2
  <2>2. ASSUME NEW q \in DOMAIN item, NEW j \in 1 .. item[q], p = Append(q, j)
        PROVE  p \in DOMAIN item
    <3>1. q \in Seq(Nat) /\ <<k>> \o q \in DOMAIN lengths /\ item[q] = lengths[<<k>> \o q]
      BY <1>4, <1>5
    <3>2. j \in Nat /\ j \in 1 .. lengths[<<k>> \o q]
      BY <3>1
    <3>3. <<k>> \o p = Append(<<k>> \o q, j) /\ p \in Seq(Nat)
      <4>1. <<k>> \o Append(q, j) = Append(<<k>> \o q, j)
        BY <1>0, <3>1, <3>2, AppendBelow, Zenon
      <4>2. Append(q, j) \in Seq(Nat)
        BY <3>1, <3>2, AppendProperties
      <4> QED
        BY <2>2, <4>1, <4>2
    <3>4. <<k>> \o p \in DOMAIN lengths
      BY <1>1, <3>1, <3>2, <3>3
    <3> QED
      BY <1>4, <3>3, <3>4
  <2> QED
    BY <1>7, <2>1, <2>2
<1> QED
  BY <1>6, <1>7, RootedMeans

LEMMA AtItem ==
    ASSUME NEW kind \in ListKinds, NEW type \in Types, NEW k \in Nat, NEW p \in Seq(Nat)
    PROVE  /\ At(ListOf(kind, type), <<>>) = kind
           /\ <<k>> \o p \in Seq(Nat)
           /\ At(ListOf(kind, type), <<k>> \o p) = At(type, p)
<1>1. type.nest \in Seq(ListKinds) /\ type = [leaf |-> type.leaf, nest |-> type.nest]
  BY DEF Types
<1>2. PICK nest : nest = <<kind>> \o type.nest
  OBVIOUS
<1>3. ListOf(kind, type).nest = nest /\ ListOf(kind, type).leaf = type.leaf
  BY <1>1, <1>2 DEF ListOf
<1>4. /\ nest \in Seq(ListKinds) /\ Len(nest) = Len(type.nest) + 1 /\ nest[1] = kind
      /\ \A i \in 1 .. Len(type.nest) : nest[i + 1] = type.nest[i]
  BY <1>1, <1>2
<1>5. <<k>> \o p \in Seq(Nat) /\ Len(<<k>> \o p) = Len(p) + 1
  OBVIOUS
<1>6. Len(p) \in Nat /\ Len(type.nest) \in Nat
  BY <1>1
<1>7. At(ListOf(kind, type), <<>>) = kind
  BY <1>3, <1>4, <1>6 DEF At
<1>8. At(ListOf(kind, type), <<k>> \o p) = At(type, p)
  <2>1. CASE Len(p) < Len(type.nest)
    <3>1. Len(p) + 1 \in 1 .. Len(type.nest) /\ Len(p) + 1 < Len(nest)
      BY <1>4, <1>6, <2>1
    <3>2. nest[Len(p) + 1 + 1] = type.nest[Len(p) + 1]
      BY <1>4, <3>1
    <3> QED
      BY <1>3, <1>5, <2>1, <3>1, <3>2 DEF At
  <2>2. CASE ~(Len(p) < Len(type.nest))
    <3>1. ~(Len(p) + 1 < Len(nest))
      BY <1>4, <1>6, <2>2
    <3> QED
      BY <1>3, <1>5, <2>2, <3>1 DEF At
  <2> QED
    BY <2>1, <2>2
<1> QED
  BY <1>5, <1>7, <1>8

(* The token of item k of a list, or its value. *)
ItemOf(tree, k) ==
    [p \in {q \in Seq(Nat) : <<k>> \o q \in DOMAIN tree} |-> tree[<<k>> \o p]]

LEMMA ItemPositions ==
    ASSUME NEW tree, NEW k
    PROVE  /\ \A p : p \in DOMAIN ItemOf(tree, k) <=> p \in Seq(Nat) /\ <<k>> \o p \in DOMAIN tree
           /\ \A p \in DOMAIN ItemOf(tree, k) : ItemOf(tree, k)[p] = tree[<<k>> \o p]
BY DEF ItemOf

LEMMA ItemIsToken ==
    ASSUME NEW token, IsToken(token), token[<<>>].tag \in ListTags,
           NEW k \in 1 .. token[<<>>].length
    PROVE  IsToken(ItemOf(token, k))
<1>1. PICK lengths : lengths = [p \in DOMAIN token |-> IF token[p].tag \in ListTags THEN token[p].length ELSE 0]
  OBVIOUS
<1>2. PICK item : item = ItemOf(token, k)
  OBVIOUS
<1>3. PICK below : below = [p \in {q \in Seq(Nat) : <<k>> \o q \in DOMAIN lengths} |-> lengths[<<k>> \o p]]
  OBVIOUS
<1>4. /\ DOMAIN lengths = DOMAIN token /\ Rooted(lengths)
      /\ \A p \in DOMAIN token : p \in Seq(Nat) /\ token[p] \in Nodes
  BY <1>1 DEF IsToken
<1>5. \A p \in DOMAIN lengths : lengths[p] \in Nat
  <2>1. \A node \in Nodes : node.tag \in ListTags => node.length \in Nat
    BY DEF Nodes, ListTags, PlainTags
  <2> QED
    BY <1>1, <1>4, <2>1
<1>6. <<>> \in DOMAIN lengths
  BY <1>4, <1>5, BelowAnItem
<1>7. lengths[<<>>] = token[<<>>].length
  BY <1>1, <1>4, <1>6
<1>8. Rooted(below)
  BY <1>3, <1>4, <1>5, <1>7, ItemRooted
<1>9. /\ \A p : p \in DOMAIN item <=> p \in Seq(Nat) /\ <<k>> \o p \in DOMAIN token
      /\ \A p \in DOMAIN item : item[p] = token[<<k>> \o p]
  BY <1>2, ItemPositions
<1>10. \A p \in DOMAIN item : p \in Seq(Nat) /\ item[p] \in Nodes
  BY <1>4, <1>9
<1>11. below = [p \in DOMAIN item |-> IF item[p].tag \in ListTags THEN item[p].length ELSE 0]
  <2>1. DOMAIN below = DOMAIN item
    BY <1>3, <1>4, <1>9
  <2>2. \A p \in DOMAIN item : below[p] = IF item[p].tag \in ListTags THEN item[p].length ELSE 0
    <3>1. ASSUME NEW p \in DOMAIN item
          PROVE  below[p] = IF item[p].tag \in ListTags THEN item[p].length ELSE 0
      <4>1. PICK q \in DOMAIN token : q = <<k>> \o p
        BY <1>9
      <4>2. below[p] = lengths[q] /\ item[p] = token[q]
        BY <1>3, <1>4, <1>9, <4>1
      <4> QED
        BY <1>1, <4>2
    <3> QED
      BY <3>1
  <2>3. below = [p \in DOMAIN below |-> below[p]]
    BY <1>3
  <2> QED
    BY <2>1, <2>2, <2>3
<1> QED
  BY <1>2, <1>8, <1>10, <1>11 DEF IsToken

(* The recursion of from_token: a list is converted item by item, after its
   kind and its length, and a token of another kind, or one item that has no
   value, fails it (Vec, BytesArray and [T; n] in contract/tokens.rs).  So to
   convert a token position by position is to convert it as the code does. *)
THEOREM ItemsAreConverted ==
    ASSUME NEW kind \in ListKinds, NEW type \in Types, NEW token, IsToken(token)
    PROVE  LET list == FromToken(ListOf(kind, type), token)
           IN  IF ~FromNode(kind, token[<<>>]).ok THEN list = Fails
               ELSE /\ \A k \in 1 .. token[<<>>].length : IsToken(ItemOf(token, k))
                    /\ list.ok <=> \A k \in 1 .. token[<<>>].length :
                                     FromToken(type, ItemOf(token, k)).ok
                    /\ list.ok =>
                          /\ list.value[<<>>] = token[<<>>].length
                          /\ \A k \in 1 .. token[<<>>].length :
                               ItemOf(list.value, k) = FromToken(type, ItemOf(token, k)).value
<1>1. PICK list : list = FromToken(ListOf(kind, type), token)
  OBVIOUS
<1>2. PICK results : results = [p \in DOMAIN token |-> FromNode(At(ListOf(kind, type), p), token[p])]
  OBVIOUS
<1>3. list = Collect(results) /\ DOMAIN results = DOMAIN token
  BY <1>1, <1>2 DEF FromToken
<1>4. \A p \in DOMAIN token : p \in Seq(Nat) /\ token[p] \in Nodes
  BY DEF IsToken
<1>5. PICK lengths : lengths = [p \in DOMAIN token |-> IF token[p].tag \in ListTags THEN token[p].length ELSE 0]
  OBVIOUS
<1>6. /\ <<>> \in DOMAIN token
      /\ \A p \in DOMAIN token : p # <<>> => p[1] \in 1 .. lengths[<<>>]
  <2>1. \A node \in Nodes : node.tag \in ListTags => node.length \in Nat
    BY DEF Nodes, ListTags, PlainTags
  <2>2. \A p \in DOMAIN lengths : lengths[p] \in Nat
    BY <1>4, <1>5, <2>1
  <2>3. Rooted(lengths) /\ DOMAIN lengths = DOMAIN token
    BY <1>5 DEF IsToken
  <2> QED
    BY <1>4, <2>2, <2>3, BelowAnItem
<1>7. results[<<>>] = FromNode(kind, token[<<>>])
  <2>1. At(ListOf(kind, type), <<>>) = kind
    <3>1. 0 \in Nat /\ <<>> \in Seq(Nat)
      OBVIOUS
    <3> QED
      BY <3>1, AtItem
  <2> QED
    BY <1>2, <1>6, <2>1
<1>8. CASE ~FromNode(kind, token[<<>>]).ok
  <2>1. list = Fails
    BY <1>3, <1>6, <1>7, <1>8 DEF Collect
  <2> QED
    BY <1>1, <1>8, <2>1
<1>9. CASE FromNode(kind, token[<<>>]).ok
  <2>1. /\ token[<<>>].tag \in ListTags
        /\ FromNode(kind, token[<<>>]) = Ok(token[<<>>].length)
    <3>1. token[<<>>].tag \in Accepts(kind)
      BY <1>9, ResultFields DEF FromNode
    <3>2. kind.kind \in {"vec", "array"}
      BY DEF ListKinds
    <3>3. Accepts(kind) \subseteq ListTags
      BY <3>2 DEF Accepts, ListTags
    <3>4. FromNode(kind, token[<<>>]) =
            IF Exactly(kind, token[<<>>].length) THEN Ok(token[<<>>].length) ELSE Fails
      BY <3>1, <3>2 DEF FromNode
    <3> QED
      BY <1>9, <3>1, <3>3, <3>4, ResultFields
  <2>2. PICK n : n = token[<<>>].length
    OBVIOUS
  <2>3. lengths[<<>>] = n /\ n \in Nat
    <3>1. token[<<>>] \in Nodes
      BY <1>4, <1>6
    <3>2. n \in Nat
      BY <2>1, <2>2, <3>1 DEF Nodes, ListTags, PlainTags
    <3> QED
      BY <1>5, <1>6, <2>1, <2>2, <3>2
  <2>4. \A k \in 1 .. n : IsToken(ItemOf(token, k))
    BY <2>1, <2>2, ItemIsToken
  <2>5. ASSUME NEW k \in 1 .. n
        PROVE  /\ FromToken(type, ItemOf(token, k)).ok
                     <=> \A p \in Seq(Nat) : <<k>> \o p \in DOMAIN token => results[<<k>> \o p].ok
               /\ FromToken(type, ItemOf(token, k)).ok =>
                     FromToken(type, ItemOf(token, k)).value =
                       [p \in {q \in Seq(Nat) : <<k>> \o q \in DOMAIN token} |-> results[<<k>> \o p].value]
    <3>1. PICK item : item = ItemOf(token, k)
      OBVIOUS
    <3>2. PICK read : read = [p \in DOMAIN item |-> FromNode(At(type, p), item[p])]
      OBVIOUS
    <3>3. FromToken(type, item) = Collect(read)
      BY <3>2 DEF FromToken
    <3>4. /\ \A p : p \in DOMAIN item <=> p \in Seq(Nat) /\ <<k>> \o p \in DOMAIN token
          /\ \A p \in DOMAIN item : item[p] = token[<<k>> \o p]
      BY <3>1, ItemPositions
    <3>5. \A p \in DOMAIN item : read[p] = results[<<k>> \o p]
      <4>1. ASSUME NEW p \in DOMAIN item PROVE read[p] = results[<<k>> \o p]
        <5>1. p \in Seq(Nat) /\ k \in Nat
          BY <3>4
        <5>2. PICK q \in DOMAIN token : q = <<k>> \o p
          BY <3>4
        <5>3. At(ListOf(kind, type), q) = At(type, p)
          BY <5>1, <5>2, AtItem
        <5>4. item[p] = token[q]
          BY <3>4, <5>2
        <5>5. results[q] = FromNode(At(type, p), token[q])
          BY <1>2, <5>3
        <5> QED
          BY <3>2, <5>2, <5>4, <5>5
      <4> QED
        BY <4>1
    <3>6. DOMAIN read = DOMAIN item
      BY <3>2
    <3>7. /\ Collect(read).ok <=> \A p \in DOMAIN item : results[<<k>> \o p].ok
          /\ Collect(read).ok =>
                Collect(read).value = [p \in DOMAIN item |-> results[<<k>> \o p].value]
      <4>1. Collect(read).ok <=> \A p \in DOMAIN item : results[<<k>> \o p].ok
        BY <3>5, <3>6, Collected
      <4>2. ASSUME Collect(read).ok
            PROVE  Collect(read).value = [p \in DOMAIN item |-> results[<<k>> \o p].value]
        <5>1. Collect(read) = Ok([p \in DOMAIN item |-> read[p].value])
          BY <3>6, <4>2, Collected
        <5>2. [p \in DOMAIN item |-> read[p].value] = [p \in DOMAIN item |-> results[<<k>> \o p].value]
          BY <3>5
        <5> QED
          BY <5>1, <5>2, ResultFields
      <4> QED
        BY <4>1, <4>2
    <3>8. DOMAIN item = {q \in Seq(Nat) : <<k>> \o q \in DOMAIN token}
      BY <3>4
    <3> QED
      BY <3>1, <3>3, <3>7, <3>8
  <2>6. list.ok <=> \A k \in 1 .. n : FromToken(type, ItemOf(token, k)).ok
    <3>1. list.ok <=> \A p \in DOMAIN token : results[p].ok
      BY <1>3, Collected
    <3>2. ASSUME \A k \in 1 .. n : FromToken(type, ItemOf(token, k)).ok, NEW p \in DOMAIN token
          PROVE  results[p].ok
      <4>1. CASE p = <<>>
        BY <1>7, <1>9, <4>1
      <4>2. CASE p # <<>>
        <5>1. p[1] \in 1 .. n /\ p \in Seq(Nat)
          BY <1>4, <1>6, <2>3, <4>2
        <5>2. Tail(p) \in Seq(Nat) /\ p = <<p[1]>> \o Tail(p)
          <6>1. 0 \in Nat
            OBVIOUS
          <6> QED
            BY <4>2, <5>1, <6>1, Positions
        <5>3. PICK k \in 1 .. n, q \in Seq(Nat) : p = <<k>> \o q
          BY <5>1, <5>2
        <5> QED
          BY <2>5, <3>2, <5>3
      <4> QED
        BY <4>1, <4>2
    <3>3. ASSUME \A p \in DOMAIN token : results[p].ok, NEW k \in 1 .. n
          PROVE  FromToken(type, ItemOf(token, k)).ok
      BY <2>5, <3>3
    <3> QED
      BY <3>1, <3>2, <3>3
  <2>7. ASSUME list.ok
        PROVE  /\ list.value[<<>>] = n
               /\ \A k \in 1 .. n : ItemOf(list.value, k) = FromToken(type, ItemOf(token, k)).value
    <3>1. PICK whole : whole = [p \in DOMAIN token |-> results[p].value]
      OBVIOUS
    <3>2. list.value = whole
      BY <1>3, <2>7, <3>1, Collected, ResultFields
    <3>3. whole[<<>>] = n
      BY <1>6, <1>7, <2>1, <2>2, <3>1, ResultFields
    <3>4. ASSUME NEW k \in 1 .. n
          PROVE  ItemOf(whole, k) = FromToken(type, ItemOf(token, k)).value
      <4>1. PICK D : D = {q \in Seq(Nat) : <<k>> \o q \in DOMAIN token}
        OBVIOUS
      <4>2. FromToken(type, ItemOf(token, k)).value = [p \in D |-> results[<<k>> \o p].value]
        BY <2>5, <2>6, <2>7, <4>1
      <4>3. \A p \in D : whole[<<k>> \o p] = results[<<k>> \o p].value
        BY <3>1, <4>1
      <4>4. ItemOf(whole, k) = [p \in D |-> whole[<<k>> \o p]]
        <5>1. DOMAIN whole = DOMAIN token
          BY <3>1
        <5> QED
          BY <4>1, <5>1 DEF ItemOf
      <4> QED
        BY <4>2, <4>3, <4>4
    <3> QED
      BY <3>2, <3>3, <3>4
  <2> QED
    BY <1>1, <1>9, <2>2, <2>4, <2>6, <2>7
<1> QED
  BY <1>8, <1>9

LEMMA NodeOfAtom ==
    ASSUME NEW kind \in ScalarKinds \cup ListKinds, NEW atom \in Atoms(kind)
    PROVE  /\ IntoNode(kind, atom) \in Nodes
           /\ kind \in ListKinds => /\ IntoNode(kind, atom).tag \in ListTags
                                    /\ IntoNode(kind, atom).length = atom
           /\ kind \notin ListKinds => IntoNode(kind, atom).tag \notin ListTags
<1>0. /\ \A tag, bits : IntNode(tag, bits) = [tag |-> tag, bits |-> bits]
      /\ \A tag, bytes : PlainNode(tag, bytes) = [tag |-> tag, bytes |-> bytes]
      /\ \A tag, n : ListNode(tag, n) = [tag |-> tag, length |-> n]
  BY DEF IntNode, PlainNode, ListNode
<1>1. PICK node : node = IntoNode(kind, atom)
  OBVIOUS
<1>2. PICK half \in Nat : Word = 2 * half /\ Word \div 2 = half
  BY HalfWord
<1>3. kind \in ListKinds <=> kind.kind \in {"vec", "array"}
  BY DEF ScalarKinds, ListKinds
<1>4. CASE kind.kind = "signed"
  <2>1. kind.max \in 0 .. half - 1 /\ atom \in -(kind.max + 1) .. kind.max
    BY <1>2, <1>4 DEF ScalarKinds, ListKinds, Atoms
  <2>2. PICK bits : bits = IF atom < 0 THEN Word + atom ELSE atom
    OBVIOUS
  <2>3. bits \in 0 .. Word - 1
    BY <1>2, <2>1, <2>2
  <2>4. node = [tag |-> "Int", bits |-> bits]
    BY <1>0, <1>1, <1>4, <2>2 DEF IntoNode
  <2>5. node \in Nodes /\ node.tag \notin ListTags
    BY <2>3, <2>4 DEF Nodes, ListTags
  <2> QED
    BY <1>1, <1>3, <1>4, <2>5
<1>5. CASE kind.kind = "unsigned"
  <2>1. kind.max \in 0 .. Word - 1 /\ atom \in 0 .. kind.max
    <3>1. kind.max \in 0 .. half - 1 \/ kind.max = Word - 1
      BY <1>2, <1>5 DEF ScalarKinds, ListKinds
    <3>2. atom \in 0 .. kind.max
      BY <1>5 DEF Atoms
    <3> QED
      BY <1>2, <3>1, <3>2
  <2>2. node = [tag |-> "Uint", bits |-> atom]
    BY <1>0, <1>1, <1>5 DEF IntoNode
  <2>3. node \in Nodes /\ node.tag \notin ListTags
    <3>1. atom \in 0 .. Word - 1
      BY <1>2, <2>1
    <3> QED
      BY <2>2, <3>1 DEF Nodes, ListTags
  <2> QED
    BY <1>1, <1>3, <1>5, <2>3
<1>6. CASE kind.kind \in {"plain", "bytes", "fixed"}
  <2>1. atom \in Seq(Nat)
    BY <1>6 DEF Atoms
  <2>2. PICK tag : tag = IF kind.kind = "plain" THEN kind.tag
                         ELSE IF kind.kind = "fixed" THEN "FixedBytes" ELSE "Bytes"
    OBVIOUS
  <2>3. tag \in PlainTags \cup {"FixedBytes"}
    BY <1>6, <2>2 DEF ScalarKinds, ListKinds, PlainTags
  <2>4. node = [tag |-> tag, bytes |-> atom]
    BY <1>0, <1>1, <1>6, <2>2 DEF IntoNode
  <2>5. node \in Nodes /\ node.tag \notin ListTags
    BY <2>1, <2>3, <2>4 DEF Nodes, ListTags, PlainTags
  <2> QED
    BY <1>1, <1>3, <1>6, <2>5
<1>7. CASE kind.kind \in {"vec", "array"}
  <2>1. atom \in Nat
    BY <1>7 DEF Atoms, ScalarKinds, ListKinds
  <2>2. PICK tag \in ListTags : node = [tag |-> tag, length |-> atom]
    BY <1>0, <1>1, <1>7 DEF IntoNode, ListTags
  <2>3. node \in Nodes /\ node.tag \in ListTags /\ node.length = atom
    BY <2>1, <2>2 DEF Nodes
  <2> QED
    BY <1>1, <1>3, <1>7, <2>3
<1> QED
  BY <1>4, <1>5, <1>6, <1>7, Kinds

(* What the code writes of a value is a token: every integer is a word, every
   list has the items it says, and there is nothing else (into_token). *)
THEOREM WrittenIsToken ==
    ASSUME NEW type \in Types, NEW v, IsValue(type, v)
    PROVE  IsToken(IntoToken(type, v))
<1>1. PICK token : token = IntoToken(type, v)
  OBVIOUS
<1>2. DOMAIN token = DOMAIN v /\ \A p \in DOMAIN v : token[p] = IntoNode(At(type, p), v[p])
  BY <1>1 DEF IntoToken
<1>3. \A p \in DOMAIN v : /\ p \in Seq(Nat) /\ token[p] \in Nodes
                          /\ (IF token[p].tag \in ListTags THEN token[p].length ELSE 0)
                               = IF Len(p) < Len(type.nest) THEN v[p] ELSE 0
  <2>1. ASSUME NEW p \in DOMAIN v
        PROVE  /\ p \in Seq(Nat) /\ token[p] \in Nodes
               /\ (IF token[p].tag \in ListTags THEN token[p].length ELSE 0)
                    = IF Len(p) < Len(type.nest) THEN v[p] ELSE 0
    <3>1. p \in Seq(Nat) /\ v[p] \in Atoms(At(type, p))
      BY DEF IsValue
    <3>2. PICK kind \in ScalarKinds \cup ListKinds : kind = At(type, p)
      BY <3>1, KindAt
    <3>3. token[p] = IntoNode(kind, v[p])
      BY <1>2, <3>2
    <3>4. kind \in ListKinds <=> Len(p) < Len(type.nest)
      <4>1. type.leaf \in ScalarKinds /\ type.nest \in Seq(ListKinds)
        BY DEF Types
      <4>2. Len(p) \in Nat /\ Len(type.nest) \in Nat
        BY <3>1, <4>1
      <4>3. type.leaf \notin ListKinds
        BY <4>1 DEF ScalarKinds, ListKinds
      <4>4. ASSUME Len(p) < Len(type.nest) PROVE kind \in ListKinds
        <5>1. Len(p) + 1 \in 1 .. Len(type.nest)
          BY <4>2, <4>4
        <5>2. type.nest[Len(p) + 1] \in ListKinds
          BY <4>1, <5>1
        <5> QED
          BY <3>2, <4>4, <5>2 DEF At
      <4> QED
        BY <3>2, <4>3, <4>4 DEF At
    <3>5. /\ IntoNode(kind, v[p]) \in Nodes
          /\ kind \in ListKinds => /\ IntoNode(kind, v[p]).tag \in ListTags
                                   /\ IntoNode(kind, v[p]).length = v[p]
          /\ kind \notin ListKinds => IntoNode(kind, v[p]).tag \notin ListTags
      BY <3>1, <3>2, NodeOfAtom
    <3> QED
      BY <3>1, <3>3, <3>4, <3>5
  <2> QED
    BY <2>1
<1>4. [p \in DOMAIN token |-> IF token[p].tag \in ListTags THEN token[p].length ELSE 0]
        = [p \in DOMAIN v |-> IF Len(p) < Len(type.nest) THEN v[p] ELSE 0]
  BY <1>2, <1>3
<1>5. Rooted([p \in DOMAIN v |-> IF Len(p) < Len(type.nest) THEN v[p] ELSE 0])
  BY DEF IsValue
<1> QED
  BY <1>1, <1>2, <1>3, <1>4, <1>5 DEF IsToken

(* A value read of what a contract said is what it said, for any types of a
   tuple and any tokens; it is refused only where no value would say it; and
   what is handed to a contract and back is the same (Contract::query, its
   events, and the conversions of contract/tokens.rs). *)
THEOREM ValuesAreKept == Spec => []ValueKept
<1>1. AskedInv => ValueKept
  <2> SUFFICES ASSUME AskedInv, NEW c \in Call, value[c] # None, NEW w, w = wish[c]
               PROVE  /\ w.want = "outputs" =>
                           IF value[c].ok THEN SaysAll(w.types, value[c].value, returned[c])
                           ELSE ~SayableAll(w.types, returned[c])
                      /\ w.want = "events" =>
                           IF value[c].ok
                             THEN /\ DOMAIN value[c].value = DOMAIN returned[c]
                                  /\ \A k \in DOMAIN returned[c] :
                                       SaysAll(w.types, value[c].value[k], returned[c][k])
                             ELSE \E k \in DOMAIN returned[c] : ~SayableAll(w.types, returned[c][k])
                      /\ w.want = "echo" => value[c] = Ok(w.values)
    BY DEF ValueKept
  <2>1. /\ status[c] = "answered" /\ returned[c] \in Returns(c)
        /\ value[c] = Reads(w, returned[c], request[c])
    BY DEF AskedInv, AskedOf, Given
  <2>2. w.want \in {"outputs", "events", "echo"} => Asked(c)
    <3>1. ~Unasked(c) /\ ~Refused(c)
      BY <2>1 DEF Unasked, Refused
    <3>2. w.want \in {"outputs", "events", "echo"} => ~Built(c)
      BY DEF Built, Building
    <3> QED
      BY <3>1, <3>2 DEF AskedInv, AskedOf
  <2>3. w.want \in {"outputs", "events", "echo"} =>
           w.types \in Seq(Types) /\ (w.want = "echo" => IsValues(w.types, w.values))
    BY <2>2, Wishes DEF Asked
  <2>4. PICK r : r = returned[c]
    OBVIOUS
  <2>5. ASSUME w.want = "outputs"
        PROVE  IF value[c].ok THEN SaysAll(w.types, value[c].value, r) ELSE ~SayableAll(w.types, r)
    <3>1. value[c] = FromTokens(w.types, r)
      BY <2>1, <2>4, <2>5 DEF Reads
    <3>2. r \in Token
      BY <2>1, <2>4, <2>5 DEF Returns
    <3>3. IsTokens(r)
      BY <3>2, TokenAssumption
    <3>4. IF FromTokens(w.types, r).ok THEN SaysAll(w.types, FromTokens(w.types, r).value, r)
          ELSE ~SayableAll(w.types, r)
      BY <2>3, <2>5, <3>3, TokensRead
    <3> QED
      BY <3>1, <3>4, Zenon
  <2>6. ASSUME w.want = "events"
        PROVE  IF value[c].ok
                 THEN /\ DOMAIN value[c].value = DOMAIN r
                      /\ \A k \in DOMAIN r : SaysAll(w.types, value[c].value[k], r[k])
                 ELSE \E k \in DOMAIN r : ~SayableAll(w.types, r[k])
    <3>1. PICK results : results = [k \in DOMAIN r |-> FromTokens(w.types, r[k])]
      OBVIOUS
    <3>2. value[c] = Collect(results) /\ DOMAIN results = DOMAIN r
      BY <2>1, <2>4, <2>6, <3>1 DEF Reads
    <3>3. r \in Logs
      BY <2>1, <2>4, <2>6 DEF Returns
    <3>4. \A k \in DOMAIN r : IsTokens(r[k])
      BY <3>3, TokenAssumption
    <3>5. \A k \in DOMAIN r : IF results[k].ok THEN SaysAll(w.types, results[k].value, r[k])
                              ELSE ~SayableAll(w.types, r[k])
      <4>1. ASSUME NEW k \in DOMAIN r
            PROVE  IF results[k].ok THEN SaysAll(w.types, results[k].value, r[k])
                   ELSE ~SayableAll(w.types, r[k])
        <5>1. results[k] = FromTokens(w.types, r[k])
          BY <3>1
        <5>2. IF FromTokens(w.types, r[k]).ok
                THEN SaysAll(w.types, FromTokens(w.types, r[k]).value, r[k])
                ELSE ~SayableAll(w.types, r[k])
          BY <2>3, <2>6, <3>4, TokensRead
        <5> QED
          BY <5>1, <5>2, Zenon
      <4> QED
        BY <4>1
    <3>6. CASE value[c].ok
      <4>1. /\ \A k \in DOMAIN r : results[k].ok
            /\ value[c] = Ok([k \in DOMAIN r |-> results[k].value])
        BY <3>2, <3>6, Collected
      <4>2. value[c].value = [k \in DOMAIN r |-> results[k].value]
        BY <4>1, ResultFields
      <4> QED
        BY <3>5, <3>6, <4>1, <4>2
    <3>7. CASE ~value[c].ok
      <4>1. PICK k \in DOMAIN r : ~results[k].ok
        BY <3>2, <3>7, Collected
      <4> QED
        BY <3>5, <3>7, <4>1
    <3> QED
      BY <3>6, <3>7
  <2>7. ASSUME w.want = "echo" PROVE value[c] = Ok(w.values)
    <3>1. value[c] = FromTokens(w.types, r)
      BY <2>1, <2>4, <2>7 DEF Reads
    <3>2. r = IntoTokens(w.types, w.values)
      <4>1. request[c] = Builds(w)
        BY <2>2, <2>7 DEF Asked
      <4>2. PICK tokens : tokens = IntoTokens(w.types, w.values)
        OBVIOUS
      <4>3. request[c].tokens = tokens
        BY <2>7, <4>1, <4>2 DEF Builds
      <4> QED
        BY <2>1, <2>4, <2>7, <4>2, <4>3 DEF Returns
    <3>3. FromTokens(w.types, IntoTokens(w.types, w.values)) = Ok(w.values)
      BY <2>3, <2>7, TokensWritten
    <3> QED
      BY <3>1, <3>2, <3>3, Zenon
  <2> QED
    BY <2>4, <2>5, <2>6, <2>7
<1> QED
  BY <1>1, AskedInvHolds, PTL
=============================================================================
