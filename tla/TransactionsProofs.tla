------------------------- MODULE TransactionsProofs -------------------------
(***************************************************************************)
(* Theorems about Transactions, for every number of operations, every path *)
(* and options, any depth and any number of reorganisations.               *)
(***************************************************************************)
EXTENDS Transactions, FiniteSetTheorems, TLAPS

(* What the wait relies on: the depth behind the last reading of the receipt,
   as long as no reorganisation moved the transaction since. *)
Depths ==
    \A o \in Op :
        /\ step[o] = "heading" /\ ~disturbed[o] => o \in Mined /\ place[o] >= lag[o]
        /\ step[o] = "final" /\ confirmations[o] > 0 /\ ~disturbed[o]
             => o \in Mined /\ place[o] >= confirmations[o]
        /\ ~Runs(o).waits => confirmations[o] = 0

(* What a nonce read from the chain relies on. *)
Chain ==
    /\ Valid(place)
    /\ \A o \in Op : step[o] \in {"idle", "asking", "remote", "sending"} => place[o] = Absent
    /\ \A o \in Op : before[o] \subseteq Mined

IInv == TypeOK /\ Depths /\ ConfirmedEnough /\ Chain /\ NonceFresh

-----------------------------------------------------------------------------
(* Types. *)

LEMMA PathFacts ==
    \A k \in DOMAIN Path :
        /\ Path[k].first \in {"sending", "remote", "asking"}
        /\ Path[k].waits \in BOOLEAN /\ Path[k].deploys \in BOOLEAN
        /\ Path[k].copies \subseteq Field
<1> DEFINE Shape == [first : {"sending", "remote", "asking"}, copies : SUBSET Field,
                     waits : BOOLEAN, deploys : BOOLEAN]
<1>1. Call \in Shape /\ SignedCall \in Shape
  BY DEF Call, SignedCall, Field
<1>2. CallWithConfirmations \in Shape
  BY <1>1 DEF CallWithConfirmations
<1>3. Execute \in Shape
  BY <1>2 DEF Execute
<1>4. SignAndExecute \in Shape /\ SignWithKeyAndExecute \in Shape
  BY <1>3 DEF SignAndExecute, SignWithKeyAndExecute
<1>5. SignedCallWithConfirmations \in Shape
  BY <1>4 DEF SignedCallWithConfirmations
<1>6. \A k \in DOMAIN Path : Path[k] \in Shape
  BY <1>1, <1>2, <1>3, <1>4, <1>5 DEF Path
<1> QED
  BY <1>6

(* What an answered parameter adds is the origin of one more field. *)
LEMMA AnsweredType ==
    ASSUME NEW fields \in Carried, NEW p \in Param
    PROVE  [f \in DOMAIN fields \cup ({p} \ {"chain_id"}) |-> IF f = p THEN "node" ELSE fields[f]]
             \in Carried
<1>1. PICK S \in SUBSET Field : fields \in [S -> Origin]
  BY DEF Carried
<1>2. S \cup ({p} \ {"chain_id"}) \in SUBSET Field
  BY DEF Param, Field
<1>3. [f \in S \cup ({p} \ {"chain_id"}) |-> IF f = p THEN "node" ELSE fields[f]]
        \in [S \cup ({p} \ {"chain_id"}) -> Origin]
  BY <1>1 DEF Origin
<1> QED
  BY <1>1, <1>2, <1>3 DEF Carried

LEMMA EnvelopeType ==
    ASSUME NEW o \in Op, NEW fields \in Carried
    PROVE  Envelope(o, fields) \in Carried
<1>1. PICK S \in SUBSET Field : fields \in [S -> Origin]
  BY DEF Carried
<1>2. \A f \in Field : OriginOf(fields, f) \in Origin
  BY <1>1 DEF OriginOf, Origin
<1>3. PriceOf(o, DOMAIN fields) \in Field /\ EnvelopeFields(TypeOf(o, DOMAIN fields)) \in SUBSET Field
  BY DEF PriceOf, EnvelopeFields, Field
<1>4. Envelope(o, fields) \in [EnvelopeFields(TypeOf(o, DOMAIN fields)) -> Origin]
  BY <1>2, <1>3 DEF Envelope
<1> QED
  BY <1>3, <1>4 DEF Carried

LEMMA ExcessType == \A m, n \in 0 .. Deep : Excess(m, n) \in 0 .. Deep
BY TransactionsAssumption DEF Excess

LEMMA UpToType == \A n \in 0 .. Deep : UpTo(n + 1) \in 0 .. Deep /\ UpTo(n + 1) >= n
BY TransactionsAssumption DEF UpTo

LEMMA MinedFinite == IsFiniteSet(Mined) /\ Cardinality(Mined) \in Nat
BY TransactionsAssumption, FS_Subset, FS_CardinalityType DEF Mined

LEMMA InitType == Init => TypeOK
<1> SUFFICES ASSUME Init PROVE TypeOK
  OBVIOUS
<1>1. kind \in [Op -> DOMAIN Path] /\ confirmations \in [Op -> Wanted \cup {0}]
  BY DEF Init
<1>2. options \in [Op -> SUBSET Field] /\ type \in [Op -> Nat]
  <2>1. options \in [Op -> OptionSets] /\ type \in [Op -> Types \cup {0}]
    BY DEF Init
  <2>2. OptionSets \subseteq SUBSET Field /\ Types \cup {0} \subseteq Nat
    BY TransactionsAssumption
  <2>3. options \in [Op -> SUBSET Field]
    BY <2>1, <2>2
  <2>4. type \in [Op -> Nat]
    BY <2>1, <2>2
  <2> QED
    BY <2>3, <2>4
<1>3. carried \in [Op -> Carried]
  <2>1. [f \in {} |-> "default"] \in [{} -> Origin] /\ {} \in SUBSET Field
    BY DEF Origin
  <2> QED
    BY <2>1 DEF Init, Carried
<1> QED
  BY <1>1, <1>2, <1>3, TransactionsAssumption DEF Init, TypeOK

LEMMA EndsType ==
    ASSUME TypeOK, NEW o \in Op, Ends(o)
    PROVE  TypeOK'
BY TransactionsAssumption DEF TypeOK, Ends, Ended, callVars, nodeVars

LEMMA StartType ==
    ASSUME TypeOK, NEW o \in Op, Start(o)
    PROVE  TypeOK'
<1> USE DEF Start, Goes
<1>1. Runs(o).first \in {"sending", "remote", "asking"} /\ step' = [step EXCEPT ![o] = Runs(o).first]
  BY PathFacts DEF TypeOK, Runs
<1>2. carried' \in [Op -> Carried]
  <2>1. options[o] \cap Runs(o).copies \in SUBSET Field
    BY DEF TypeOK
  <2>2. [f \in options[o] \cap Runs(o).copies |-> f] \in [options[o] \cap Runs(o).copies -> Origin]
    BY <2>1 DEF Origin
  <2>3. [f \in options[o] \cap Runs(o).copies |-> f] \in Carried
    BY <2>1, <2>2 DEF Carried
  <2> QED
    BY <2>3 DEF TypeOK
<1>3. asked' \in [Op -> SUBSET Param]
  BY DEF TypeOK, AsksFor, Param
<1>4. nonce' \in [Op -> Nat \cup {NoNonce}]
  <2>1. PICK n \in IF "nonce" \in options[o] THEN 0 .. Cardinality(Op) ELSE {NoNonce} :
          nonce' = [nonce EXCEPT ![o] = n]
    OBVIOUS
  <2>2. n \in Nat \cup {NoNonce}
    BY <2>1, FS_CardinalityType, TransactionsAssumption
  <2> QED
    BY <2>1, <2>2 DEF TypeOK
<1>5. before' \in [Op -> SUBSET Op]
  BY DEF TypeOK, Confirmed
<1>6. step' \in [Op -> Ended \cup {"idle", "asking", "remote", "sending", "filtering",
                                 "streaming", "checking", "heading", "final"}]
  BY <1>1 DEF TypeOK
<1>7. UNCHANGED <<callVars, streamVars, returned, nodeVars, disturbed>>
  OBVIOUS
<1> HIDE DEF Start, Goes
<1> QED
  BY <1>2, <1>3, <1>4, <1>5, <1>6, <1>7 DEF TypeOK, callVars, streamVars, nodeVars

LEMMA NodeGivesType ==
    ASSUME TypeOK, NEW o \in Op, NodeGives(o)
    PROVE  nonce' \in [Op -> Nat \cup {NoNonce}]
<1>1. CASE nonce[o] # NoNonce
  BY <1>1 DEF TypeOK, NodeGives
<1>2. CASE nonce[o] = NoNonce
  <2>1. PICK n \in 0 .. Cardinality(Op) : nonce' = [nonce EXCEPT ![o] = n]
    BY <1>2 DEF NodeGives
  <2>2. n \in Nat
    BY <2>1, FS_CardinalityType, TransactionsAssumption
  <2> QED
    BY <2>1, <2>2 DEF TypeOK
<1> QED
  BY <1>1, <1>2

LEMMA SignType ==
    ASSUME TypeOK, NEW o \in Op, AnswerParam(o) \/ Sign(o) \/ RemoteSign(o) \/ Send(o)
    PROVE  TypeOK'
<1> USE DEF TypeOK, callVars, signVars, streamVars, nodeVars, histVars, Goes
<1>1. CASE AnswerParam(o)
  <2>1. nonce' \in [Op -> Nat \cup {NoNonce}]
    BY <1>1, MinedFinite DEF AnswerParam, TransactionCount
  <2>2. asked' \in [Op -> SUBSET Param]
    BY <1>1 DEF AnswerParam
  <2>3. carried' \in [Op -> Carried]
    <3>1. PICK p \in asked[o] :
            carried' = [carried EXCEPT ![o] = [f \in DOMAIN @ \cup ({p} \ {"chain_id"}) |->
                                                  IF f = p THEN "node" ELSE @[f]]]
      BY <1>1 DEF AnswerParam
    <3>2. p \in Param /\ carried[o] \in Carried
      OBVIOUS
    <3>3. [f \in DOMAIN carried[o] \cup ({p} \ {"chain_id"}) |->
              IF f = p THEN "node" ELSE carried[o][f]] \in Carried
      BY <3>2, AnsweredType
    <3> QED
      BY <3>1, <3>3
  <2> QED
    BY <1>1, <2>1, <2>2, <2>3 DEF AnswerParam
<1>2. CASE Sign(o)
  <2>1. CASE TypeOf(o, DOMAIN carried[o]) \in Supported
    <3>1. Envelope(o, carried[o]) \in Carried
      BY EnvelopeType
    <3> QED
      BY <1>2, <2>1, <3>1 DEF Sign
  <2>2. CASE TypeOf(o, DOMAIN carried[o]) \notin Supported
    BY <1>2, <2>2, EndsType DEF Sign
  <2> QED
    BY <2>1, <2>2
<1>3. CASE RemoteSign(o)
  BY <1>3, NodeGivesType DEF RemoteSign
<1>4. CASE Send(o)
  <2>1. AfterSend(o) \in {"done", "filtering", "final"}
    BY DEF AfterSend
  <2>2. step' \in [Op -> Ended \cup {"idle", "asking", "remote", "sending", "filtering",
                                   "streaming", "checking", "heading", "final"}]
    BY <1>4, <2>1 DEF Send, Ended
  <2> QED
    BY <1>4, <2>2, NodeGivesType DEF Send
<1> QED
  BY <1>1, <1>2, <1>3, <1>4

LEMMA ConfirmationsType ==
    ASSUME TypeOK, NEW o \in Op
    PROVE  confirmations[o] \in 0 .. Deep
<1>1. confirmations[o] \in Wanted \cup {0}
  BY DEF TypeOK
<1>2. Wanted \subseteq 0 .. Deep /\ 0 \in 0 .. Deep
  BY TransactionsAssumption
<1> QED
  BY <1>1, <1>2

LEMMA WaitType ==
    ASSUME TypeOK, NEW o \in Op,
           \/ CreateFilter(o) \/ Poll(o) \/ PollFails(o) \/ NextItem(o)
           \/ Check(o) \/ BlockNumber(o) \/ FinalReceipt(o)
    PROVE  TypeOK'
<1> USE TransactionsAssumption
    DEF TypeOK, callVars, signVars, streamVars, nodeVars, histVars, Goes
<1>1. CASE CreateFilter(o)
  <2>1. confirmations[o] \in 0 .. Deep /\ 0 \in 0 .. Deep
    BY ConfirmationsType
  <2> QED
    BY <1>1, <2>1 DEF CreateFilter
<1>2. CASE Poll(o)
  <2>1. Excess(skip[o], news[o]) \in 0 .. Deep /\ Excess(news[o], skip[o]) \in 0 .. Deep
    BY ExcessType
  <2> QED
    BY <1>2, <2>1 DEF Poll
<1>3. CASE PollFails(o)
  BY <1>3, EndsType DEF PollFails
<1>4. CASE NextItem(o)
  BY <1>4 DEF NextItem
<1>5. CASE Check(o)
  BY <1>5 DEF Check, Mined
<1>6. CASE BlockNumber(o)
  BY <1>6 DEF BlockNumber, Enough
<1>7. CASE FinalReceipt(o)
  BY <1>7 DEF FinalReceipt, ReceiptOutcomes, Ended
<1> QED
  BY <1>1, <1>2, <1>3, <1>4, <1>5, <1>6, <1>7

LEMMA DeeperType ==
    ASSUME TypeOK, NEW o \in Op
    PROVE  /\ o \in Mined => Deeper(o) \in 0 .. Deep /\ Deeper(o) >= place[o]
           /\ o \notin Mined => Deeper(o) = place[o]
BY UpToType DEF TypeOK, Deeper, Mined

LEMMA HeadMovesType ==
    ASSUME TypeOK, HeadMoves
    PROVE  news' \in [Op -> 0 .. Deep] /\ lag' \in [Op -> 0 .. Deep]
BY UpToType, TransactionsAssumption DEF TypeOK, HeadMoves

LEMMA NodeType ==
    ASSUME TypeOK, NodeStep
    PROVE  TypeOK'
<1>1. ASSUME NEW S \in SUBSET Op, Mine(S) PROVE TypeOK'
  <2>1. place' \in [Op -> {Absent, InPool} \cup (0 .. Deep)]
    BY <1>1, DeeperType, TransactionsAssumption DEF Mine, TypeOK
  <2> QED
    BY <1>1, <2>1, HeadMovesType DEF TypeOK, Mine, HeadMoves, callVars, signVars, histVars
<1>2. ASSUME NEW d \in 1 .. Deep, Reorg(d) PROVE TypeOK'
  <2> DEFINE Moved == {o \in Mined : place[o] < d}
  <2>1. PICK p \in [Moved -> {InPool} \cup (0 .. d)] :
          place' = [o \in Op |-> IF o \in Moved THEN p[o] ELSE Deeper(o)]
    BY <1>2 DEF Reorg
  <2>2. place' \in [Op -> {Absent, InPool} \cup (0 .. Deep)]
    BY <2>1, DeeperType, TransactionsAssumption DEF TypeOK
  <2>3. /\ disturbed' \in [Op -> BOOLEAN] /\ before' \in [Op -> SUBSET Op]
        /\ reorgs' \in 0 .. MaxReorgs
    BY <1>2, TransactionsAssumption DEF Reorg, TypeOK
  <2> QED
    BY <1>2, <2>2, <2>3, HeadMovesType DEF TypeOK, Reorg, HeadMoves, callVars, signVars
<1> QED
  BY <1>1, <1>2 DEF NodeStep

LEMMA TypeStep == TypeOK /\ [Next]_vars => TypeOK'
<1> SUFFICES ASSUME TypeOK, [Next]_vars PROVE TypeOK'
  OBVIOUS
<1>1. CASE UNCHANGED vars
  BY <1>1 DEF TypeOK, vars, callVars, signVars, streamVars, nodeVars, histVars
<1>2. CASE \E o \in Op : ClientStep(o)
  BY <1>2, StartType, SignType, WaitType DEF ClientStep
<1>3. CASE \E o \in Op : Fails(o) \/ Drop(o)
  BY <1>3, EndsType DEF Fails, Drop
<1>4. CASE NodeStep
  BY <1>4, NodeType
<1> QED
  BY <1>1, <1>2, <1>3, <1>4 DEF Next

(* Every variable keeps its type. *)
THEOREM TypeCorrect == Spec => []TypeOK
<1> QED
  BY InitType, TypeStep, PTL DEF Spec

-----------------------------------------------------------------------------
(* Confirmations. *)

LEMMA CallsKept == [Next]_vars => UNCHANGED callVars /\ \A o \in Op : Runs(o)' = Runs(o)
<1> SUFFICES ASSUME [Next]_vars PROVE UNCHANGED callVars /\ \A o \in Op : Runs(o)' = Runs(o)
  OBVIOUS
<1>1. UNCHANGED callVars
  BY DEF Next, vars, ClientStep, NodeStep, Start, AnswerParam, Sign, RemoteSign, Send,
         CreateFilter, Poll, PollFails, NextItem, Check, BlockNumber, FinalReceipt, Fails, Drop,
         Ends, Mine, Reorg, HeadMoves
<1> QED
  BY <1>1 DEF callVars, Runs

LEMMA DepthsInit == Init => Depths /\ ConfirmedEnough
BY DEF Init, Depths, ConfirmedEnough, Runs

LEMMA DepthsClient ==
    ASSUME TypeOK, Depths, ConfirmedEnough, [Next]_vars, NEW o \in Op,
           ClientStep(o) \/ Fails(o) \/ Drop(o)
    PROVE  Depths' /\ ConfirmedEnough'
<1> USE DEF Depths, ConfirmedEnough, TypeOK, Goes, Mined
<1>0. confirmations' = confirmations /\ \A q \in Op : Runs(q)' = Runs(q)
  BY CallsKept DEF callVars
<1>1. CASE Start(o)
  <2>1. Runs(o).first \in {"sending", "remote", "asking"}
    BY PathFacts DEF Runs
  <2> QED
    BY <1>0, <1>1, <2>1 DEF Start, streamVars, nodeVars
<1>2. CASE AnswerParam(o) \/ Sign(o) \/ RemoteSign(o)
  BY <1>0, <1>2 DEF AnswerParam, Sign, Ends, RemoteSign, streamVars, nodeVars, histVars
<1>3. CASE Send(o)
  BY <1>0, <1>3 DEF Send, AfterSend, streamVars, histVars
<1>4. CASE CreateFilter(o) \/ Poll(o) \/ NextItem(o)
  BY <1>0, <1>4 DEF CreateFilter, Poll, NextItem, nodeVars, histVars
<1>5. CASE Fails(o) \/ Drop(o) \/ PollFails(o)
  BY <1>0, <1>5 DEF Fails, Drop, PollFails, Ends, nodeVars, histVars
<1>6. CASE Check(o)
  BY <1>0, <1>6 DEF Check, nodeVars
<1>7. CASE BlockNumber(o)
  BY <1>0, <1>7, ConfirmationsType DEF BlockNumber, Enough, nodeVars
<1>8. CASE FinalReceipt(o)
  BY <1>0, <1>8 DEF FinalReceipt, ReceiptOutcomes, streamVars, nodeVars, histVars
<1> HIDE DEF Depths, ConfirmedEnough, TypeOK, Goes, Mined
<1> QED
  BY <1>1, <1>2, <1>3, <1>4, <1>5, <1>6, <1>7, <1>8 DEF ClientStep

LEMMA Deepens ==
    ASSUME TypeOK, HeadMoves, NEW o \in Op, o \in Mined, place'[o] = Deeper(o)
    PROVE  /\ o \in Mined' /\ place'[o] >= place[o]
           /\ step[o] = "heading" /\ place[o] >= lag[o] => place'[o] >= lag'[o]
<1>1. place[o] \in 0 .. Deep /\ lag[o] \in 0 .. Deep
  BY DEF TypeOK, Mined
<1>2. place'[o] = UpTo(place[o] + 1)
  BY DEF Deeper
<1>3. step[o] = "heading" => lag'[o] = UpTo(lag[o] + 1)
  BY DEF HeadMoves
<1>4. place'[o] \in 0 .. Deep /\ place'[o] >= place[o]
  BY <1>1, <1>2, UpToType
<1>5. place[o] >= lag[o] => UpTo(place[o] + 1) >= UpTo(lag[o] + 1)
  BY <1>1, TransactionsAssumption DEF UpTo
<1> QED
  BY <1>2, <1>3, <1>4, <1>5 DEF Mined

LEMMA DepthsNode ==
    ASSUME TypeOK, Depths, ConfirmedEnough, [Next]_vars, NodeStep
    PROVE  Depths' /\ ConfirmedEnough'
<1>0. confirmations' = confirmations /\ \A q \in Op : Runs(q)' = Runs(q)
  BY CallsKept DEF callVars
<1>1. HeadMoves /\ UNCHANGED <<step, returned>>
  BY DEF NodeStep, Mine, Reorg, HeadMoves
<1>2. SUFFICES ASSUME NEW o \in Op, step[o] \in {"heading", "final"}, ~disturbed'[o],
                      ~disturbed[o], o \in Mined
               PROVE  place'[o] = Deeper(o)
  <2>1. \A o \in Op : disturbed[o] => disturbed'[o]
    BY DEF NodeStep, Mine, Reorg, histVars
  <2>2. ASSUME NEW o \in Op, step[o] \in {"heading", "final"}, ~disturbed'[o], o \in Mined
        PROVE  /\ o \in Mined' /\ place'[o] >= place[o]
               /\ step[o] = "heading" /\ place[o] >= lag[o] => place'[o] >= lag'[o]
    BY <1>1, <1>2, <2>1, <2>2, Deepens
  <2>3. ASSUME NEW o \in Op
        PROVE  confirmations[o] \in Int /\ place[o] \in {Absent, InPool} \cup (0 .. Deep)
    BY ConfirmationsType DEF TypeOK
  <2>4. ASSUME NEW o \in Op, step[o] = "heading", ~disturbed'[o]
        PROVE  o \in Mined' /\ place'[o] >= lag'[o]
    BY <2>1, <2>2, <2>4 DEF Depths
  <2>5. ASSUME NEW o \in Op, step[o] = "final", confirmations[o] > 0, ~disturbed'[o]
        PROVE  o \in Mined' /\ place'[o] >= confirmations[o]
    <3>1. o \in Mined /\ place[o] >= confirmations[o]
      BY <2>1, <2>5 DEF Depths
    <3>2. o \in Mined' /\ place'[o] >= place[o]
      BY <2>2, <2>5, <3>1
    <3> QED
      BY <2>3, <3>1, <3>2 DEF Mined
  <2>6. Depths'
    BY <1>0, <1>1, <2>4, <2>5 DEF Depths
  <2>7. ConfirmedEnough'
    BY <1>0, <1>1, <2>1 DEF ConfirmedEnough
  <2> QED
    BY <2>6, <2>7
<1>3. ASSUME NEW S \in SUBSET Op, Mine(S) PROVE place'[o] = Deeper(o)
  <2>1. o \notin S
    BY <1>2, <1>3, TransactionsAssumption DEF Mine, Mined, InPool
  <2> QED
    BY <1>3, <2>1 DEF Mine
<1>4. ASSUME NEW d \in 1 .. Deep, Reorg(d) PROVE place'[o] = Deeper(o)
  <2> DEFINE Moved == {q \in Mined : place[q] < d}
  <2>1. o \notin Moved
    BY <1>2, <1>4 DEF Reorg
  <2>2. PICK p \in [Moved -> {InPool} \cup (0 .. d)] :
          place' = [q \in Op |-> IF q \in Moved THEN p[q] ELSE Deeper(q)]
    BY <1>4 DEF Reorg
  <2> QED
    BY <2>1, <2>2
<1> QED
  BY <1>3, <1>4 DEF NodeStep

LEMMA DepthsStep ==
    ASSUME TypeOK, Depths, ConfirmedEnough, [Next]_vars
    PROVE  Depths' /\ ConfirmedEnough'
<1>1. CASE UNCHANGED vars
  BY <1>1 DEF vars, callVars, signVars, streamVars, nodeVars, histVars, Depths, ConfirmedEnough,
              Runs, Mined
<1>2. CASE \E o \in Op : ClientStep(o) \/ Fails(o) \/ Drop(o)
  BY <1>2, DepthsClient
<1>3. CASE NodeStep
  BY <1>3, DepthsNode
<1> QED
  BY <1>1, <1>2, <1>3 DEF Next

(* A receipt handed out after a wait has the confirmations its caller asked
   for, unless a reorganisation moved the transaction between the readings of
   the receipt. *)
THEOREM ConfirmationsHold == Spec => []ConfirmedEnough
<1>1. Init => TypeOK /\ Depths /\ ConfirmedEnough
  BY InitType, DepthsInit
<1>2. TypeOK /\ Depths /\ ConfirmedEnough /\ [Next]_vars
      => (TypeOK /\ Depths /\ ConfirmedEnough)'
  BY TypeStep, DepthsStep
<1> QED
  BY <1>1, <1>2, PTL DEF Spec

-----------------------------------------------------------------------------
(* Nonces. *)

LEMMA ChainInit == Init => Chain /\ NonceFresh
<1> SUFFICES ASSUME Init PROVE Chain /\ NonceFresh
  OBVIOUS
<1>1. {o \in Op : place[o] \in 0 .. Deep} = {}
  BY TransactionsAssumption DEF Init
<1>2. Cardinality({}) = 0
  BY FS_EmptySet
<1>3. Valid(place)
  <2>1. {nonce[o] : o \in {}} = 0 .. Cardinality({}) - 1
    BY <1>2
  <2> QED
    BY <1>1, <2>1 DEF Valid
<1> QED
  BY <1>3 DEF Init, Chain, NonceFresh

(* A transaction the node has keeps its nonce. *)
LEMMA NonceKept ==
    ASSUME TypeOK, Chain, [Next]_vars, NEW q \in Op, place[q] # Absent
    PROVE  nonce'[q] = nonce[q]
<1>1. ASSUME NEW o \in Op, o # q, Start(o) \/ AnswerParam(o) \/ RemoteSign(o) \/ Send(o)
      PROVE  nonce'[q] = nonce[q]
  <2>1. nonce \in [Op -> Nat \cup {NoNonce}]
    BY DEF TypeOK
  <2>2. CASE Start(o)
    BY <1>1, <2>1, <2>2 DEF Start
  <2>3. CASE AnswerParam(o)
    BY <1>1, <2>1, <2>3 DEF AnswerParam
  <2>4. CASE RemoteSign(o) \/ Send(o)
    BY <1>1, <2>1, <2>4 DEF RemoteSign, Send, NodeGives
  <2> QED
    BY <1>1, <2>2, <2>3, <2>4
<1>2. ~(Start(q) \/ AnswerParam(q) \/ RemoteSign(q) \/ Send(q))
  BY DEF Chain, Start, AnswerParam, RemoteSign, Send, Goes
<1>3. ASSUME NEW o \in Op,
             \/ Sign(o) \/ CreateFilter(o) \/ Poll(o) \/ PollFails(o) \/ NextItem(o) \/ Check(o)
             \/ BlockNumber(o) \/ FinalReceipt(o) \/ Fails(o) \/ Drop(o)
      PROVE  UNCHANGED nonce
  BY <1>3 DEF Sign, CreateFilter, Poll, PollFails, NextItem, Check, BlockNumber, FinalReceipt,
              Fails, Drop, Ends, signVars
<1>4. CASE NodeStep \/ UNCHANGED vars
  BY <1>4 DEF NodeStep, Mine, Reorg, HeadMoves, vars, signVars
<1> QED
  BY <1>1, <1>2, <1>3, <1>4 DEF Next, ClientStep

LEMMA ValidKept ==
    ASSUME Valid(place), Mined' = Mined,
           \A o \in Mined : place'[o] = place[o] /\ nonce'[o] = nonce[o]
    PROVE  Valid(place)'
<1>1. {nonce'[o] : o \in Mined} = {nonce[o] : o \in Mined}
  OBVIOUS
<1>2. {nonce'[o] : o \in Mined'} = 0 .. Cardinality(Mined') - 1
  BY <1>1 DEF Valid, Mined
<1>3. \A o, q \in Mined : nonce'[o] < nonce'[q] => place'[o] >= place'[q]
  BY DEF Valid, Mined
<1> QED
  BY <1>2, <1>3 DEF Valid, Mined

LEMMA ChainClient ==
    ASSUME TypeOK, Chain, [Next]_vars, NEW o \in Op, ClientStep(o) \/ Fails(o) \/ Drop(o)
    PROVE  Chain' /\ Mined' = Mined
<1>1. CASE Send(o)
  <2>1. /\ place' = [place EXCEPT ![o] = InPool] /\ place[o] = Absent
        /\ before' = before /\ step'[o] \in {"done", "filtering", "final", "over"}
        /\ \A q \in Op : q # o => step'[q] = step[q]
    BY <1>1 DEF Chain, Send, AfterSend, histVars, TypeOK
  <2>2. \A q \in Op : q \in Mined' <=> q \in Mined
    BY <2>1, TransactionsAssumption DEF Mined, InPool, TypeOK
  <2>3. Mined' = Mined
    BY <2>2 DEF Mined
  <2>4. \A q \in Mined : place'[q] = place[q] /\ nonce'[q] = nonce[q]
    BY <2>1, NonceKept, TransactionsAssumption DEF Mined, TypeOK
  <2>5. Valid(place)'
    BY <2>3, <2>4, ValidKept DEF Chain
  <2> QED
    BY <2>1, <2>3, <2>5 DEF Chain, TypeOK
<1>2. CASE ~Send(o)
  <2>1. place' = place
    BY <1>2 DEF ClientStep, Start, AnswerParam, Sign, RemoteSign, CreateFilter, Poll, PollFails,
                NextItem, Check, BlockNumber, FinalReceipt, Fails, Drop, Ends, nodeVars
  <2>2. Mined' = Mined
    BY <2>1 DEF Mined
  <2>3. \A q \in Mined : nonce'[q] = nonce[q]
    BY NonceKept, TransactionsAssumption DEF Mined
  <2>4. Valid(place)'
    BY <2>1, <2>2, <2>3, ValidKept DEF Chain
  <2>5. \A q \in Op : before'[q] \subseteq Mined
    <3>1. CASE Start(o)
      BY <3>1 DEF Start, Confirmed, Chain, TypeOK
    <3>2. CASE ~Start(o)
      <4>1. before' = before
        BY <1>2, <3>2 DEF ClientStep, AnswerParam, Sign, RemoteSign, CreateFilter, Poll,
               PollFails, NextItem, Check, BlockNumber, FinalReceipt, Fails, Drop, Ends, histVars
      <4> QED
        BY <4>1 DEF Chain
    <3> QED
      BY <3>1, <3>2
  <2>6. \A q \in Op : step'[q] \in {"idle", "asking", "remote", "sending"} => place[q] = Absent
    <3>1. \A q \in Op : \/ step'[q] = step[q]
                        \/ step'[q] \notin {"idle", "asking", "remote", "sending"}
                        \/ step[q] \in {"idle", "asking", "remote"}
      BY <1>2 DEF ClientStep, Start, AnswerParam, Sign, RemoteSign, CreateFilter, Poll,
             PollFails, NextItem, Check, BlockNumber, FinalReceipt, Fails, Drop, Ends, Goes,
             ReceiptOutcomes, TypeOK
    <3> QED
      BY <3>1 DEF Chain
  <2> QED
    BY <2>1, <2>2, <2>4, <2>5, <2>6 DEF Chain
<1> QED
  BY <1>1, <1>2

LEMMA ChainNode ==
    ASSUME TypeOK, Chain, [Next]_vars, NodeStep
    PROVE  Chain' /\ UNCHANGED nonce /\ \A o \in Op : before'[o] \subseteq before[o]
<1>1. UNCHANGED <<nonce, step>> /\ Valid(place')
  BY DEF NodeStep, Mine, Reorg, HeadMoves, signVars
<1>2. Valid(place)'
  BY <1>1 DEF Valid
<1>3. ASSUME NEW o \in Op
      PROVE  /\ place[o] = Absent => place'[o] = Absent
             /\ before'[o] \subseteq before[o] /\ before'[o] \subseteq Mined'
  <2>1. ASSUME NEW S \in SUBSET Op, Mine(S)
        PROVE  /\ place[o] = Absent => place'[o] = Absent
               /\ before' = before /\ Mined \subseteq Mined'
    <3>1. \A q \in Op : place'[q] = IF q \in S THEN 0 ELSE Deeper(q)
      BY <2>1 DEF Mine
    <3>2. \A q \in Op : q \in S => place[q] = InPool
      BY <2>1 DEF Mine
    <3>3. \A q \in Op : q \in Mined => q \in Mined'
      BY <3>1, DeeperType, TransactionsAssumption DEF Mined
    <3> QED
      BY <2>1, <3>1, <3>2, <3>3, DeeperType, TransactionsAssumption DEF Mine, Mined, InPool, histVars
  <2>2. ASSUME NEW d \in 1 .. Deep, Reorg(d)
        PROVE  /\ place[o] = Absent => place'[o] = Absent
               /\ before'[o] \subseteq before[o] /\ before'[o] \subseteq Mined'
    <3> DEFINE Moved == {q \in Mined : place[q] < d}
    <3>1. PICK p \in [Moved -> {InPool} \cup (0 .. d)] :
            place' = [q \in Op |-> IF q \in Moved THEN p[q] ELSE Deeper(q)]
      BY <2>2 DEF Reorg
    <3>2. before'[o] = before[o] \ Moved
      BY <2>2 DEF Reorg
    <3>3. \A q \in Op : q \in Mined \ Moved => q \in Mined'
      BY <3>1, DeeperType DEF Mined
    <3>4. place[o] = Absent => o \notin Mined
      BY TransactionsAssumption DEF Mined
    <3> QED
      BY <3>1, <3>2, <3>3, <3>4, DeeperType DEF Chain, Mined
  <2> QED
    BY <2>1, <2>2 DEF NodeStep, Chain
<1> QED
  BY <1>1, <1>2, <1>3 DEF Chain

LEMMA FreshClient ==
    ASSUME TypeOK, Chain, NonceFresh, [Next]_vars, NEW o \in Op,
           ClientStep(o) \/ Fails(o) \/ Drop(o)
    PROVE  NonceFresh'
<1> SUFFICES ASSUME NEW q \in Op, NEW p \in before'[q], "nonce" \notin options'[q],
                    nonce'[q] # NoNonce
             PROVE  nonce'[q] # nonce'[p]
  BY DEF NonceFresh
<1>1. options' = options
  BY CallsKept DEF callVars
<1>2. p \in Op /\ p \in Mined
  BY ChainClient DEF Chain, Mined
<1>3. nonce'[p] = nonce[p] /\ p \in Known
  BY <1>2, NonceKept, TransactionsAssumption DEF Mined, Known
<1>4. nonce[p] \in 0 .. Cardinality(Mined) - 1
  BY <1>2 DEF Chain, Valid, Mined
<1>5. CASE nonce'[q] = nonce[q] /\ before'[q] = before[q]
  BY <1>1, <1>3, <1>5 DEF NonceFresh
<1>6. CASE q = o /\ Start(o)
  BY <1>1, <1>6 DEF Start, TypeOK
<1>7. CASE q = o /\ AnswerParam(o)
  <2>1. before' = before /\ nonce'[o] \in {nonce[o], Cardinality(Mined)}
    BY <1>7 DEF AnswerParam, TransactionCount, TypeOK, histVars
  <2> QED
    BY <1>1, <1>3, <1>4, <1>7, <2>1, MinedFinite DEF NonceFresh
<1>8. CASE q = o /\ (RemoteSign(o) \/ Send(o))
  <2>1. before' = before /\ NodeGives(o)
    BY <1>8 DEF RemoteSign, Send, histVars
  <2>2. nonce'[o] = nonce[o] \/ Unseen(nonce'[o])
    BY <2>1 DEF NodeGives, TypeOK
  <2> QED
    BY <1>1, <1>3, <1>8, <2>1, <2>2 DEF NonceFresh, Unseen
<1>9. \/ nonce'[q] = nonce[q] /\ before'[q] = before[q]
      \/ q = o /\ (Start(o) \/ AnswerParam(o) \/ RemoteSign(o) \/ Send(o))
  <2>1. CASE Start(o) \/ AnswerParam(o) \/ RemoteSign(o) \/ Send(o)
    <3>1. nonce \in [Op -> Nat \cup {NoNonce}] /\ before \in [Op -> SUBSET Op]
      BY DEF TypeOK
    <3>2. CASE Start(o)
      BY <3>1, <3>2 DEF Start
    <3>3. CASE AnswerParam(o)
      BY <3>1, <3>3 DEF AnswerParam, histVars
    <3>4. CASE RemoteSign(o) \/ Send(o)
      BY <3>1, <3>4 DEF RemoteSign, Send, NodeGives, histVars
    <3> QED
      BY <2>1, <3>2, <3>3, <3>4
  <2>2. CASE ~(Start(o) \/ AnswerParam(o) \/ RemoteSign(o) \/ Send(o))
    BY <2>2 DEF ClientStep, Sign, CreateFilter, Poll, PollFails, NextItem, Check, BlockNumber,
                FinalReceipt, Fails, Drop, Ends, signVars, histVars
  <2> QED
    BY <2>1, <2>2
<1> QED
  BY <1>5, <1>6, <1>7, <1>8, <1>9

LEMMA FreshStep ==
    ASSUME TypeOK, Chain, NonceFresh, [Next]_vars
    PROVE  Chain' /\ NonceFresh'
<1>1. CASE UNCHANGED vars
  BY <1>1 DEF vars, callVars, signVars, nodeVars, histVars, Chain, Valid, Mined, NonceFresh
<1>2. CASE \E o \in Op : ClientStep(o) \/ Fails(o) \/ Drop(o)
  BY <1>2, ChainClient, FreshClient
<1>3. CASE NodeStep
  <2>1. options' = options
    BY CallsKept DEF callVars
  <2> QED
    BY <1>3, <2>1, ChainNode DEF NonceFresh
<1> QED
  BY <1>1, <1>2, <1>3 DEF Next

(* A transaction signed after another was confirmed never takes its nonce,
   unless the caller sets it or a reorganisation undoes the other. *)
THEOREM NoncesStayFresh == Spec => []NonceFresh
<1>1. Init => TypeOK /\ Chain /\ NonceFresh
  BY InitType, ChainInit
<1>2. TypeOK /\ Chain /\ NonceFresh /\ [Next]_vars => (TypeOK /\ Chain /\ NonceFresh)'
  BY TypeStep, FreshStep
<1> QED
  BY <1>1, <1>2, PTL DEF Spec

-----------------------------------------------------------------------------
(* Options. *)

(* What an operation has filled in while it waits for the parameters of its
   signature: the options it copied under their own names, the answers of the
   node, and the price or the question for it. *)
Filling(o) ==
    LET given == options[o] \cap Runs(o).copies
    IN  /\ Runs(o).first = "asking"
        /\ given \subseteq DOMAIN carried[o] /\ \A f \in given : carried[o][f] = f
        /\ DOMAIN carried[o] \subseteq given \cup {"nonce", "gas_price"}
        /\ \A f \in DOMAIN carried[o] \ given : carried[o][f] = "node"
        /\ asked[o] \cap DOMAIN carried[o] = {}
        /\ PriceOf(o, DOMAIN carried[o]) \in DOMAIN carried[o] \cup asked[o]

(* What OptionsKept says of one operation. *)
Kept(o) ==
    /\ \A f \in Expected(o) \cap Runs(o).copies : OriginOf(carried[o], f) = f
    /\ kind[o] # "signed_call" => Expected(o) \subseteq Runs(o).copies
    /\ Runs(o).first = "asking" => Priced(o)

(* An operation that ended before it sent has nothing at the node. *)
Copied ==
    \A o \in Op :
        /\ "transaction_type" \notin options[o] => type[o] = 0
        /\ step[o] = "asking" => Filling(o)
        /\ step[o] \notin {"idle", "asking", "over"} \/ o \in Known => Kept(o)

LEMMA PathCopies ==
    /\ \A k \in DOMAIN Path :
          /\ Path[k].first # "asking" => Path[k].copies = Field
          /\ Path[k].first = "asking" => "gas_price" \in Path[k].copies
    /\ \A k \in DOMAIN Path \ {"signed_call"} : Field \ {"condition"} \subseteq Path[k].copies
<1>1. Call.copies = Field
  BY DEF Call
<1>2. CallWithConfirmations.copies = Field /\ Execute.copies = Field /\ SignAndExecute.copies = Field
  BY DEF Call, CallWithConfirmations, Execute, SignAndExecute
<1>3. /\ SignWithKeyAndExecute.copies = Field \ {"condition"}
      /\ SignWithKeyAndExecute.first = "asking"
  BY DEF Call, CallWithConfirmations, Execute, SignWithKeyAndExecute
<1>4. /\ SignedCallWithConfirmations.copies = Field \ {"condition"}
      /\ SignedCallWithConfirmations.first = "asking"
  BY DEF Call, CallWithConfirmations, Execute, SignWithKeyAndExecute, SignedCallWithConfirmations
<1>5. SignedCall.copies = {"gas", "gas_price", "value", "nonce"} /\ SignedCall.first = "asking"
  BY DEF SignedCall
<1>6. "gas_price" \in Field \ {"condition"}
  BY DEF Field
<1> QED
  BY <1>1, <1>2, <1>3, <1>4, <1>5, <1>6 DEF Path

(* On every path but signed_call, what can be expected is copied. *)
LEMMA ExpectedCopied ==
    ASSUME TypeOK, NEW o \in Op, kind[o] # "signed_call"
    PROVE  Expected(o) \subseteq Runs(o).copies
<1>1. kind[o] \in DOMAIN Path \ {"signed_call"} /\ options[o] \subseteq Field
  BY DEF TypeOK
<1>2. CASE Runs(o).first = "asking"
  BY <1>1, <1>2, PathCopies DEF Expected, EnvelopeFields, Runs
<1>3. CASE Runs(o).first # "asking"
  BY <1>1, <1>3, PathCopies DEF Expected, Runs
<1> QED
  BY <1>2, <1>3

LEMMA FillingStarts ==
    ASSUME TypeOK, NEW o \in Op, Start(o), Runs(o)' = Runs(o), UNCHANGED callVars
    PROVE  /\ step'[o] = "asking" => Filling(o)'
           /\ step'[o] # "asking" => Kept(o)'
<1> DEFINE given == options[o] \cap Runs(o).copies
<1>1. carried'[o] = [f \in given |-> f] /\ step'[o] = Runs(o).first
  BY DEF Start, Goes, TypeOK
<1>2. UNCHANGED <<options, type, kind>>
  BY DEF callVars
<1>3. CASE step'[o] = "asking"
  <2>1. PICK g \in SUBSET {"chain_id"} : asked'[o] = AsksFor(o, given) \ g
    <3>1. Runs(o).first = "asking"
      BY <1>1, <1>3
    <3>2. PICK g \in {{}, IF kind[o] = "sign_with_key_and_execute" THEN {"chain_id"} ELSE {}} :
            asked' = [asked EXCEPT ![o] = AsksFor(o, given) \ g]
      BY <3>1 DEF Start
    <3>3. g \in SUBSET {"chain_id"} /\ asked'[o] = AsksFor(o, given) \ g
      BY <3>2 DEF TypeOK
    <3> QED
      BY <3>3
  <2>2. PriceOf(o, given) \in given \cup asked'[o] /\ asked'[o] \cap given = {}
    <3>1. given \subseteq Field /\ "chain_id" \notin Field
      BY DEF TypeOK, Field
    <3> QED
      BY <2>1, <3>1 DEF AsksFor, PriceOf
  <2>3. PriceOf(o, given)' = PriceOf(o, given)
    BY <1>2 DEF PriceOf, TypeOf
  <2> QED
    BY <1>1, <1>2, <1>3, <2>2, <2>3 DEF Filling, PriceOf, TypeOf
<1>4. CASE step'[o] # "asking"
  <2>1. Runs(o).first # "asking" /\ kind[o] \in DOMAIN Path /\ options[o] \subseteq Field
    BY <1>1, <1>4 DEF TypeOK
  <2>2. Runs(o).copies = Field
    BY <2>1, PathCopies DEF Runs
  <2>3. Expected(o)' \subseteq given
    BY <1>2, <2>1, <2>2 DEF Expected
  <2> QED
    BY <1>1, <1>2, <2>1, <2>2, <2>3 DEF Kept, OriginOf
<1> QED
  BY <1>3, <1>4

LEMMA FillingAnswered ==
    ASSUME TypeOK, NEW o \in Op, AnswerParam(o), Filling(o), Runs(o)' = Runs(o), UNCHANGED callVars
    PROVE  Filling(o)'
<1> DEFINE given == options[o] \cap Runs(o).copies
           fields == DOMAIN carried[o]
<1>1. PICK p \in asked[o] :
        /\ asked'[o] = asked[o] \ {p}
        /\ carried'[o] = [f \in fields \cup ({p} \ {"chain_id"}) |->
                            IF f = p THEN "node" ELSE carried[o][f]]
  BY DEF AnswerParam, TypeOK
<1>2. UNCHANGED <<options, type, kind>>
  BY DEF callVars
<1>3. p \in Param /\ p \notin fields
  BY <1>1 DEF TypeOK, Filling
<1>4. DOMAIN carried'[o] = fields \cup ({p} \ {"chain_id"})
  BY <1>1
<1>5. \A f \in fields : carried'[o][f] = carried[o][f]
  BY <1>1, <1>3
<1>6. PriceOf(o, fields \cup ({p} \ {"chain_id"})) = PriceOf(o, fields)
  BY <1>3 DEF PriceOf, TypeOf, Param
<1>7. PriceOf(o, fields) \in DOMAIN carried'[o] \cup asked'[o]
  <2>1. PriceOf(o, fields) # "chain_id"
    BY DEF PriceOf
  <2> QED
    BY <1>1, <1>4, <2>1 DEF Filling
<1>8. PriceOf(o, DOMAIN carried[o])' = PriceOf(o, fields)
  BY <1>2, <1>4, <1>6 DEF PriceOf, TypeOf
<1>9. asked'[o] \cap DOMAIN carried'[o] = {}
  BY <1>1, <1>4 DEF Filling
<1>10. \A f \in DOMAIN carried'[o] \ given : carried'[o][f] = "node" /\ f \in {"nonce", "gas_price"}
  BY <1>1, <1>3, <1>4, <1>5 DEF Filling, Param
<1>11. Runs(o)'.copies = Runs(o).copies /\ Runs(o)'.first = Runs(o).first
  OBVIOUS
<1>12. given \subseteq fields /\ (\A f \in given : carried[o][f] = f) /\ Runs(o).first = "asking"
  BY DEF Filling
<1> HIDE DEF fields
<1> QED
  BY <1>2, <1>4, <1>5, <1>7, <1>8, <1>9, <1>10, <1>11, <1>12 DEF Filling

(* The envelope keeps the options it has a place for, and has a price. *)
LEMMA Enveloped ==
    ASSUME TypeOK, Copied, NEW o \in Op, Filling(o), asked[o] = {}
    PROVE  LET fields == Envelope(o, carried[o])
               price == IF "gas_price" \in DOMAIN fields THEN fields["gas_price"]
                        ELSE OriginOf(fields, "max_fee_per_gas")
           IN  /\ \A f \in Expected(o) \cap Runs(o).copies : OriginOf(fields, f) = f
               /\ price # "default" /\ ("gas_price" \in options[o] => price # "node")
               /\ "max_priority_fee_per_gas" \in DOMAIN fields
                    => fields["max_priority_fee_per_gas"] \in {price, "max_priority_fee_per_gas"}
<1> DEFINE given == options[o] \cap Runs(o).copies
           C == carried[o]
           t == TypeOf(o, DOMAIN C)
           P == PriceOf(o, DOMAIN C)
           E == Envelope(o, C)
<1>1. /\ given \subseteq DOMAIN C /\ \A f \in given : C[f] = f
      /\ DOMAIN C \subseteq given \cup {"nonce", "gas_price"}
      /\ \A f \in DOMAIN C \ given : C[f] = "node"
      /\ P \in DOMAIN C /\ Runs(o).first = "asking"
  BY DEF Filling
<1>2. /\ DOMAIN E = EnvelopeFields(t)
      /\ \A f \in EnvelopeFields(t) :
            E[f] = IF \/ f \in {"gas_price", "max_fee_per_gas"}
                      \/ f = "max_priority_fee_per_gas" /\ f \notin DOMAIN C
                     THEN C[P] ELSE OriginOf(C, f)
  BY <1>1 DEF Envelope, OriginOf
<1>3. "gas_price" \in options[o] => "gas_price" \in given
  <2>1. kind[o] \in DOMAIN Path
    BY DEF TypeOK
  <2> QED
    BY <1>1, <2>1, PathCopies DEF Runs
<1>4. C[P] # "default" /\ ("gas_price" \in options[o] => C[P] # "node")
  BY <1>1, <1>3 DEF PriceOf
<1>5. "gas_price" \in EnvelopeFields(t) \/ "max_fee_per_gas" \in EnvelopeFields(t)
  BY DEF EnvelopeFields
<1>6. \A f \in given \cap EnvelopeFields(t) : E[f] = f
  <2> SUFFICES ASSUME NEW f \in given, f \in EnvelopeFields(t) PROVE E[f] = f
    OBVIOUS
  <2>1. CASE f = "gas_price"
    <3>1. t # 2
      BY <2>1 DEF EnvelopeFields
    <3> QED
      BY <1>1, <1>2, <2>1, <3>1 DEF PriceOf
  <2>2. CASE f = "max_fee_per_gas"
    <3>1. t = 2
      BY <2>2 DEF EnvelopeFields
    <3> QED
      BY <1>1, <1>2, <2>2, <3>1 DEF PriceOf
  <2>3. CASE f \notin {"gas_price", "max_fee_per_gas"}
    BY <1>1, <1>2, <2>3 DEF OriginOf
  <2> QED
    BY <2>1, <2>2, <2>3
<1>7. Expected(o) \cap Runs(o).copies \subseteq given \cap EnvelopeFields(t)
  <2>1. CASE "transaction_type" \in DOMAIN C
    BY <1>1, <2>1 DEF Expected, TypeOf
  <2>2. CASE "transaction_type" \notin DOMAIN C
    <3>1. t = 0
      BY <2>2 DEF TypeOf
    <3>2. CASE kind[o] = "signed_call"
      <4>1. Runs(o).copies = {"gas", "gas_price", "value", "nonce"}
        BY <3>2 DEF Runs, Path, SignedCall
      <4> QED
        BY <3>1, <4>1 DEF Expected, EnvelopeFields
    <3>3. CASE kind[o] # "signed_call"
      <4>1. "transaction_type" \in Runs(o).copies
        <5>1. kind[o] \in DOMAIN Path \ {"signed_call"} /\ "transaction_type" \in Field \ {"condition"}
          BY <3>3 DEF TypeOK, Field
        <5> QED
          BY <5>1, PathCopies DEF Runs
      <4>2. "transaction_type" \notin options[o]
        BY <1>1, <2>2, <4>1
      <4>3. type[o] = 0
        BY <4>2 DEF Copied
      <4> QED
        BY <1>1, <3>1, <4>3 DEF Expected
    <3> QED
      BY <3>2, <3>3
  <2> QED
    BY <2>1, <2>2
<1>8. \A f \in Expected(o) \cap Runs(o).copies : OriginOf(E, f) = f
  BY <1>2, <1>6, <1>7 DEF OriginOf
<1>9. (IF "gas_price" \in DOMAIN E THEN E["gas_price"] ELSE OriginOf(E, "max_fee_per_gas")) = C[P]
  BY <1>2, <1>5 DEF OriginOf
<1>10. "max_priority_fee_per_gas" \in DOMAIN E
          => E["max_priority_fee_per_gas"] \in {C[P], "max_priority_fee_per_gas"}
  BY <1>1, <1>2 DEF OriginOf
<1> HIDE DEF E, P, C
<1> QED
  BY <1>4, <1>8, <1>9, <1>10 DEF E, C

LEMMA FillingSigned ==
    ASSUME TypeOK, Copied, NEW o \in Op, Sign(o), Runs(o)' = Runs(o), UNCHANGED callVars,
           step'[o] # "over"
    PROVE  Kept(o)'
<1>1. step[o] = "asking" /\ asked[o] = {} /\ Filling(o)
  BY DEF Sign, Copied
<1>2. carried'[o] = Envelope(o, carried[o])
  BY DEF Sign, Ends, TypeOK
<1>3. UNCHANGED <<options, type, kind>>
  BY DEF callVars
<1>4. Expected(o)' = Expected(o)
  BY <1>3 DEF Expected
<1>5. kind[o] # "signed_call" => Expected(o) \subseteq Runs(o).copies
  BY ExpectedCopied
<1> DEFINE E == Envelope(o, carried[o])
           price == IF "gas_price" \in DOMAIN E THEN E["gas_price"]
                    ELSE OriginOf(E, "max_fee_per_gas")
<1>6. /\ \A f \in Expected(o) \cap Runs(o).copies : OriginOf(E, f) = f
      /\ price # "default" /\ ("gas_price" \in options[o] => price # "node")
      /\ "max_priority_fee_per_gas" \in DOMAIN E
           => E["max_priority_fee_per_gas"] \in {price, "max_priority_fee_per_gas"}
  BY <1>1, Enveloped
<1>7. carried'[o] = E
  BY <1>2
<1> HIDE DEF E
<1>8. \A f \in Expected(o) \cap Runs(o).copies : OriginOf(carried'[o], f) = f
  BY <1>6, <1>7
<1>9. Priced(o)'
  BY <1>3, <1>6, <1>7 DEF Priced, OriginOf
<1>10. \A f : OriginOf(carried[o], f)' = OriginOf(carried'[o], f)
  BY DEF OriginOf
<1> QED
  BY <1>3, <1>4, <1>5, <1>8, <1>9 DEF Kept, OriginOf

(* What is kept of an operation depends on no more than its call and fields. *)
LEMMA KeptSame ==
    ASSUME NEW q \in Op, Runs(q)' = Runs(q), UNCHANGED callVars, carried'[q] = carried[q]
    PROVE  /\ Kept(q)' = Kept(q)
           /\ asked'[q] = asked[q] => Filling(q)' = Filling(q)
<1>1. UNCHANGED <<options, type, kind>>
  BY DEF callVars
<1>2. Expected(q)' = Expected(q) /\ Priced(q)' = Priced(q)
  BY <1>1 DEF Expected, Priced, OriginOf
<1> QED
  BY <1>1, <1>2 DEF Kept, Filling, OriginOf, PriceOf, TypeOf

LEMMA CopiedClient ==
    ASSUME TypeOK, Chain, Copied, [Next]_vars, NEW o \in Op, ClientStep(o) \/ Fails(o) \/ Drop(o)
    PROVE  Copied'
<1>1. UNCHANGED callVars /\ \A q \in Op : Runs(q)' = Runs(q)
  BY CallsKept
<1>2. \A q \in Op : "transaction_type" \notin options'[q] => type'[q] = 0
  BY <1>1 DEF callVars, Copied
<1>3. ASSUME NEW q \in Op, step'[q] = step[q], carried'[q] = carried[q], asked'[q] = asked[q],
             place'[q] = place[q]
      PROVE  /\ step'[q] = "asking" => Filling(q)'
             /\ step'[q] \notin {"idle", "asking", "over"} \/ place'[q] # Absent => Kept(q)'
  BY <1>1, <1>3, KeptSame DEF Copied, Known
<1>4. ASSUME NEW q \in Op, q # o
      PROVE  /\ step'[q] = step[q] /\ carried'[q] = carried[q] /\ asked'[q] = asked[q]
             /\ place'[q] = place[q]
  <2>0. /\ step \in [Op -> Ended \cup {"idle", "asking", "remote", "sending", "filtering",
                                      "streaming", "checking", "heading", "final"}]
        /\ asked \in [Op -> SUBSET Param] /\ carried \in [Op -> Carried]
        /\ place \in [Op -> {Absent, InPool} \cup (0 .. Deep)]
    BY DEF TypeOK
  <2>1. CASE Start(o)
    BY <1>4, <2>0, <2>1 DEF Start, Goes, nodeVars
  <2>2. CASE AnswerParam(o) \/ Sign(o)
    BY <1>4, <2>0, <2>2 DEF AnswerParam, Sign, Ends, nodeVars
  <2>3. CASE RemoteSign(o) \/ Send(o)
    BY <1>4, <2>0, <2>3 DEF RemoteSign, Send, Goes, nodeVars
  <2>4. CASE ~(Start(o) \/ AnswerParam(o) \/ Sign(o) \/ RemoteSign(o) \/ Send(o))
    BY <1>4, <2>0, <2>4 DEF ClientStep, CreateFilter, Poll, PollFails, NextItem, Check, BlockNumber,
           FinalReceipt, Fails, Drop, Ends, Goes, signVars, nodeVars
  <2> QED
    BY <2>1, <2>2, <2>3, <2>4
<1>5. /\ step'[o] = "asking" => Filling(o)'
      /\ step'[o] \notin {"idle", "asking", "over"} \/ place'[o] # Absent => Kept(o)'
  <2>1. CASE Start(o)
    <3>1. step'[o] \notin {"idle", "over"} /\ place'[o] = Absent
      <4>1. Runs(o).first \in {"sending", "remote", "asking"}
        BY PathFacts DEF Runs, TypeOK
      <4> QED
        BY <2>1, <4>1 DEF Start, Goes, nodeVars, Chain, TypeOK
    <3> QED
      BY <1>1, <2>1, <3>1, FillingStarts
  <2>2. CASE AnswerParam(o)
    <3>1. step'[o] = "asking" /\ place'[o] = Absent
      BY <2>2 DEF AnswerParam, nodeVars, Chain
    <3> QED
      BY <1>1, <2>2, <3>1, FillingAnswered DEF AnswerParam, Copied
  <2>3. CASE Sign(o)
    <3>1. place'[o] = Absent /\ step'[o] \in {"sending", "over"}
      BY <2>3 DEF Sign, Ends, nodeVars, Chain, TypeOK
    <3> QED
      BY <1>1, <2>3, <3>1, FillingSigned
  <2>4. CASE ~(Start(o) \/ AnswerParam(o) \/ Sign(o))
    <3>1. /\ carried'[o] = carried[o] /\ step'[o] # "asking"
          /\ step'[o] # "over" \/ place'[o] # Absent => step[o] \notin {"idle", "asking", "over"} \/ o \in Known
      BY <2>4 DEF ClientStep, RemoteSign, Send, AfterSend, CreateFilter, Poll, PollFails,
             NextItem, Check, BlockNumber, FinalReceipt, ReceiptOutcomes, Fails, Drop, Ends, Goes,
             Ended, signVars, nodeVars, Known, TypeOK
    <3> QED
      BY <1>1, <3>1, KeptSame DEF Copied
  <2> QED
    BY <2>1, <2>2, <2>3, <2>4
<1> QED
  BY <1>2, <1>3, <1>4, <1>5 DEF Copied, Known

LEMMA CopiedStep ==
    ASSUME TypeOK, Chain, Copied, [Next]_vars
    PROVE  Copied'
<1>1. UNCHANGED callVars /\ \A q \in Op : Runs(q)' = Runs(q)
  BY CallsKept
<1>2. CASE UNCHANGED vars \/ NodeStep
  <2>1. UNCHANGED <<asked, carried, step>>
    BY <1>2 DEF NodeStep, Mine, Reorg, HeadMoves, vars, signVars
  <2>2. \A o \in Op : place[o] = Absent => place'[o] = Absent
    <3>1. ASSUME NEW o \in Op, NEW S \in SUBSET Op, Mine(S), place[o] = Absent PROVE place'[o] = Absent
      <4>1. S \subseteq {q \in Op : place[q] = InPool} /\ place'[o] = IF o \in S THEN 0 ELSE Deeper(o)
        BY <3>1 DEF Mine
      <4> QED
        BY <3>1, <4>1, TransactionsAssumption DEF InPool, Deeper, Mined
    <3>2. ASSUME NEW o \in Op, NEW d \in 1 .. Deep, Reorg(d), place[o] = Absent PROVE place'[o] = Absent
      <4>1. o \notin Mined
        BY <3>2, TransactionsAssumption DEF Mined
      <4>2. place'[o] = Deeper(o)
        BY <3>2, <4>1 DEF Reorg
      <4> QED
        BY <3>2, <4>1, <4>2 DEF Deeper
    <3> QED
      BY <1>2, <3>1, <3>2 DEF NodeStep, vars, nodeVars
  <2>3. \A q \in Op : Kept(q)' = Kept(q) /\ Filling(q)' = Filling(q)
    BY <1>1, <2>1, KeptSame
  <2>4. UNCHANGED <<options, type>>
    BY <1>1 DEF callVars
  <2> QED
    BY <2>1, <2>2, <2>3, <2>4 DEF Copied, Known
<1> QED
  BY <1>2, CopiedClient DEF Next

(* Every option a transaction of the caller's type has a place for reaches the
   node under its own name, on every path but signed_call, which keeps four;
   what is signed locally names a price, the caller's if there is one.  So the
   disagreement of OptionsCarried is that one path and no other. *)
THEOREM OptionsAreCarried == Spec => []OptionsKept
<1>1. Init => TypeOK /\ Chain /\ NonceFresh /\ Copied
  <2>1. Init => Copied
    BY TransactionsAssumption DEF Init, Copied, Known
  <2> QED
    BY <2>1, InitType, ChainInit
<1>2. TypeOK /\ Chain /\ NonceFresh /\ Copied /\ [Next]_vars
        => (TypeOK /\ Chain /\ NonceFresh /\ Copied)'
  BY TypeStep, FreshStep, CopiedStep
<1>3. Copied => OptionsKept
  BY DEF Copied, Kept, OptionsKept, Known
<1> QED
  BY <1>1, <1>2, <1>3, PTL DEF Spec

(* The inductive invariant as a whole. *)
THEOREM InvHolds == Spec => []IInv
<1>1. Init => IInv
  BY InitType, DepthsInit, ChainInit DEF IInv
<1>2. IInv /\ [Next]_vars => IInv'
  BY TypeStep, DepthsStep, FreshStep DEF IInv
<1> QED
  BY <1>1, <1>2, PTL DEF Spec

=============================================================================
