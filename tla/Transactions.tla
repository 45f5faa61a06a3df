---------------------------- MODULE Transactions ----------------------------
(* Sending a transaction and waiting until it is confirmed, along the seven
   paths of the code: Contract::call, call_with_confirmations, signed_call,
   signed_call_with_confirmations, and the execute, sign_and_execute and
   sign_with_key_and_execute of the deployment builder.  A path is the
   sequence of its awaits; each await is one call of the transport, which the
   node answers at once or with an error.  All operations use one account.

   The node is external.  Heights are kept relative to the head of its chain,
   so that the chain can grow without bound: a mined transaction has a depth,
   0 in the head block, cut off at Deep.  *)
EXTENDS Integers, FiniteSets

CONSTANTS
    Op,                \* the operations, each issued once
    Kinds,             \* Kinds[o]: the paths operation o may take
    OptionSets,        \* the sets of contract::Options fields a caller sets
    Types,             \* the transaction types a caller may set
    Wanted,            \* the confirmations a caller may ask for
    Deep,              \* the depth at which a transaction's depth is cut off
    MaxReorgs,         \* bound on the reorganisations of the chain
    NoNonce, Absent    \* no nonce yet; not at the node

Field == {"gas", "gas_price", "value", "nonce", "condition", "transaction_type",
          "access_list", "max_fee_per_gas", "max_priority_fee_per_gas"}

(* What each path does first, which options fields it copies into the request
   or the parameters of the transaction, whether it waits for a receipt and
   what it asks of one.  The parameters of a locally signed transaction have
   no condition; signed_call fills in four fields and leaves the others at
   their defaults. *)
Call == [first |-> "sending", copies |-> Field, waits |-> FALSE, deploys |-> FALSE]
CallWithConfirmations == [Call EXCEPT !.waits = TRUE]
Execute        == [CallWithConfirmations EXCEPT !.deploys = TRUE]
SignAndExecute == [Execute EXCEPT !.first = "remote"]
SignWithKeyAndExecute ==
    [Execute EXCEPT !.first = "asking", !.copies = Field \ {"condition"}]
SignedCallWithConfirmations == [SignWithKeyAndExecute EXCEPT !.deploys = FALSE]
SignedCall == [first |-> "asking", copies |-> {"gas", "gas_price", "value", "nonce"},
               waits |-> FALSE, deploys |-> FALSE]

Path == [call |-> Call, call_with_confirmations |-> CallWithConfirmations,
         signed_call |-> SignedCall,
         signed_call_with_confirmations |-> SignedCallWithConfirmations,
         execute |-> Execute, sign_and_execute |-> SignAndExecute,
         sign_with_key_and_execute |-> SignWithKeyAndExecute]

ASSUME TransactionsAssumption ==
    /\ IsFiniteSet(Op)
    /\ Kinds \in [Op -> SUBSET DOMAIN Path]
    /\ OptionSets \subseteq SUBSET Field /\ Types \subseteq Nat
    /\ Deep \in Nat \ {0} /\ Wanted \subseteq 0 .. Deep /\ MaxReorgs \in Nat
    /\ NoNonce \notin Nat /\ Absent \notin Int

VARIABLES
    step,           \* where the future of each operation is
    kind,           \* its path
    options,        \* the option fields its caller set
    type,           \* the transaction type among them, 0 if there is none
    confirmations,  \* how many confirmations its caller asked for
    asked,          \* the parameters sign_transaction still waits for
    nonce,          \* the nonce of its transaction
    carried,        \* the fields of its transaction, each with its origin
    skip,           \* items of the filter stream still to be skipped
    buffer,         \* polled items not taken from the stream yet
    lag,            \* how far the head is past the block of the receipt read
    returned,       \* the depth of the receipt given to the caller
    place,          \* Absent, InPool, or the depth of the transaction
    news,           \* blocks the filter has not reported yet
    reorgs,         \* how many reorganisations there were
    disturbed,      \* one moved the transaction since its receipt was read
    before          \* the operations confirmed when the operation started

callVars   == <<kind, options, type, confirmations>>
signVars   == <<asked, nonce, carried>>
streamVars == <<skip, buffer, lag>>
nodeVars   == <<place, news, reorgs>>
histVars   == <<disturbed, before>>
vars == <<step, callVars, signVars, streamVars, returned, nodeVars, histVars>>

InPool == -1
Ended  == {"done", "over"}   \* over: no receipt is handed out
Param  == {"nonce", "gas_price", "chain_id"}
Mined  == {o \in Op : place[o] \in 0 .. Deep}
Known  == {o \in Op : place[o] # Absent}
Runs(o) == Path[kind[o]]

(* Where a field of a transaction has its value from: an option of the
   caller, the node, or the default of the code. *)
Origin  == Field \cup {"node", "default"}
Carried == UNION {[S -> Origin] : S \in SUBSET Field}
OriginOf(fields, f) == IF f \in DOMAIN fields THEN fields[f] ELSE "default"

TypeOK ==
    /\ step \in [Op -> Ended \cup {"idle", "asking", "remote", "sending", "filtering",
                                   "streaming", "checking", "heading", "final"}]
    /\ kind \in [Op -> DOMAIN Path] /\ options \in [Op -> SUBSET Field]
    /\ type \in [Op -> Nat]
    /\ confirmations \in [Op -> Wanted \cup {0}]
    /\ asked \in [Op -> SUBSET Param]
    /\ nonce \in [Op -> Nat \cup {NoNonce}]
    /\ carried \in [Op -> Carried]
    /\ skip \in [Op -> 0 .. Deep]
    /\ buffer \in [Op -> 0 .. Deep] /\ lag \in [Op -> 0 .. Deep]
    /\ returned \in [Op -> {Absent, InPool} \cup (0 .. Deep)]
    /\ place \in [Op -> {Absent, InPool} \cup (0 .. Deep)]
    /\ news \in [Op -> 0 .. Deep]
    /\ reorgs \in 0 .. MaxReorgs
    /\ disturbed \in [Op -> BOOLEAN]
    /\ before \in [Op -> SUBSET Op]

Init ==
    /\ step = [o \in Op |-> "idle"]
    /\ kind \in {k \in [Op -> DOMAIN Path] : \A o \in Op : k[o] \in Kinds[o]}
    /\ options \in [Op -> OptionSets]
    /\ type \in {t \in [Op -> Types \cup {0}] :
                    \A o \in Op : t[o] \in IF "transaction_type" \in options[o] THEN Types ELSE {0}}
    /\ confirmations \in {n \in [Op -> Wanted \cup {0}] :
                             \A o \in Op : n[o] \in IF Runs(o).waits THEN Wanted ELSE {0}}
    /\ asked = [o \in Op |-> {}] /\ nonce = [o \in Op |-> NoNonce]
    /\ carried = [o \in Op |-> [f \in {} |-> "default"]]
    /\ skip = [o \in Op |-> 0] /\ buffer = [o \in Op |-> 0] /\ lag = [o \in Op |-> 0]
    /\ returned = [o \in Op |-> Absent]
    /\ place = [o \in Op |-> Absent] /\ news = [o \in Op |-> 0]
    /\ reorgs = 0
    /\ disturbed = [o \in Op |-> FALSE] /\ before = [o \in Op |-> {}]

Goes(o, from, to) == step[o] = from /\ step' = [step EXCEPT ![o] = to]
Excess(m, n) == IF m > n THEN m - n ELSE 0
UpTo(n) == IF n < Deep THEN n ELSE Deep

-----------------------------------------------------------------------------
(* Building the transaction. *)

(* The type sign_transaction finds among the fields given, and the field it
   takes for the gas price: the maximum fee, if the type is 2 and has one. *)
TypeOf(o, fields)  == IF "transaction_type" \in fields THEN type[o] ELSE 0
PriceOf(o, fields) ==
    IF TypeOf(o, fields) = 2 /\ "max_fee_per_gas" \in fields THEN "max_fee_per_gas" ELSE "gas_price"

(* It asks for what it was not given.  Mutant: whatever the type, a maximum
   fee stands for the gas price. *)
AsksWithoutMaximum(o, fields) ==
    {"chain_id"} \cup ({"nonce"} \ fields)
    \cup (IF fields \cap {"gas_price", "max_fee_per_gas"} = {} THEN {"gas_price"} ELSE {})
AsksFor(o, fields) ==
    {"chain_id"} \cup ({"nonce"} \ fields)
    \cup (IF PriceOf(o, fields) \in fields THEN {} ELSE {"gas_price"})

(* The options a transaction of a type has a place for: a legacy transaction
   has no access list, and only type 2 has the fees of its own. *)
Supported == {0, 1, 2}
EnvelopeFields(t) ==
    {"nonce", "gas", "value", "transaction_type"}
    \cup (IF t = 0 THEN {} ELSE {"access_list"})
    \cup (IF t = 2 THEN {"max_fee_per_gas", "max_priority_fee_per_gas"} ELSE {"gas_price"})

(* What is signed: the price is the gas price or the maximum fee, and the
   priority fee is the price too, unless it was given. *)
Envelope(o, fields) ==
    LET price == OriginOf(fields, PriceOf(o, DOMAIN fields))
    IN  [f \in EnvelopeFields(TypeOf(o, DOMAIN fields)) |->
            IF \/ f \in {"gas_price", "max_fee_per_gas"}
               \/ f = "max_priority_fee_per_gas" /\ f \notin DOMAIN fields
              THEN price ELSE OriginOf(fields, f)]

(* Confirmed when the operation starts: what its caller may rely on. *)
Confirmed == {p \in Op : step[p] = "done" /\ confirmations[p] > 0 /\ p \in Mined}

(* The data is encoded, and the code of a deployment linked, before anything
   is sent; a caller of sign_with_key_and_execute may give the chain id. *)
Start(o) ==
    /\ Goes(o, "idle", Runs(o).first)
    /\ carried' = [carried EXCEPT ![o] = [f \in options[o] \cap Runs(o).copies |-> f]]
    /\ \E given \in {{}, IF kind[o] = "sign_with_key_and_execute" THEN {"chain_id"} ELSE {}} :
          asked' = [asked EXCEPT ![o] = IF Runs(o).first = "asking"
                                          THEN AsksFor(o, options[o] \cap Runs(o).copies) \ given
                                          ELSE {}]
    /\ \E n \in IF "nonce" \in options[o] THEN 0 .. Cardinality(Op) ELSE {NoNonce} :
          nonce' = [nonce EXCEPT ![o] = n]
    /\ before' = [before EXCEPT ![o] = Confirmed]
    /\ UNCHANGED <<callVars, streamVars, returned, nodeVars, disturbed>>

(* The future is gone, and its locals with it.  Nothing tells the node: a
   filter stays installed, as it does when the wait ends. *)
Ends(o) ==
    /\ step' = [step EXCEPT ![o] = "over"]
    /\ asked' = [asked EXCEPT ![o] = {}]
    /\ skip' = [skip EXCEPT ![o] = 0] /\ buffer' = [buffer EXCEPT ![o] = 0]
    /\ lag' = [lag EXCEPT ![o] = 0] /\ disturbed' = [disturbed EXCEPT ![o] = FALSE]
    /\ UNCHANGED <<callVars, nonce, carried, returned, nodeVars, before>>

(* Any await may end in an error, which ends the operation: the encoding
   before the first call, a parameter of try_join3, the key, the node, the
   filter, a receipt that cannot be read, a height that overflows. *)
Fails(o) == step[o] \notin Ended \cup {"streaming"} /\ Ends(o)

(* The caller drops the future at one of its awaits. *)
Drop(o) == step[o] \notin Ended \cup {"idle"} /\ Ends(o)

(* transaction_count reads the latest block, not the pending one.  Mutant:
   it reads the earliest. *)
CountAtEarliest  == 0
TransactionCount == Cardinality(Mined)

AnswerParam(o) ==
    /\ step[o] = "asking"
    /\ \E p \in asked[o] :
          /\ asked' = [asked EXCEPT ![o] = @ \ {p}]
          /\ nonce' = [nonce EXCEPT ![o] = IF p = "nonce" THEN TransactionCount ELSE @]
          /\ carried' = [carried EXCEPT ![o] = [f \in DOMAIN @ \cup ({p} \ {"chain_id"}) |->
                                                   IF f = p THEN "node" ELSE @[f]]]
    /\ UNCHANGED <<step, callVars, streamVars, returned, nodeVars, histVars>>

(* A type that has no envelope is not signed. *)
Sign(o) ==
    /\ step[o] = "asking" /\ asked[o] = {}
    /\ IF TypeOf(o, DOMAIN carried[o]) \in Supported
         THEN /\ step' = [step EXCEPT ![o] = "sending"]
              /\ carried' = [carried EXCEPT ![o] = Envelope(o, @)]
              /\ UNCHANGED <<callVars, asked, nonce, streamVars, returned, nodeVars, histVars>>
         ELSE Ends(o)

(* The node gives a transaction of its own the first nonce it has not seen,
   when it signs it or when it takes it. *)
Unseen(n) == \A p \in Known : nonce[p] # n
NodeGives(o) ==
    IF nonce[o] # NoNonce
      THEN UNCHANGED nonce
      ELSE \E n \in {n \in 0 .. Cardinality(Op) : Unseen(n) /\ \A m \in 0 .. n - 1 : ~Unseen(m)} :
              nonce' = [nonce EXCEPT ![o] = n]

(* Personal::sign_transaction. *)
RemoteSign(o) ==
    /\ Goes(o, "remote", "sending") /\ NodeGives(o)
    /\ UNCHANGED <<callVars, asked, carried, streamVars, returned, nodeVars, histVars>>

(* send_transaction and send_raw_transaction.  The answer may get lost after
   the node took the transaction.  Without confirmations to wait for, the
   receipt is read at once. *)
AfterSend(o) == IF ~Runs(o).waits THEN "done"
                ELSE IF confirmations[o] > 0 THEN "filtering" ELSE "final"
Send(o) ==
    /\ step[o] = "sending"
    /\ \E to \in {AfterSend(o), "over"} : step' = [step EXCEPT ![o] = to]
    /\ place' = [place EXCEPT ![o] = InPool] /\ NodeGives(o)
    /\ UNCHANGED <<callVars, asked, carried, streamVars, returned, news, reorgs, histVars>>

-----------------------------------------------------------------------------
(* wait_for_confirmations. *)

CreateFilter(o) ==
    /\ Goes(o, "filtering", "streaming")
    /\ news' = [news EXCEPT ![o] = 0]
    /\ skip' = [skip EXCEPT ![o] = confirmations[o]]
    /\ UNCHANGED <<callVars, signVars, buffer, lag, returned, place, reorgs, histVars>>

(* filter_stream: after a delay the filter is polled, and its blocks become
   items; the first `confirmations` items of the stream are skipped.  Mutant:
   the first items of each poll are. *)
PollSkipsAnew(o) ==
    /\ step[o] = "streaming" /\ buffer[o] = 0
    /\ skip' = [skip EXCEPT ![o] = confirmations[o]]
    /\ buffer' = [buffer EXCEPT ![o] = Excess(news[o], skip[o])]
    /\ news' = [news EXCEPT ![o] = 0]
    /\ UNCHANGED <<step, callVars, signVars, lag, returned, place, reorgs, histVars>>
Poll(o) ==
    /\ step[o] = "streaming" /\ buffer[o] = 0
    /\ skip' = [skip EXCEPT ![o] = Excess(@, news[o])]
    /\ buffer' = [buffer EXCEPT ![o] = Excess(news[o], skip[o])]
    /\ news' = [news EXCEPT ![o] = 0]
    /\ UNCHANGED <<step, callVars, signVars, lag, returned, place, reorgs, histVars>>

(* A poll that fails is an item too: it is skipped or ends the wait. *)
PollFails(o) ==
    /\ step[o] = "streaming" /\ buffer[o] = 0
    /\ IF skip[o] = 0
         THEN Ends(o)
         ELSE /\ skip' = [skip EXCEPT ![o] = @ - 1]
              /\ UNCHANGED <<step, callVars, signVars, buffer, lag, returned, nodeVars, histVars>>

NextItem(o) ==
    /\ buffer[o] > 0 /\ Goes(o, "streaming", "checking")
    /\ buffer' = [buffer EXCEPT ![o] = @ - 1]
    /\ UNCHANGED <<callVars, signVars, skip, lag, returned, nodeVars, histVars>>

(* transaction_receipt_block_number_check: no receipt, or a receipt without a
   block, waits for the next item. *)
Check(o) ==
    /\ step[o] = "checking"
    /\ IF o \in Mined
         THEN /\ step' = [step EXCEPT ![o] = "heading"]
              /\ lag' = [lag EXCEPT ![o] = place[o]]
              /\ disturbed' = [disturbed EXCEPT ![o] = FALSE]
         ELSE /\ step' = [step EXCEPT ![o] = "streaming"]
              /\ UNCHANGED <<lag, disturbed>>
    /\ UNCHANGED <<callVars, signVars, skip, buffer, returned, nodeVars, before>>

(* required_block <= block_number.  Mutant: the block itself counts for a
   confirmation. *)
CountsOwnBlock(o) == lag[o] + 1 >= confirmations[o]
Enough(o)         == lag[o] >= confirmations[o]

BlockNumber(o) ==
    /\ Goes(o, "heading", IF Enough(o) THEN "final" ELSE "streaming")
    /\ lag' = [lag EXCEPT ![o] = 0]
    /\ disturbed' = [disturbed EXCEPT ![o] = @ /\ Enough(o)]
    /\ buffer' = [buffer EXCEPT ![o] = IF Enough(o) THEN 0 ELSE @]
    /\ UNCHANGED <<callVars, signVars, skip, returned, nodeVars, before>>

(* What a receipt means: a deployment fails if it has status 0 or no address,
   and a transaction still in the pool may have none yet. *)
ReceiptOutcomes(o) == IF Runs(o).deploys \/ place[o] = InPool
                        THEN {"done", "over"} ELSE {"done"}

(* The receipt is read again and handed out; without one the operation
   fails. *)
FinalReceipt(o) ==
    /\ step[o] = "final"
    /\ \E to \in ReceiptOutcomes(o) : step' = [step EXCEPT ![o] = to]
    /\ returned' = [returned EXCEPT ![o] = place[o]]
    /\ UNCHANGED <<callVars, signVars, streamVars, nodeVars, histVars>>

ClientStep(o) == \/ Start(o) \/ AnswerParam(o) \/ Sign(o) \/ RemoteSign(o) \/ Send(o)
                 \/ CreateFilter(o) \/ Poll(o) \/ PollFails(o) \/ NextItem(o)
                 \/ Check(o) \/ BlockNumber(o) \/ FinalReceipt(o)

-----------------------------------------------------------------------------
(* The node: blocks follow one another, now and then on another branch. *)

(* The chain holds one transaction for each nonce, in order. *)
Valid(p) ==
    LET M == {o \in Op : p[o] \in 0 .. Deep}
    IN  /\ {nonce[o] : o \in M} = 0 .. Cardinality(M) - 1
        /\ \A o, q \in M : nonce[o] < nonce[q] => p[o] >= p[q]

HeadMoves ==
    /\ news' = [o \in Op |-> IF step[o] \in {"streaming", "checking", "heading"}
                              THEN UpTo(news[o] + 1) ELSE 0]
    /\ lag' = [o \in Op |-> IF step[o] = "heading" THEN UpTo(lag[o] + 1) ELSE lag[o]]
    /\ UNCHANGED <<callVars, signVars, skip, buffer, returned, step>>

Deeper(o) == IF o \in Mined THEN UpTo(place[o] + 1) ELSE place[o]

Mine(S) ==
    /\ S \subseteq {o \in Op : place[o] = InPool}
    /\ place' = [o \in Op |-> IF o \in S THEN 0 ELSE Deeper(o)]
    /\ Valid(place') /\ HeadMoves
    /\ UNCHANGED <<reorgs, histVars>>

(* The blocks above depth d are replaced by one more on another branch: a
   transaction they held is included again, or is back in the pool. *)
Reorg(d) ==
    /\ reorgs < MaxReorgs /\ reorgs' = reorgs + 1
    /\ LET Moved == {o \in Mined : place[o] < d}
       IN  /\ place' \in {[o \in Op |-> IF o \in Moved THEN p[o] ELSE Deeper(o)]
                            : p \in [Moved -> {InPool} \cup (0 .. d)]}
           /\ disturbed' = [o \in Op |-> \/ disturbed[o]
                                         \/ o \in Moved /\ step[o] \in {"heading", "final"}]
           /\ before' = [o \in Op |-> before[o] \ Moved]
    /\ Valid(place') /\ HeadMoves

NodeStep == \/ \E S \in SUBSET Op : Mine(S)
            \/ \E d \in 1 .. Deep : Reorg(d)

Next == \/ \E o \in Op : ClientStep(o) \/ Fails(o) \/ Drop(o)
        \/ NodeStep

Spec == Init /\ [][Next]_vars

(* The runtime polls each future that was started, and the node answers each
   call; the chain grows, and takes each transaction it can take. *)
Fairness == /\ \A o \in Op : WF_vars(step[o] # "idle" /\ ClientStep(o))
            /\ WF_vars(Mine({}))
            /\ \A o \in Op : WF_vars(\E S \in SUBSET Op : o \in S /\ Mine(S))
LiveSpec == Spec /\ Fairness

-----------------------------------------------------------------------------
(* An operation that waited for confirmations hands out a receipt with that
   many blocks on top, unless the chain was reorganised between its readings
   of the receipt. *)
ConfirmedEnough ==
    \A o \in Op : step[o] = "done" /\ confirmations[o] > 0 /\ ~disturbed[o]
                  => returned[o] >= confirmations[o]

(* A transaction signed after another of the account was confirmed never has
   the nonce of the other, if its caller does not set the nonce and no
   reorganisation takes the other out of the chain again. *)
NonceFresh ==
    \A o \in Op : \A p \in before[o] :
        "nonce" \notin options[o] /\ nonce[o] # NoNonce => nonce[o] # nonce[p]

(* A transaction that can never be mined: another has its nonce, or it leaves
   a nonce out that nobody uses. *)
Hopeless(o) ==
    /\ place[o] = InPool
    /\ \/ \E p \in Mined : nonce[p] = nonce[o]
       \/ \E n \in 0 .. nonce[o] - 1 : \A p \in Known : nonce[p] # n

(* Every operation ends: a wait outlives empty polls, failed polls and
   reorganisations, and lasts only for a transaction without hope. *)
EveryWaitEnds ==
    \A o \in Op : (step[o] # "idle" ~> step[o] \in Ended \/ Hopeless(o))

(* The options a caller can expect in the transaction: all of them if the node
   signs, those the type it set has a place for if the library does. *)
Expected(o) == options[o] \cap (IF Runs(o).first = "asking" THEN EnvelopeFields(type[o]) ELSE Field)

(* What the caller sets in its options is in the transaction the node gets. *)
OptionsCarried ==
    \A o \in Known : \A f \in Expected(o) : OriginOf(carried[o], f) = f

(* What is signed locally names its price: that of the node only if the caller
   set none, and the priority fee is its own or the price. *)
Priced(o) ==
    LET fields == carried[o]
        price == IF "gas_price" \in DOMAIN fields THEN fields["gas_price"]
                 ELSE OriginOf(fields, "max_fee_per_gas")
    IN  /\ price # "default" /\ ("gas_price" \in options[o] => price # "node")
        /\ "max_priority_fee_per_gas" \in DOMAIN fields
             => fields["max_priority_fee_per_gas"] \in {price, "max_priority_fee_per_gas"}

(* On every path but signed_call each option expected is in the transaction
   under its own name, whatever was asked of the node before the signature;
   signed_call keeps four.  No transaction is signed without a price. *)
OptionsKept ==
    \A o \in Known :
        /\ \A f \in Expected(o) \cap Runs(o).copies : OriginOf(carried[o], f) = f
        /\ kind[o] # "signed_call" => Expected(o) \subseteq Runs(o).copies
        /\ Runs(o).first = "asking" => Priced(o)
=============================================================================
