--------------------------- MODULE MCTransactions ---------------------------
(* Instances of Transactions: two operations of one account next to each
   other, or one alone, along any path with any options. *)
EXTENDS Transactions

CONSTANT first

AllKinds == [o \in Op |-> IF o = first THEN DOMAIN Path ELSE {"signed_call", "sign_and_execute"}]
OneKind  == [o \in Op |-> DOMAIN Path]

AllOptions == {{}, {"nonce"}, {"gas", "value"}, {"gas_price", "access_list"},
               {"transaction_type", "max_fee_per_gas", "max_priority_fee_per_gas"}, Field}
FeeOptions == AllOptions \cup SUBSET {"gas_price", "transaction_type", "access_list",
                                     "max_fee_per_gas", "max_priority_fee_per_gas"}

(* An operation with options runs alone and waits for no confirmations, on a
   chain with one branch: what the others do does not reach its options. *)
Alone == options[first] # {}
MCInit ==
    /\ Init
    /\ \A o \in Op \ {first} : options[o] = {}
    /\ IF Alone THEN \A o \in Op : confirmations[o] = 0
                ELSE kind[first] = "signed_call_with_confirmations"
MCNext == \/ \E o \in Op : (Alone => o = first) /\ (ClientStep(o) \/ Fails(o) \/ Drop(o))
          \/ \E S \in SUBSET Op : Mine(S)
          \/ ~Alone /\ \E d \in 1 .. Deep : Reorg(d)
MCSpec == MCInit /\ [][MCNext]_vars /\ Fairness
=============================================================================
