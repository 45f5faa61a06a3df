----------------------------- MODULE Signatures -----------------------------
(* Signing transactions and messages, the envelopes that are signed, and the
   recovery of the signer.  A hash is the list of fields hashed; of a signature
   only the recovery value v and whether its scalars are in range are kept.
   The parity is what the curve says of a signature and v has to encode. *)
EXTENDS Naturals, Sequences

CONSTANT MaxU64   \* odd, as 2^64 - 1 is

ASSUME SignaturesAssumption == MaxU64 \in Nat /\ MaxU64 > 36

Signature(v, valid) == [ok |-> TRUE, v |-> v, valid |-> valid]
NoSignature         == [ok |-> FALSE]

Legacy == {"none", "legacy"}     \* the transaction types of EIP-155
Typed  == {"access_list", "eip1559"}

-----------------------------------------------------------------------------
(* The fields of an envelope, and the length its RLP list declares. *)
Body == <<"to", "value", "data">>

EncodeLegacy(signature) ==
    [declared |-> 9,
     fields |-> <<"nonce", "gas_price", "gas">> \o Body
                \o (IF signature.ok THEN <<"v", "r", "s">> ELSE <<"chain_id", "0", "0">>)]

EncodeAccessList(signature) ==
    [declared |-> IF signature.ok THEN 11 ELSE 8,
     fields |-> <<"chain_id", "nonce", "gas_price", "gas">> \o Body \o <<"access_list">>
                \o (IF signature.ok THEN <<"v", "r", "s">> ELSE <<>>)]

EncodeEip1559(signature) ==
    [declared |-> IF signature.ok THEN 12 ELSE 9,
     fields |-> <<"chain_id", "nonce", "max_priority_fee_per_gas", "gas_price", "gas">> \o Body
                \o <<"access_list">> \o (IF signature.ok THEN <<"v", "r", "s">> ELSE <<>>)]

Encode(type, signature) ==
    CASE type \in Legacy -> EncodeLegacy(signature)
      [] type = "access_list" -> EncodeAccessList(signature)
      [] type = "eip1559" -> EncodeEip1559(signature)

-----------------------------------------------------------------------------
(* Key::sign and Key::sign_message of a secret key: every addition is checked.
   Another Key may return any v and any scalars. *)
ReplayProtected(chain, parity) == 2 * chain + 35 + parity

SecretKeySigns(chain, parity) ==
    IF ReplayProtected(chain, parity) > MaxU64 THEN NoSignature
    ELSE Signature(ReplayProtected(chain, parity), TRUE)

Signer == [secret : {TRUE}, parity : {0, 1}] \cup [secret : {FALSE}, v : Nat, valid : BOOLEAN]

Key(signer, secret) == IF signer.secret THEN secret ELSE Signature(signer.v, signer.valid)

(* Transaction::sign: the v of the signature must be one of the two that the
   type and the chain allow. *)
Allowed(type, chain) ==
    IF type \in Legacy THEN {ReplayProtected(chain, 0), ReplayProtected(chain, 1)} \cap (0 .. MaxU64)
    ELSE {0, 1}

SignTransaction(type, chain, signer) ==
    LET signature == Key(signer, IF type \in Legacy THEN SecretKeySigns(chain, signer.parity)
                                 ELSE Signature(signer.parity, TRUE))
    IN  IF /\ type \in Legacy \cup Typed
           /\ type \in Legacy => ReplayProtected(chain, 0) <= MaxU64
           /\ signature.ok /\ signature.v \in Allowed(type, chain) /\ signature.valid
          THEN signature ELSE NoSignature

(* Accounts::sign: Electrum notation. *)
SignMessage(signer) ==
    LET signature == Key(signer, Signature(27 + signer.parity, TRUE))
    IN  IF signature.v \in {27, 28} /\ signature.valid THEN signature ELSE NoSignature

(* Recovery::recovery_id; 4 is none.  Mutant: the parity of a protected v is
   taken as it is, although 35 is odd. *)
RecoveryIdAsParity(v) == IF v \in {27, 28} THEN v - 27 ELSE IF v >= 35 THEN v % 2 ELSE 4
RecoveryId(v) ==
    IF v \in {27, 28} THEN v - 27 ELSE IF v >= 35 THEN IF v % 2 = 0 THEN 1 ELSE 0 ELSE 4
=============================================================================
