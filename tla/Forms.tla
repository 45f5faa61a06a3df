------------------------------- MODULE Forms -------------------------------
(* The builders of request types, and the JSON forms of the types that have
   conversions of their own.  A setter gives its field the number of its turn;
   0 is None.  A hexadecimal string is its number of digits and the number
   they write.  *)
EXTENDS Integers, Sequences, FiniteSets, Results

CONSTANTS
    U64Digits,    \* the digits of a U64: 16
    U256Digits    \* the digits of a U256, and of an H256: 64

ASSUME FormsAssumption == U64Digits \in Nat \ {0} /\ U256Digits \in Nat \ {0}

MaxNumber == 16 ^ U64Digits - 1

-----------------------------------------------------------------------------
(* The builders: the fields of what they build, and their setters. *)
FilterFields  == {"from_block", "to_block", "block_hash", "address", "limit"}
TraceFields   == {"from_block", "to_block", "from_address", "to_address", "after", "count"}
MaximumFees   == {"max_fee_per_gas", "max_priority_fee_per_gas"}
CallFields    == {"from", "to", "gas", "gas_price", "value", "data", "transaction_type",
                  "access_list"} \cup MaximumFees
RequestFields == CallFields \cup {"nonce", "condition"}
PendingFields == {"from", "to", "gas", "gas_price", "value", "nonce"}

Fields == [filter |-> FilterFields, trace_filter |-> TraceFields, call_request |-> CallFields,
           transaction_request |-> RequestFields, pending_filter |-> PendingFields]
Setters == [Fields EXCEPT !.call_request = @ \ MaximumFees,
                          !.transaction_request = @ \ ({"gas_price"} \cup MaximumFees)]

(* A log filter is by block hash or by range: the setters of one clear the
   other.  Mutant: the hash stays next to a range. *)
HashStays(builder, f) ==
    IF builder = "filter" /\ f = "block_hash" THEN {"from_block", "to_block"} ELSE {}
Clears(builder, f) ==
    CASE builder # "filter" \/ f \in {"address", "limit"} -> {}
      [] builder = "filter" /\ f = "block_hash" -> {"from_block", "to_block"}
      [] builder = "filter" /\ f \in {"from_block", "to_block"} -> {"block_hash"}

Blank(builder) == [f \in Fields[builder] |-> 0]

Set(builder, built, f, turn) ==
    [g \in DOMAIN built |-> IF g = f THEN turn ELSE IF g \in Clears(builder, f) THEN 0 ELSE built[g]]

(* TransactionParameters from a CallRequest and back: the sender, and on the
   way back the nonce and the chain id, have no place; gas, value and data get
   their defaults. *)
CommonFields == CallFields \ {"from"}
DefaultOf    == [f \in {"gas", "value", "data"} |-> MaxNumber]
ParametersOf(call) ==
    [f \in CommonFields \cup {"nonce", "chain_id"} |->
        IF f \notin CallFields THEN 0
        ELSE IF call[f] = 0 /\ f \in DOMAIN DefaultOf THEN DefaultOf[f] ELSE call[f]]
CallOf(parameters) == [f \in CallFields |-> IF f \in CommonFields THEN parameters[f] ELSE 0]

-----------------------------------------------------------------------------
(* JSON. *)
JsonNull      == [json |-> "null"]
JsonBool(b)   == [json |-> "bool", bool |-> b]
JsonNumber(n) == [json |-> "number", number |-> n]
Text(t)       == [json |-> "text", text |-> t]    \* a string that is not hexadecimal
Hex(d, n)     == [json |-> "hex", digits |-> d, number |-> n]   \* 0x and d digits
JsonArray(a)  == [json |-> "array", items |-> a]
Object(m)     == [json |-> "object", members |-> m]

(* A number is written without leading zeros, in at most as many digits as its
   type has; a U256 is read with at least one, and an H256 has them all. *)
Length(n, width)   == 1 + Cardinality({d \in 1 .. width - 1 : 16 ^ d <= n})
Quantity(n, width) == Hex(Length(n, width), n)
Hash(n)   == Hex(U256Digits, n)
IsU256(j) == j.json = "hex" /\ j.digits \in 1 .. U256Digits
IsHash(j) == j.json = "hex" /\ j.digits = U256Digits

(* A derived reader finds the fields of a struct in an object, whatever else
   is in it, or in an array of just these. *)
HasAll(names, j) ==
    \/ j.json = "object" /\ \A k \in DOMAIN names : names[k] \in DOMAIN j.members
    \/ j.json = "array" /\ Len(j.items) = Len(names)
FieldAt(names, j, k) == IF j.json = "object" THEN j.members[names[k]] ELSE j.items[k]

-----------------------------------------------------------------------------
(* The JSON forms. *)
Tags == {"latest", "earliest", "pending", "finalized", "safe"}
Tagged(t)   == [tag |-> t]
Numbered(n) == [number |-> n]

BlockNumberTo(b) == IF "tag" \in DOMAIN b THEN Text(b.tag) ELSE Quantity(b.number, U64Digits)
BlockNumberFrom(j) ==
    CASE j.json = "text" /\ j.text \in Tags -> Ok(Tagged(j.text))
      [] j.json = "hex" /\ j.digits <= U64Digits -> Ok(Numbered(j.number))
      [] OTHER -> Fails

(* Bytes: their length and what they write, two digits for each. *)
BytesTo(b) == Hex(2 * b.length, b.number)
BytesFrom(j) ==
    IF j.json = "hex" /\ j.digits % 2 = 0
      THEN Ok([length |-> j.digits \div 2, number |-> j.number]) ELSE Fails

(* Work: three hashes and, if it is there, the number of the block, which is
   written as a quantity and read as a JSON number. *)
WorkTo(work) == JsonArray([k \in DOMAIN work |-> IF k <= 3 THEN Hash(work[k])
                                                 ELSE Quantity(work[k], U256Digits)])
WorkFrom(j) ==
    IF /\ j.json = "array" /\ Len(j.items) \in {3, 4}
       /\ \A k \in 1 .. 3 : IsHash(j.items[k])
       /\ Len(j.items) = 4 => j.items[4].json = "number" /\ j.items[4].number \in 0 .. MaxNumber
      THEN Ok([k \in DOMAIN j.items |-> j.items[k].number]) ELSE Fails

(* SyncState: <<>>, or where the import started, where it is and how far it
   has to go.  eth_syncing answers false or these three; a notification has a
   flag and, if it is set, the three under other names. *)
InfoNames   == <<"startingBlock", "currentBlock", "highestBlock">>
StatusNames == <<"StartingBlock", "CurrentBlock", "HighestBlock">>

(* Mutant: a member of another name is refused. *)
InfoAlone(names, j) ==
    IF /\ HasAll(names, j) /\ \A k \in DOMAIN names : IsU256(FieldAt(names, j, k))
       /\ j.json = "object" => Cardinality(DOMAIN j.members) = Len(names)
      THEN Ok([k \in DOMAIN names |-> FieldAt(names, j, k).number]) ELSE Fails
Info(names, j) ==
    IF HasAll(names, j) /\ \A k \in DOMAIN names : IsU256(FieldAt(names, j, k))
      THEN Ok([k \in DOMAIN names |-> FieldAt(names, j, k).number]) ELSE Fails

(* The flag and the status of a notification; a status may be missing. *)
Flag(j) == IF j.json = "object" /\ "syncing" \in DOMAIN j.members THEN j.members["syncing"]
           ELSE IF j.json = "array" /\ Len(j.items) = 2 THEN j.items[1] ELSE JsonNull
StatusOf(j) == IF j.json = "array" THEN j.items[2]
               ELSE IF "status" \in DOMAIN j.members THEN j.members["status"] ELSE JsonNull
Status(j) == IF StatusOf(j) = JsonNull THEN Ok(<<>>) ELSE Info(StatusNames, StatusOf(j))

SyncStateTo(state) ==
    IF state = <<>> THEN JsonBool(FALSE)
    ELSE Object([startingBlock |-> Quantity(state[1], U256Digits),
                 currentBlock  |-> Quantity(state[2], U256Digits),
                 highestBlock  |-> Quantity(state[3], U256Digits)])
SyncStateFrom(j) ==
    CASE Info(InfoNames, j).ok -> Info(InfoNames, j)
      [] ~Info(InfoNames, j).ok /\ Flag(j).json = "bool" ->
            IF Status(j).ok /\ (Flag(j).bool <=> Status(j).value # <<>>) THEN Status(j) ELSE Fails
      [] OTHER -> IF j = JsonBool(FALSE) THEN Ok(<<>>) ELSE Fails

(* One form for each type; a call request passes through the parameters of a
   local signature. *)
To(form, value) ==
    CASE form = "block_number" -> BlockNumberTo(value)
      [] form = "bytes" -> BytesTo(value)
      [] form = "work" -> WorkTo(value)
      [] form = "sync_state" -> SyncStateTo(value)
      [] form = "call_request" -> ParametersOf(value)

From(form, json) ==
    CASE form = "block_number" -> BlockNumberFrom(json)
      [] form = "bytes" -> BytesFrom(json)
      [] form = "work" -> WorkFrom(json)
      [] form = "sync_state" -> SyncStateFrom(json)
      [] form = "call_request" -> Ok(CallOf(json))

-----------------------------------------------------------------------------
(* The values that have a form, and the JSON values a node may say where one
   is read: of any content, and nested as deep as any of these readers looks. *)
FormValues ==
    [block_number |-> [tag : Tags] \cup [number : 0 .. MaxNumber],
     bytes        |-> [length : Nat, number : Nat],
     work         |-> [1 .. 3 -> Nat] \cup [1 .. 4 -> Nat],
     sync_state   |-> {<<>>} \cup [1 .. 3 -> Nat],
     call_request |-> [CallFields -> Nat]]

JsonForms == {"block_number", "bytes", "work", "sync_state"}
JsonScalars ==
    {JsonNull} \cup [json : {"bool"}, bool : BOOLEAN] \cup [json : {"number"}, number : Int]
    \cup [json : {"text"}, text : STRING] \cup [json : {"hex"}, digits : Nat, number : Nat]
IsFlat(j) ==
    \/ j \in JsonScalars
    \/ j.json = "array" /\ j.items \in Seq(JsonScalars)
    \/ j.json = "object" /\ \A k \in DOMAIN j.members : j.members[k] \in JsonScalars
IsJson(j) ==
    \/ IsFlat(j)
    \/ /\ j.json = "array" /\ DOMAIN j.items = 1 .. Len(j.items)
       /\ \A k \in DOMAIN j.items : IsFlat(j.items[k])
    \/ j.json = "object" /\ \A k \in DOMAIN j.members : IsFlat(j.members[k])
=============================================================================
