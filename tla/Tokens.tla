------------------------------- MODULE Tokens -------------------------------
(* ABI tokens and the Rust values they become and come from (contract/tokens.rs).
   An integer token is a word, whatever its declared size; Int holds a negative
   number in two's complement.  Every other token holds its bytes, or a list of
   tokens.  Types are data: a scalar type inside any number of lists, the
   outermost first.
     A token is kept as the function from its positions to its nodes: the
   token itself is at <<>>, item k of the list at p is at Append(p, k).  So is
   a value, with its scalars and the lengths of its lists: as a conversion
   fails if that of one item fails, a token is converted node by node. *)
EXTENDS Integers, Sequences, Results

CONSTANT Word   \* 2^256

ASSUME TokensAssumption == Word \in Nat /\ Word % 2 = 0

IntNode(tag, bits)    == [tag |-> tag, bits |-> bits]         \* Int, Uint
PlainNode(tag, bytes) == [tag |-> tag, bytes |-> bytes]       \* String, Bytes, FixedBytes, Address, Bool
ListNode(tag, length) == [tag |-> tag, length |-> length]     \* Array, FixedArray

Scalar(kind)   == [leaf |-> kind, nest |-> <<>>]
Signed(max)    == Scalar([kind |-> "signed", max |-> max])    \* i8 .. i128
Unsigned(max)  == Scalar([kind |-> "unsigned", max |-> max])  \* u8 .. u128, U128, U256
Plain(tag)     == Scalar([kind |-> "plain", tag |-> tag])     \* String, Bytes, Address, bool
FixedBytes(n)  == Scalar([kind |-> "fixed", length |-> n])    \* [u8; n], H256
ByteVec        == Scalar([kind |-> "bytes"])                  \* Vec<u8>
ListOf(kind, type) == [type EXCEPT !.nest = <<kind>> \o @]
VecOf(type)        == ListOf([kind |-> "vec"], type)                   \* Vec<T>, BytesArray
ArrayOf(type, n)   == ListOf([kind |-> "array", length |-> n], type)   \* [T; n]

(* What a type expects at a position. *)
At(type, p) == IF Len(p) < Len(type.nest) THEN type.nest[Len(p) + 1] ELSE type.leaf

-----------------------------------------------------------------------------
(* signed_int_tokenizable: from_token.  The magnitude of a negative number is
   its complement plus one, and may be one more than the greatest value.
   Mutant: without the one. *)
FromComplement(kind, node) ==
    LET magnitude == (Word - 1) - node.bits
    IN  IF node.tag = "Int" /\ node.bits >= Word \div 2
          THEN IF magnitude > kind.max + 1 THEN Fails ELSE Ok(-magnitude)
          ELSE IF node.bits > kind.max THEN Fails ELSE Ok(node.bits)
FromSigned(kind, node) ==
    LET magnitude == (Word - 1) - node.bits + 1
    IN  IF node.tag = "Int" /\ node.bits >= Word \div 2
          THEN IF magnitude > kind.max + 1 THEN Fails ELSE Ok(-magnitude)
          ELSE IF node.bits > kind.max THEN Fails ELSE Ok(node.bits)

(* unsigned_int_tokenizable, eth_uint_tokenizable: the word must fit. *)
FromUnsigned(kind, node) == IF node.bits > kind.max THEN Fails ELSE Ok(node.bits)

Accepts(kind) ==
    CASE kind.kind \in {"signed", "unsigned"} -> {"Int", "Uint"}
      [] kind.kind = "plain" -> {kind.tag}
      [] kind.kind = "fixed" -> {"FixedBytes"}
      [] kind.kind = "bytes" -> {"Bytes", "FixedBytes"}
      [] kind.kind = "vec"   -> {"Array", "FixedArray"}
      [] kind.kind = "array" -> {"FixedArray"}

(* A length that is the one of a fixed type. *)
Exactly(kind, length) == kind.kind \in {"fixed", "array"} => length = kind.length

FromNode(kind, node) ==
    IF node.tag \notin Accepts(kind) THEN Fails
    ELSE CASE kind.kind = "signed"   -> FromSigned(kind, node)
           [] kind.kind = "unsigned" -> FromUnsigned(kind, node)
           [] kind.kind \in {"plain", "bytes", "fixed"} ->
                 IF Exactly(kind, Len(node.bytes)) THEN Ok(node.bytes) ELSE Fails
           [] kind.kind \in {"vec", "array"} ->
                 IF Exactly(kind, node.length) THEN Ok(node.length) ELSE Fails

FromToken(type, token) == Collect([p \in DOMAIN token |-> FromNode(At(type, p), token[p])])

(* A negative integer is subtracted from zero modulo the word. *)
IntoNode(kind, atom) ==
    CASE kind.kind = "signed"   -> IntNode("Int", IF atom < 0 THEN Word + atom ELSE atom)
      [] kind.kind = "unsigned" -> IntNode("Uint", atom)
      [] kind.kind = "plain" -> PlainNode(kind.tag, atom)
      [] kind.kind = "fixed" -> PlainNode("FixedBytes", atom)
      [] kind.kind = "bytes" -> PlainNode("Bytes", atom)
      [] kind.kind = "vec"   -> ListNode("Array", atom)
      [] kind.kind = "array" -> ListNode("FixedArray", atom)

IntoToken(type, value) == [p \in DOMAIN value |-> IntoNode(At(type, p), value[p])]

(* Detokenize and Tokenize: as many tokens as there are values. *)
FromTokens(types, tokens) ==
    IF Len(tokens) # Len(types) THEN Fails
    ELSE Collect([k \in DOMAIN types |-> FromToken(types[k], tokens[k])])

IntoTokens(types, values) == [k \in DOMAIN types |-> IntoToken(types[k], values[k])]

-----------------------------------------------------------------------------
(* The types, the tokens and the values of a type. *)
PlainTags == {"String", "Bytes", "Address", "Bool"}
ListTags  == {"Array", "FixedArray"}

ScalarKinds ==
    [kind : {"signed"}, max : 0 .. (Word \div 2) - 1]
    \cup [kind : {"unsigned"}, max : (0 .. (Word \div 2) - 1) \cup {Word - 1}]
    \cup [kind : {"plain"}, tag : PlainTags]
    \cup [kind : {"fixed"}, length : Nat] \cup [kind : {"bytes"}]
ListKinds == [kind : {"vec"}] \cup [kind : {"array"}, length : Nat]
Types     == [leaf : ScalarKinds, nest : Seq(ListKinds)]

Nodes ==
    [tag : {"Int", "Uint"}, bits : 0 .. Word - 1]
    \cup [tag : PlainTags \cup {"FixedBytes"}, bytes : Seq(Nat)]
    \cup [tag : ListTags, length : Nat]

Atoms(kind) ==
    CASE kind.kind = "signed"   -> -(kind.max + 1) .. kind.max
      [] kind.kind = "unsigned" -> 0 .. kind.max
      [] kind.kind \in {"plain", "bytes"} -> Seq(Nat)
      [] kind.kind = "fixed" -> {bytes \in Seq(Nat) : Len(bytes) = kind.length}
      [] kind.kind = "vec"   -> Nat
      [] kind.kind = "array" -> {kind.length}

(* Below the root are the items of every list, and nothing else. *)
Rooted(lengths) ==
    DOMAIN lengths =
        {<<>>} \cup UNION {{Append(p, k) : k \in 1 .. lengths[p]} : p \in DOMAIN lengths}

IsToken(token) ==
    /\ \A p \in DOMAIN token : p \in Seq(Nat) /\ token[p] \in Nodes
    /\ Rooted([p \in DOMAIN token |-> IF token[p].tag \in ListTags THEN token[p].length ELSE 0])

IsTokens(tokens) == \A k \in 1 .. Len(tokens) : IsToken(tokens[k])

IsValue(type, value) ==
    /\ value = [p \in DOMAIN value |-> value[p]]
    /\ \A p \in DOMAIN value : p \in Seq(Nat) /\ value[p] \in Atoms(At(type, p))
    /\ Rooted([p \in DOMAIN value |-> IF Len(p) < Len(type.nest) THEN value[p] ELSE 0])

IsValues(types, values) ==
    /\ values = [k \in DOMAIN types |-> values[k]]
    /\ \A k \in DOMAIN types : IsValue(types[k], values[k])

-----------------------------------------------------------------------------
(* The number a contract means by a node, and the values of a kind that say
   what a node says.  A word read as U256 is the one number that is taken
   modulo the word: a negative Int has no value of that type, and keeps its
   bits. *)
Number(node) ==
    IF node.tag = "Int" /\ node.bits >= Word \div 2 THEN node.bits - Word ELSE node.bits

Meanings(kind, node) ==
    CASE kind.kind = "signed"   -> {Number(node)}
      [] kind.kind = "unsigned" ->
            IF kind.max = Word - 1 THEN {Number(node), Number(node) + Word} ELSE {Number(node)}
      [] kind.kind \in {"plain", "bytes", "fixed"} -> {node.bytes}
      [] kind.kind \in {"vec", "array"} -> {node.length}

Sayings(kind, node) ==
    IF node.tag \notin Accepts(kind) THEN {} ELSE {m \in Meanings(kind, node) : m \in Atoms(kind)}

Says(type, value, token) ==
    /\ DOMAIN value = DOMAIN token
    /\ \A p \in DOMAIN token : value[p] \in Sayings(At(type, p), token[p])

Sayable(type, token) == \A p \in DOMAIN token : Sayings(At(type, p), token[p]) # {}

(* A list of values, for a tuple of types. *)
SaysAll(types, values, tokens) ==
    /\ Len(tokens) = Len(types) /\ DOMAIN values = DOMAIN types
    /\ \A k \in DOMAIN types : Says(types[k], values[k], tokens[k])

SayableAll(types, tokens) ==
    Len(tokens) = Len(types) /\ \A k \in DOMAIN types : Sayable(types[k], tokens[k])
=============================================================================
