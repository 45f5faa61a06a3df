------------------------------- MODULE MCHttp -------------------------------
(* A call with every wish and a batch of two with the simplest. *)
EXTENDS HttpClient, TLC

MCSize == [c \in Call |-> IF c = "a" THEN 1 ELSE 2]

Bytes == UNION {[1 .. n -> {7}] : n \in 0 .. 3}
I == Signed(3)
U == Unsigned(7)
Scalars == {I, U, Unsigned(Word - 1), Plain("String"), Plain("Bytes"), Plain("Address"),
            Plain("Bool"), FixedBytes(2), ByteVec}
MCTypes == Scalars \cup {VecOf(I), VecOf(VecOf(I)), VecOf(Plain("String")), ArrayOf(I, 2), ArrayOf(U, 0)}

(* A token or a value from its root and those of its items. *)
Tree(root, items) ==
    [p \in {<<>>} \cup UNION {{<<k>> \o q : q \in DOMAIN items[k]} : k \in DOMAIN items} |->
        IF p = <<>> THEN root ELSE items[Head(p)][Tail(p)]]
Leaf(root)  == Tree(root, <<>>)
AnInt(bits)   == Leaf(IntNode("Int", bits))
List(items) == Tree(Len(items), [k \in DOMAIN items |-> Leaf(items[k])])

Ints == {Leaf(IntNode(tag, bits)) : tag \in {"Int", "Uint"}, bits \in 0 .. Word - 1}
Plains == {Leaf(PlainNode(tag, b)) : tag \in PlainTags \cup {"FixedBytes"}, b \in Bytes}
Items == {AnInt(3), AnInt(Word - 4), AnInt(4), Leaf(PlainNode("String", <<>>))}
Lists(items) == {Tree(ListNode(tag, Len(s)), s) : tag \in ListTags,
                                                  s \in UNION {[1 .. n -> items] : n \in 0 .. 2}}
Nested == Lists({Tree(ListNode("Array", 1), <<AnInt(Word - 1)>>)})

(* One output of any type, and a pair of them. *)
MCToken == {<<t>> : t \in Ints \cup Plains \cup Lists(Items) \cup Nested}
           \cup {<<>>} \cup {<<t, s>> : t \in {AnInt(3), AnInt(4)}, s \in Lists({AnInt(Word - 4)})}
Singles == {<<type>> : type \in MCTypes}

MCLogs == LET logs == {<<Leaf(IntNode(tag, bits))>> : tag \in {"Int", "Uint"}, bits \in {3, Word - 1}} \cup {<<>>}
          IN  UNION {[1 .. n -> logs] : n \in 0 .. 2}

(* Objects and arrays with the three blocks, under either spelling. *)
Zero == Quantity(0, 2)
Starting == "startingBlock" :> Zero @@ "currentBlock" :> Hex(1, 9) @@ "highestBlock" :> Hex(2, 31)
Importing == "StartingBlock" :> Hex(2, 0) @@ "CurrentBlock" :> Hex(1, 4) @@ "HighestBlock" :> Hex(2, 255)
InOrder == JsonArray(<<Zero, Hex(1, 9), Hex(2, 31)>>)
Infos == {Object(Starting), Object("knownStates" :> Hex(2, 19) @@ Starting), Object(Importing), InOrder,
          Object("highestBlock" :> JsonNumber(31) @@ Starting), Object("currentBlock" :> Hex(0, 0) @@ Starting),
          Object("currentBlock" :> Hex(3, 256) @@ Starting), Object("startingBlock" :> Zero),
          Object("syncing" :> JsonBool(FALSE) @@ Starting)}
Statuses == {JsonNull, Object(Importing), Object("PulledStates" :> Zero @@ Importing), InOrder, Text("none"),
             Object(Starting)}
Notifications ==
    {Object("syncing" :> JsonBool(b) @@ "status" :> t) : b \in BOOLEAN, t \in Statuses}
    \cup {JsonArray(<<JsonBool(b), t>>) : b \in BOOLEAN, t \in Statuses}
    \cup {Object("syncing" :> t) : t \in {JsonBool(TRUE), JsonBool(FALSE), JsonNumber(0)}}

H == Hash(7)
MCJson ==
    [block_number |-> {Text("latest"), Text("newest"), Hex(0, 0), Hex(1, 0), Hex(1, 15), Hex(2, 5), Hash(16),
                       JsonNumber(1)},
     bytes |-> {Text("none"), Hex(0, 0), Hex(1, 3), Hex(2, 7), JsonNull},
     work |-> {JsonArray(s) : s \in {<<>>, <<H, H>>, <<H, Hash(3), H>>, <<H, Hex(1, 7), H>>,
                                     <<H, H, JsonNumber(1)>>, <<H, H, Hash(3), JsonNumber(0)>>,
                                     <<H, H, H, JsonNumber(15)>>, <<H, H, H, JsonNumber(16)>>,
                                     <<H, H, H, JsonNumber(-1)>>, <<H, H, H, Hex(1, 1)>>,
                                     <<H, H, H, JsonNumber(1), H>>}} \cup {JsonBool(TRUE)},
     sync_state |-> Infos \cup Notifications
                    \cup {JsonBool(TRUE), JsonBool(FALSE), JsonNull, JsonArray(<<>>), Zero}]

Signers == [secret : {TRUE}, parity : {0, 1}]
           \cup [secret : {FALSE}, v : {0, 1, 2, 27, 28, 29, 35, 36, 38, 39}, valid : BOOLEAN]
SignWishes ==
    [want : {"transaction"}, type : Legacy \cup Typed \cup {"unknown"}, chain : 0 .. 3, signer : Signers]
    \cup [want : {"message"}, signer : Signers]

MCTurns == [c \in Call |-> IF c = "a" THEN [b \in DOMAIN Fields |-> IF b = "filter" THEN 3 ELSE 2]
                           ELSE [b \in {} |-> 0]]

Leaves(atoms) == {Leaf(a) : a \in atoms}
Echoes == <<EchoWishes(I, Leaves(-4 .. 3)), EchoWishes(U, Leaves(0 .. 7)),
            EchoWishes(FixedBytes(2), {Leaf(<<7, 7>>)}), EchoWishes(ByteVec, Leaves(Bytes)),
            EchoWishes(VecOf(I), {List(<<>>), List(<<-4, 3>>)}),
            EchoWishes(ArrayOf(I, 2), {List(<<-1, 2>>)})>>

Converts == <<FormWishes("block_number", {Tagged(t) : t \in Tags}),
              FormWishes("block_number", {Numbered(0), Numbered(MaxNumber)}),
              FormWishes("bytes", [length : 0 .. 2, number : {0, 7}]),
              FormWishes("work", {<<1, 2, 3>>, <<1, 2, 255, 0>>}),
              FormWishes("sync_state", {<<>>, <<0, 15, 16>>, <<1, 1, 255>>}),
              FormWishes("call_request", {[f \in CallFields |-> IF f \in S THEN 1 ELSE 0] :
                                          S \in SUBSET {"from", "gas", "data", "max_fee_per_gas"}}),
              JsonWishes(DOMAIN MCJson)>>

MCWish ==
    [c \in Call |->
       IF c = "a" THEN <<MethodWishes, EventWishes({<<I>>}),
                         OutputWishes(Singles \cup {<<I, VecOf(I)>>}), SignWishes>>
                       \o Echoes \o Converts
       ELSE <<{[want |-> "json", form |-> "bytes"]}>>]
=============================================================================
