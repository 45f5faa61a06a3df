----------------------------- MODULE HttpClient -----------------------------
(* Callers of the crate over the HTTP transport: what they ask for becomes a
   request, the request goes through the transport, and the result becomes a
   value.  A caller wants one of
     - a method of a namespace, with some of its optional parameters;
     - a filter, or another request, built by a sequence of setters;
     - a value in its JSON form and back, or what a node says in JSON;
     - the events with some topics, and the tokens of their logs;
     - the outputs of a contract function, or its own arguments back;
     - a transaction, or a message, signed and its signer recovered. *)
EXTENDS HttpTransport, Requests, Forms, Signatures, Tokens

CONSTANTS
    Wish,     \* Wish[c]: what the caller of c may want, a sequence of sets
    Turns,    \* Turns[c][b]: bound on the setters the caller of c uses of builder b
    Json,     \* Json[f]: what a node may say where a value of form f is read
    Token,    \* the lists of tokens a contract may return
    Logs      \* the lists of logs a node may return, each a list of tokens

(* A caller gives parameters and topics in their places, values that have a
   form or a type, and a key is a secret one or its own signer. *)
ASSUME WishAssumption ==
    \A c \in Call :
        /\ DOMAIN Turns[c] \subseteq DOMAIN Fields
        /\ \A k \in DOMAIN Wish[c] : \A w \in Wish[c][k] :
              /\ w.want \notin {"none", "build"}
              /\ w.want = "method" => w.row.params \in Seq(Parameter)
              /\ w.want = "events" => w.topics \in [1 .. 4 -> Nat \cup {AnyTopic}]
              /\ w.want = "form" => w.form \in DOMAIN FormValues /\ w.value \in FormValues[w.form]
              /\ w.want = "json" => w.form \in JsonForms /\ \A j \in Json[w.form] : IsJson(j)
              /\ w.want \in {"outputs", "events", "echo"} => w.types \in Seq(Types)
              /\ w.want = "echo" => IsValues(w.types, w.values)
              /\ w.want \in {"transaction", "message"} => w.signer \in Signer
              /\ w.want = "transaction" => w.chain \in Nat

(* What ethabi makes of an answer are tokens. *)
ASSUME TokenAssumption ==
    /\ \A tokens \in Token : IsTokens(tokens)
    /\ \A logs \in Logs : \A k \in DOMAIN logs : IsTokens(logs[k])

VARIABLES
    wish,     \* what the caller of each call wants
    request,  \* what it gave to the transport
    returned, \* what came back
    value     \* what the caller was given

clientVars == <<wish, request, returned, value>>

None == [want |-> "none"]

MethodWishes == UNION {{[want |-> "method", row |-> row, given |-> given] :
                        given \in SUBSET Optional(row)} : row \in Rows}
FormWishes(form, values) == {[want |-> "form", form |-> form, value |-> v] : v \in values}
JsonWishes(forms)  == {[want |-> "json", form |-> form] : form \in forms}
EventWishes(types) == {[want |-> "events", topics |-> t, types |-> ts] :
                       t \in [1 .. 4 -> {AnyTopic} \cup (0 .. 2)], ts \in types}
OutputWishes(types) == {[want |-> "outputs", types |-> ts] : ts \in types}
EchoWishes(type, values) == {[want |-> "echo", types |-> <<type>>, values |-> <<v>>] : v \in values}

ClientInit ==
    /\ HttpInit
    /\ wish = [c \in Call |-> None] /\ request = [c \in Call |-> None]
    /\ returned = [c \in Call |-> None] /\ value = [c \in Call |-> None]

-----------------------------------------------------------------------------
(* What a caller gives to the transport, or NoSignature. *)
Builds(w) ==
    CASE w.want = "method" -> [rpc |-> w.row.rpc, params |-> Params(w.row, w.given)]
      [] w.want = "form" -> [rpc |-> "any", json |-> To(w.form, w.value)]
      [] w.want = "json" -> [rpc |-> "any"]
      [] w.want = "events" -> [rpc |-> "eth_getLogs", topics |-> Topics(w.topics)]
      [] w.want = "outputs" -> [rpc |-> "eth_call", tokens |-> <<>>]
      [] w.want = "echo" -> [rpc |-> "eth_call", tokens |-> IntoTokens(w.types, w.values)]
      [] w.want = "transaction" ->
            LET signed == SignTransaction(w.type, w.chain, w.signer)
            IN  IF ~signed.ok THEN NoSignature
                ELSE [rpc |-> "eth_sendRawTransaction", signed |-> signed,
                      hashed |-> Encode(w.type, NoSignature), raw |-> Encode(w.type, signed)]
      [] w.want = "message" ->
            IF ~SignMessage(w.signer).ok THEN NoSignature
            ELSE [rpc |-> "eth_call", signed |-> SignMessage(w.signer)]

(* The first request of a call is the one with a wish; a caller that cannot
   build it is told so. *)
Ask(c) ==
    /\ wish[c] = None
    /\ \E k \in DOMAIN Wish[c] : \E w \in Wish[c][k] :
         /\ wish' = [wish EXCEPT ![c] = w]
         /\ \/ Builds(w) # NoSignature /\ Prepare(c) /\ request' = [request EXCEPT ![c] = Builds(w)]
            \/ Builds(w) = NoSignature /\ GiveUp(c) /\ UNCHANGED request
    /\ UNCHANGED <<returned, value>>

(* A builder, with nothing set, and one more setter of it. *)
NewBuilder(c) ==
    /\ wish[c] = None
    /\ \E b \in DOMAIN Turns[c] :
         /\ wish' = [wish EXCEPT ![c] = [want |-> "build", builder |-> b, setters |-> <<>>]]
         /\ request' = [request EXCEPT ![c] = [rpc |-> "any", built |-> Blank(b)]]
    /\ UNCHANGED <<httpVars, returned, value>>

UseSetter(c) ==
    /\ wish[c].want = "build" /\ ids[c] = <<>>
    /\ LET b == wish[c].builder
           turn == Len(wish[c].setters) + 1
       IN  /\ turn <= Turns[c][b]
           /\ \E f \in Setters[b] :
                /\ wish' = [wish EXCEPT ![c].setters = Append(@, f)]
                /\ request' = [request EXCEPT ![c].built = Set(b, @, f, turn)]
    /\ UNCHANGED <<httpVars, returned, value>>

(* What was built, and the further requests of a batch. *)
AskMore(c) == request[c] # None /\ Prepare(c) /\ UNCHANGED clientVars

Transports(c) == HttpStep(c) /\ UNCHANGED clientVars

(* What a node may return, and what the caller makes of it: the tokens of one
   output; for events a list of logs, each with tokens of its own, of which
   the first that cannot be read fails them all. *)
Returns(c) ==
    CASE wish[c].want = "outputs" -> Token
      [] wish[c].want = "events" -> Logs
      [] wish[c].want = "echo" -> {request[c].tokens}
      [] wish[c].want = "form" -> {request[c].json}
      [] wish[c].want = "json" -> Json[wish[c].form]
      [] OTHER -> {None}

Reads(w, r, built) ==
    CASE w.want \in {"outputs", "echo"} -> FromTokens(w.types, r)
      [] w.want = "events" -> Collect([k \in DOMAIN r |-> FromTokens(w.types, r[k])])
      [] w.want \in {"form", "json"} -> From(w.form, r)
      [] w.want \in {"transaction", "message"} -> Ok(RecoveryId(built.signed.v))
      [] OTHER -> None

Deliver(c) ==
    /\ status[c] = "answered" /\ value[c] = None
    /\ \E r \in Returns(c) :
         /\ returned' = [returned EXCEPT ![c] = r]
         /\ value' = [value EXCEPT ![c] = Reads(wish[c], r, request[c])]
         /\ value' # value
    /\ UNCHANGED <<httpVars, wish, request>>

Next == \E c \in Call : Ask(c) \/ NewBuilder(c) \/ UseSetter(c) \/ AskMore(c) \/ Transports(c) \/ Deliver(c)

Spec == ClientInit /\ [][Next]_<<httpVars, clientVars>>

-----------------------------------------------------------------------------
(* A parameter is where the method has it: a given or a required one at its
   own position whatever is left out before it, anything else as what the node
   takes for it, and none after the last one given that a default does not
   fill (the parameter lists of src/api, pending_transactions among them). *)
ParamKept(row, given, params, i) ==
    IF row.params[i].absent = "never" \/ i \in given
      THEN i <= Len(params) /\ params[i] = row.params[i].name
      ELSE \/ i > Len(params) /\ row.params[i].absent = "omitted"
           \/ i <= Len(params) /\ params[i] \in {"latest", "null"}

(* A built request has each field from the last setter of it, which no setter
   of another field undoes, except that a log filter is never by hash and by
   range: there the last of the two decides.  The topics keep their places. *)
Undone(builder, setters, k) ==
    \E l \in k + 1 .. Len(setters) :
      \/ setters[l] = setters[k]
      \/ /\ builder = "filter"
         /\ {setters[k], setters[l]} \in {{"block_hash", "from_block"}, {"block_hash", "to_block"}}

RequestKept ==
    \A c \in Call : request[c] # None =>
      /\ wish[c].want = "method" =>
           \A i \in DOMAIN wish[c].row.params :
             ParamKept(wish[c].row, wish[c].given, request[c].params, i)
      /\ wish[c].want = "build" =>
           \A f \in Fields[wish[c].builder] :
             {k \in DOMAIN wish[c].setters : wish[c].setters[k] = f
                                              /\ ~Undone(wish[c].builder, wish[c].setters, k)}
             = {request[c].built[f]} \ {0}
      /\ wish[c].want = "events" =>
           \A i \in 1 .. 4 :
             wish[c].topics[i] # AnyTopic <=> i \in DOMAIN request[c].topics /\ request[c].topics[i] # "null"

(* A value handed to a node and back is the same value.  The exception is Work
   with a block number, which its own reader refuses. *)
FormKept(form, before, after) ==
    IF form = "work" /\ Len(before) = 4 THEN ~after.ok
    ELSE /\ after.ok
         /\ IF form = "call_request"
              THEN \A f \in CommonFields :
                     after.value[f] = before[f] \/ (before[f] = 0 /\ f \in DOMAIN DefaultOf)
              ELSE after.value = before

(* What a value read from JSON stands for: the number, the bytes or the hashes
   written there; the three blocks under one of their names; no progress only
   where the node says so. *)
Reports(names, j, read) ==
    /\ HasAll(names, j)
    /\ \A k \in DOMAIN names : LET field == FieldAt(names, j, k)
                               IN  field.json = "hex" /\ field.number = read[k]
Means(form, read, json) ==
    CASE form = "sync_state" ->
            IF read = <<>>
              THEN json = JsonBool(FALSE) \/ Flag(json) = JsonBool(FALSE)
              ELSE \/ Reports(InfoNames, json, read)
                   \/ Flag(json) = JsonBool(TRUE) /\ Reports(StatusNames, StatusOf(json), read)
      [] form = "block_number" -> IF json.json = "text" THEN read = Tagged(json.text)
                                  ELSE json.json = "hex" /\ read = Numbered(json.number)
      [] form = "bytes" -> 2 * read.length = json.digits /\ read.number = json.number
      [] form = "work" -> /\ DOMAIN read = DOMAIN json.items
                          /\ \A k \in DOMAIN read : read[k] = json.items[k].number

(* What must not be refused: an object that has the three blocks, with members
   of any other name beside them. *)
Progress(form, json) ==
    /\ form = "sync_state" /\ json.json = "object"
    /\ \A k \in 1 .. 3 : /\ InfoNames[k] \in DOMAIN json.members
                         /\ IsU256(json.members[InfoNames[k]])

(* A value handed to a node and back is the same value, what is read from JSON
   is what the node said, and a progress is not refused for what is beside it. *)
FormsKept ==
    \A c \in Call : value[c] # None =>
      /\ wish[c].want = "form" => FormKept(wish[c].form, wish[c].value, value[c])
      /\ wish[c].want = "json" =>
           IF value[c].ok THEN Means(wish[c].form, value[c].value, returned[c])
           ELSE ~Progress(wish[c].form, returned[c])

(* A value read from tokens says what the contract said, and is refused only
   where no value of its type would say it; a value handed to a contract and
   back is the same value, down to the least integer of each type. *)
ValueKept ==
    \A c \in Call : value[c] # None =>
      /\ wish[c].want = "outputs" =>
           IF value[c].ok THEN SaysAll(wish[c].types, value[c].value, returned[c])
           ELSE ~SayableAll(wish[c].types, returned[c])
      /\ wish[c].want = "events" =>
           IF value[c].ok
             THEN /\ DOMAIN value[c].value = DOMAIN returned[c]
                  /\ \A k \in DOMAIN returned[c] :
                       SaysAll(wish[c].types, value[c].value[k], returned[c][k])
             ELSE \E k \in DOMAIN returned[c] : ~SayableAll(wish[c].types, returned[c][k])
      /\ wish[c].want = "echo" => value[c] = Ok(wish[c].values)

(* A signature that leaves the crate has a v from which the signer's parity,
   and for a legacy transaction the chain, can be recovered, and its envelope
   declares as many fields as it has; one that a custom key got wrong, or that
   does not fit 64 bits, is refused.  A typed transaction has its bare parity
   as v, which Recovery refuses. *)
SignatureExact ==
    \A c \in Call : wish[c].want \in {"transaction", "message"} /\ status[c] # "idle" =>
      LET w == wish[c]
      IN  /\ request[c] # None =>
               /\ w.want = "message" => request[c].signed.v \in {27, 28}
               /\ w.want = "transaction" =>
                    /\ request[c].raw.declared = Len(request[c].raw.fields)
                    /\ request[c].hashed.declared = Len(request[c].hashed.fields)
                    /\ w.type \in Legacy => request[c].signed.v <= MaxU64
                                            /\ (request[c].signed.v - 35) \div 2 = w.chain
               /\ w.signer.secret /\ value[c] # None =>
                    value[c].value = IF w.want = "transaction" /\ w.type \in Typed
                                       THEN 4 ELSE w.signer.parity
          /\ status[c] = "unsent" /\ w.signer.secret =>
               w.want = "transaction" /\ (w.type \notin Legacy \cup Typed
                                          \/ ReplayProtected(w.chain, w.signer.parity) > MaxU64)
=============================================================================
