# A TLA+ model of rust-web3

rust-web3 is a client library for Ethereum nodes. A program builds a request
through an API namespace, a *transport* carries it to the node, and a future
resolves with the answer. This directory models the parts of the library in
which order, failure and concurrency matter, checks them with TLC, and proves
the central invariants with TLAPS.

Paths below are relative to the repository: `ws.rs` is
`src/transports/ws.rs`, and so on.

## 1. The system

| component | source | state | operations |
|---|---|---|---|
| transport contract | `lib.rs` | none | `prepare`, `send`, `send_batch`, `subscribe`, `unsubscribe` (traits) |
| JSON-RPC helpers | `helpers.rs` | none; saturating step of a shared id counter | `next_request_id`, building and decoding JSON |
| WebSocket transport | `transports/ws.rs` | id counter; bounded queue; in the task: pending map, subscription map, socket | `send`, `send_batch`, `subscribe`, `unsubscribe`; the loop of `into_task` |
| IPC transport | `transports/ipc.rs` | id counter; bounded queue; in the task: a pending map per request, a map of batches, a read buffer, a subscription map | the same; the loop of `run_server` |
| batch transport | `transports/batch.rs` | map of waiting senders and list of collected requests, each under a lock | `send`, `submit_batch`, the guard of a submission |
| subscription streams | `api/eth_subscribe.rs` | id of the subscription, receiving end of a channel | `subscribe`, `poll_next`, `unsubscribe`, `drop` |
| HTTP transport | `transports/http.rs` | id counter | one POST per call or batch, size bound, correlation of the answer |
| EIP-1193 transport | `transports/eip_1193.rs` | listener map and subscription map behind `RefCell`s | as the duplex transports, over a browser provider |
| either, test transport | `transports/either.rs`, `test.rs` | none / a script | dispatch / test double |
| confirmations | `confirm.rs` | a block filter at the node | `wait_for_confirmations`, `send_transaction_with_confirmation` |
| polling filters | `api/eth_filter.rs` | a filter id | `poll`, `logs`, `uninstall`, `stream` |
| accounts, signing | `api/accounts.rs`, `signing.rs`, `types/recovery.rs` | none | gather nonce, gas price and chain id, sign; recover |
| contracts | `contract/` | none | `call`, `query`, `signed_call`, `deploy`; ENS resolvers |
| RPC namespaces, types | `api/*.rs`, `types/*.rs` | none | one request, one decoded answer |

**How they interact.** A namespace calls `Transport::execute`, that is
`prepare` (take an id) and `send` (give the request to the transport, get a
future). The duplex transports (WebSocket, IPC) put a message on a bounded
queue shared by all clones of a handle; one background task is the only reader
of the queue and of the socket, and owns the maps. Futures are the receiving
ends of one-shot channels whose senders travel through the queue into the maps.
A subscription first makes a call (`eth_subscribe`), then puts a message with
the sending end of a channel on the same queue. The batch transport sits on any
transport that can send a batch. Confirmations, deployment and contracts are
sequences of calls on any transport.

**What is hard.**

* *Ownership of senders.* A future resolves because exactly one place holds its
  sender. Queue, maps, the writing task, a lost connection, a full queue, a
  finished task and a dropped future all move or drop senders.
* *Ids.* The counter saturates, so ids repeat; a dropped future leaves its ids in
  the maps; answers are matched by id alone.
* *Order.* A peer may answer in any order, reorder the outputs of a batch, split
  it, join two, repeat an answer.
* *What an error means.* `TransportError` messages such as "not sent" promise that
  repeating the call is safe.
* *Back-pressure.* While the task writes it does not read; a slow reader of
  notifications must not hold up the task, so its stream ends.
* *Shutdown.* Connection broken, stream ended inside a message, last handle
  dropped, task leaving its loop while callers still queue.
* *Two locks.* The batch transport takes one lock for the map, another for
  the list.
* *Reading twice.* Confirmations read the chain, wait, and read it again; accounts
  read a nonce that another signer may also read.

**What makes each component correct.** Duplex, batch and HTTP transports: every
future resolves, once, with its own answer or a true error (`RpcClient`); no
stream skips a notification or ends for no reason. EIP-1193: no subscription is
removed twice, and nothing stays behind. Confirmations: the receipt returned has
the confirmations asked for, and the wait ends. Accounts: a confirmed nonce is not
used again; recovery values fit their width and can be inverted. Contracts: the
options given are the options sent; tokens keep their value. ENS: what is asked
for its interface is what is used. Namespaces and types: a parameter keeps its
position, a value its meaning.

## 2. The modules

| module | what it is |
|---|---|
| `RpcClient` | the abstract promise of a transport to its callers |
| `NotificationStreams` | the stream half of a duplex transport: subscription map, bounded channels, readers |
| `WsTransport` | `ws.rs`; extends `NotificationStreams`; refines `RpcClient` |
| `IpcTransport` | `ipc.rs`; extends `NotificationStreams`; refines `RpcClient` |
| `BatchTransport` | `batch.rs`; refines `RpcClient` |
| `HttpTransport` | `http.rs`; refines `RpcClient` |
| `Provider` | `eip_1193.rs` with `eth_subscribe.rs` on top |
| `Transactions` | `confirm.rs`, `eth_filter.rs`, `deploy.rs`, and the sending paths of `contract/mod.rs` and `accounts.rs`, over a chain |
| `Ens` | `contract/ens`, over the contracts of the name service |
| `Results` | Rust's `Result` and the `collect` of an iterator of them |
| `Requests` | the requests of the namespaces in `api/`, the topics of events |
| `Forms` | the builders of requests and the hand-written JSON conversions of `types/` |
| `Signatures` | `signing.rs`, `recovery.rs`, envelopes of `accounts.rs` |
| `Tokens` | `contract/tokens.rs`, a token as the function from its positions to its nodes |
| `HttpClient` | callers over `HttpTransport`; composes it with `Requests`, `Forms`, `Signatures` and `Tokens` |
| `MCWs`, `MCIpc`, `MCBatch`, `MCTransactions`, `MCEns`, `MCHttp` | constants and symmetry of the instances for TLC; `MCTransactions` also `MCSpec`, in which an operation with options runs alone |
| `*Proofs` | theorems about the module they are named after; `HttpProofs` is about `HttpTransport` and `HttpClient` |

Operators marked *Mutant* in a comment are plausible wrong versions of the
operator that follows them. They are not part of the model; each shows that a
property would notice that mistake.

### RpcClient

A call is `idle`, then `waiting`, then `answered`, `unsent`, `failed` or
`cancelled`, for good. The peer executes a call at most once and only while it
is waiting or cancelled. `answered` needs the execution, `unsent` excludes it for ever.
A transport implements it with its calls (WebSocket, where a batch
resolves as a whole) or its requests (IPC and `Batch`, where every request has a
sender of its own).

### WsTransport

One action per handler or per stretch between two awaits.

| code (`ws.rs`) | model |
|---|---|
| `WebSocket::id`, `prepare` | `counter`, `Prepare` once per request, `Successor` saturates |
| `send`, `send_batch`, `try_send` | `Send`; `Accepts` is the capacity of a `futures` channel with one sender: capacity + 1 |
| `DuplexTransport::subscribe`/`unsubscribe` | `Subscribe`, `Drop`, via `Enqueue` |
| `into_task`, the queue's branch of `select` | `TakeRequest`, `TakeSubscribe`, `TakeUnsubscribe` |
| `send_text(..).await`, `flush().await` | `writing`, `SendText`, `Flush`; the task does nothing else meanwhile |
| `receiver.next()` and `handle_message` | `ReadResponse`, `ReadUnusable`, `ReadIgnored`, `ReadNotification`, `ReadFails` |
| `fail_pending`, `break` | `FailPending` |
| the end of `into_task` (drop of the receiver) | `Finish`, a step of its own, since callers run in between |

`status` is what a caller knows; the sender's place is `queue` or `pending`.
`InRequestOrder`, `Keys`, `Matches` are the search of `handle_message`:
the pending entry that has the smallest id of the response, the same number of ids
and no other ids. Frames larger than the limit are a socket error of the library
underneath and so are `ReadFails`.
The task does nothing when its queue ends (`None => {}`), so there is no action
for it.

### IpcTransport

| code (`ipc.rs`) | model |
|---|---|
| `send`, `send_batch`, `try_send` | `Send`; a `tokio` channel holds exactly its capacity; an empty batch is queued too |
| last handle dropped, `closed = true` | `DropHandles`, `TakeClosed`; `Leave` is the condition of the loop |
| `TransportMessage::Single`, `Batch` | `Take`: per id, accept or refuse with a collision error |
| `write_all(..).await` | `WriteAll`, `WriteFails`; `pending_batches` is updated after the write |
| reading a chunk | `Read(n)`: n pieces; a message is two pieces, so a chunk may end inside one |
| the size limit, read errors, end of stream | `ReadFails`, by `StreamFails` |
| `StreamDeserializer` over the buffer | `Respond`, `RespondPartly`, `Reject`, `Notify`, `Ignore`, while two pieces are buffered |
| `respond`, `respond_output` | `WholeBatch`, `OneRequest`, `AllKnown`: all checks before any delivery, save for an unknown id among single answers (`RespondPartly`) |
| `fail_all_pending` | `FailPending` |
| the end of `run_server` | `Finish`: senders still queued are dropped, callers see a `RecvError` ("failed": it promises nothing) |

### BatchTransport

`Reserve` and `Push` are the two critical sections of `send`; `TakeBatch` the one
of `submit_batch`; `SendBatch` the inner `send_batch` and the
creation of the guard; `InnerReturns`, `InnerFails` the end of the future;
`DropSubmission` its drop, in which the guard fails what it captured. The
inner transport is any that keeps `RpcClient` but may return a list of the wrong
length. `DropHandles` is the drop of the last clone: the map dies when no handle
and no submission refers to it, and the senders in it with it. The ids of the
requests are any function from requests to ids, since the inner
transport's counter may have saturated.

### NotificationStreams

`registered` is the task's map from ids to sinks, `log` and `taken` the
channel of each stream, `consumer` its reader. A notification that finds its
channel full, or its reader gone, removes the sink (`Offer`). `Unregister` names
an id, not a stream, as the code does.

### HttpTransport and HttpClient

A call is an HTTP exchange: `lazy` until its future is polled, `posted`, then
`reading`.

| code (`http.rs`) | model |
|---|---|
| `prepare`, `next_id` | `Prepare`; a batch takes one more id in `Send` |
| `execute_rpc` up to the response | `Post`, `Arrive`, `ConnectionFails` |
| the announced length against `max_response_size` | `ReadHead` |
| the loop over `chunk()` | `ReadChunk`, any number of chunks of any length |
| status, body, `handle_single_response`, `handle_batch_response` | `ReadEnd` with `Single` and `Batch` |
| a caller that fails before `prepare`, since it cannot build its request | `GiveUp` |

`Batch` is the map from ids to results: later outputs replace earlier ones, and a
result is taken out when it is used, so that ids that repeat fail the batch.

`HttpClient` puts callers on it. What a caller wants is drawn from `Wish`: a method
with some of its optional parameters (`Requests`), a value in its JSON form and back
(`Forms`), the events or the outputs of a contract, a signed transaction or message
(`Signatures`). The request is built in `Ask` and goes through the transport, and
`Deliver` turns what came back into a value. A builder is a caller of its own kind:
`NewBuilder` has nothing set, `UseSetter` is one more setter, and `AskMore` is the
first step of the request that was built, so that any sequence of setters is a behaviour
and not a fold over a list.

In `Forms` a hexadecimal string is its number of digits and the number they write, and an object
has members of any name, so that what serde and `ethereum-types` refuse (too many digits, a
`U256` without any, an `H256` that has not all of them) and what they ignore (a member they do not
know) show. `U64Digits` and `U256Digits` are the widths. An array stands for a struct where a
derived reader takes one.

The pure modules hold operators only, with the Rust
functions as their names where TLA+ allows it: `Params` is how each method
puts its arguments in a list, `FromNode` follows the conversions of tokens
arm by arm with a small `Word` in the place of 2^256.

Types and tokens nest, and the code converts them by recursion. `Tokens` keeps a token, and
a value, as a function from positions to what is there: the root at `<<>>`, item k of the
list at p at `Append(p, k)`. A type is a scalar kind inside a sequence of lists, so that `At`
says what it expects at a position, and `FromToken` converts every node by `FromNode` and
fails if one fails, as `collect` does. That this is what the recursion computes is the
theorem `ItemsAreConverted`. No module has a recursive operator.

### Provider

JavaScript runs one callback at a time, so every action is one callback or
one poll.

| code | model |
|---|---|
| `Eip1193::new`, the message closure | `Init`, `Message` |
| `handle_ad_hoc_event` | `Listen` |
| `EthSubscribe::subscribe`, its future | `Subscribe`, `Register`, `SubscribeFails` |
| `SubscriptionStream::unsubscribe`, `drop` | `Unsubscribe`, `Drop`, with the panic of a second removal |
| the `Rc` of the provider, `drop` of `ProviderAndListeners` | `Holders`, `Release`, `DropHandle` |

`Install`, `AnswerUnsubscribe` and `Emit` are the node.

### Transactions

One future per operation, along one of seven paths (`Path` says for each what it does first,
which options it copies, and whether it waits). What a transaction says is kept as the origin of
each of its fields (`carried`): an option of the caller, the node, or a default.

| code | model |
|---|---|
| `sign_transaction`: what it asks for, `try_join3` | `AsksFor` by the type, `AnswerParam` in any order |
| the transaction it builds and `encode` of its type | `Envelope`, `EnvelopeFields`; `Sign` ends for a type without an envelope |
| `personal_signTransaction` | `RemoteSign` |
| `send_transaction`, `send_raw_transaction` | `Send`; the answer may get lost |
| `create_blocks_filter`, `filter_stream`, `skip` | `CreateFilter`, `Poll`, `PollFails`, `NextItem` |
| `transaction_receipt_block_number_check` | `Check` |
| `block_number`, `required_block` | `BlockNumber`, `Enough` |
| the second reading of the receipt, the checks of a deployment | `FinalReceipt`, `ReceiptOutcomes` |
| an error at any `?`, a future dropped | `Fails`, `Drop` |

The chain keeps, of each transaction, how deep it is (`place`). A block is mined with any
set of transactions that fits the nonces (`Mine`), and a reorganisation replaces the blocks
above a depth (`Reorg`). Heights do not appear, so that the chain grows without bound and a
wait may last for ever. The height of the receipt read is kept as the distance of the head
from it (`lag`). A sum that overflows is one of the errors of `Fails`.

A path that signs locally copies options into `TransactionParameters`, and the envelope of the
transaction's type has a place for some of them only: a legacy transaction has no access list and
none of the two maximum fees, type 1 no maximum fees, and type 2 one price, the maximum
fee, in the place of the gas price. `Expected` is what a caller can count on: every option if
the node signs, those of the envelope otherwise.

### Ens

Each method is a path through `Lookup` (the registry gives the resolver),
`Gate` (`check_interface_support`) and `Query` or `Call`. Registry,
resolvers, other people's changes and the miner act in between. The functions the
wrappers name and those of the ABI files in the crate are data: `Encodable` is
whether the first function of that name takes those arguments, which is what
`ethabi` checks.

## 3. What the runs check

| run | instance | properties |
|---|---|---|
| `ws_calls` | two single calls and a batch of two, 4 ids, wrong answers, unusable frames, broken connection | `CallerHeld`, `UnsentNeverSent`, the refinement `ClientSpec` |
| `ws_live` | a single call, a batch and a stream, 2 ids, a peer that answers until the connection breaks | the inductive invariant `WsInv`, `OwnAnswer`, `EveryCallResolves`, `BreakEndsStreams` |
| `ws_streams` | two streams, two ids, four notifications | `NoGap`, `StreamKept` |
| `ipc_calls` | one single call and a batch of two, wrong answers, unusable values, end and break | `CallerHeld`, `BatchWhole`, `ClientSpec` |
| `ipc_live` | one call and a batch, 2 ids, a peer that answers until the stream ends, breaks, or carries a message larger than `max_response_size`, handles dropped | `IpcInv`, `BatchesHeld`, `OwnAnswer`, `UnsentNeverSent`, `EveryCallResolves`, `TaskEnds` |
| `ipc_streams` | two streams, two ids, three notifications | `NoGap`, `StreamKept` |
| `batch` | three requests with any ids, two overlapping submissions | `BatchInv`, `ClientSpec`, `SubmittedResolves`, `ReleaseSettles` |
| `http` | one call with any wish next to a batch of two, 2 ids | `ClientSpec`, `WithinBound`, `RequestKept`, `FormsKept`, `ValueKept`, `SignatureExact` |
| `provider` | two streams, two ids, one event stream, two notifications each | `NoPanic`, `OwnNotifications`, `ListenersFollow` |
| `transactions` | an operation that is signed locally and waits, next to one that does not or that the node signs, 0 or 2 confirmations, one reorganisation; or one operation alone along any path, any fees and access list, several other options, types 0 to 3 or none | `ConfirmedEnough`, `NonceFresh`, `OptionsKept`, `EveryWaitEnds` |
| `ens` | any method next to a writer, an old resolver and a new one, two changes by others | `GateGuards`, `NobodyAnswers`, `ReadsTheName` |
| `options` | one operation along each path, several sets of options, type 1 or 2 | `OptionsCarried`, which is violated |

What they show: on these instances no path through a task, through a
failure or through a saturated counter leaves a caller waiting for ever, gives it
another's result, or tells it that a request was not sent that was; no stream
skips a notification. Receipts have their confirmations, values survive
their conversions, requests have the parameters they were given.

`options` is a disagreement. `Contract::signed_call` (`contract/mod.rs`, line 397) copies the
nonce, the gas price, the gas and the value of its `Options`, and takes the rest
from the defaults: the transaction type, and with it the access list and both maximum fees,
are dropped without an error, so that a legacy transaction is signed. The doc of
`Options` describes these fields, and `signed_call_with_confirmations` carries them.
`OptionsCarried` expects no more of a locally signed transaction than the envelope of
its caller's type has a place for, so what it refutes is `signed_call` alone. `OptionsKept`,
in `transactions`, says what holds: on the other paths each expected option is in the transaction
under its own name, on `signed_call` those of the four it copies, and what is signed has
a price, which is the node's only if the caller set none.

### Limits of the library that the models keep

They are no disagreements with a doc, and properties are stated around them.

* Two streams of a duplex transport with one subscription id can end each other,
  and over EIP-1193 a node that gives an id out again too early makes the
  second removal panic (TLC finds it with `ReusesIds = TRUE`).
* The task of a duplex transport writes without reading and without a timeout, so a peer that
  does the same stops both.
* A stream that is dropped, or a future of `subscribe` that is dropped after the node has
  answered, leaves its subscription at the node, and a wait for
  confirmations its block filter.
* The receipt is not compared with the one that was waited for, so that a
  reorganisation between the two readings shows.
* Two operations of an account that overlap may sign the same nonce.
* A locally signed transaction has no condition. Without a type it is a legacy one, and drops an
  access list or a maximum fee that was set; type 1 drops the maximum fees; type 2 has no
  place for a gas price next to a maximum fee, and takes the gas price, or that of the
  node, as both maximum fees where none are given.
* `set_eth_address` and `blockchain_address` of `Ens` name a function of which the ABI
  file lists another overload first, so they always fail; so do `multicall`, `dnsrr`
  and `set_dnsrr` of `PublicResolver`.
* Setters of `Ens` that do not ask for an interface send their transaction to the
  zero address when the name has no resolver.
* `Work` with a block number is written as a hexadecimal string and read only as
  a JSON number. A negative integer token that is read as an unsigned type of full
  width keeps its bits. The `v` of a typed transaction is no value `Recovery` takes.
* Linking replaces the first occurrence of a library's placeholder only.

`CHECK_DEADLOCK FALSE` everywhere, because an instance ends when every call has
resolved and nothing is left to ask for; that the system does not stop too
early is what the liveness properties check.

### Bounds

* *Calls.* Two single requests are needed for a collision of a single with a
  single, and a batch of two for the order of outputs and for a collision within a
  batch or with part of one; for HTTP, a second call whose outputs could be mixed in.
* *`MaxId`.* Stands for `usize::MAX`. As large as the number of requests: ids all
  differ until the last. Smaller: the counter saturates in the middle of the
  instance, the first ids apart and the last equal.
* *`ChannelCapacity` = 1.* A queue that is empty, partly filled and full with two
  or three callers.
* *`WireCap`* is 1, and 2 in `ipc_live`. Messages the peer sends ahead of the
  task; a message may arrive at any moment.
* *`PeerWindow`.* Unanswered requests that socket and peer take before a write
  waits. `EveryCallResolves` needs it as large as the number of calls: with less,
  TLC finds the task waiting for the peer to read while the peer waits for the
  task to read. No run shows this deadlock absent.
* *`MaxBuffer`.* `max_response_size` in pieces, of which an IPC message is two: 2 is one message
  exactly; 3 in `ipc_live`, with two messages on their way, is a message and part of the next, so
  that the limit is passed or not by how the stream is divided. A message that does not fit
  however it is divided is a fault of the peer (`PeerOverflows`).
* *`MaxNotification`.* Enough to fill a channel, lose one and send another after it.
* *`PeerFaults`.* What the peer may do besides answering, per run. With saturated ids
  the peer does not repeat answers: an old answer with a reused id is
  indistinguishable from the new one for any client.
* *`MaxResponseSize` = 2, `MaxLength` = 3.* A response within the bound in one chunk or
  two, and beyond it at once or by the last chunk.
* *`Word` = 16, `MaxU64` = 39.* Signed types reach half of what an unsigned one
  does and less than the word, so that a token may be in range, at either limit, and beyond;
  chain ids 0 to 3 lie on both sides of the recovery value that still fits, of which
  one fits for one parity only. Lists of up to two items, lists of lists, and a pair of
  outputs of different types.
* *`U64Digits` = 1, `U256Digits` = 2.* Every width from none to one digit too many occurs, for both
  types, and numbers that fit one but not the other.
* *Setters.* Up to three on a log filter: two that exclude each other, and one after them.
* *`Deep` = 2.* Depths from the greatest number of confirmations on are the same to
  every comparison of the code, which is why they can be cut off.
* *`MaxReorgs` = 1.* One between the two readings, in the wait, or after the end; the
  properties speak of each operation apart.
* *`MaxEvents`, `MaxChanges` = 2.* Notifications of two subscriptions on their way;
  a name that moves away and back.

### Fairness

`FairSpec` of the duplex transports assumes that a runtime that has a runnable task
polls it (`WF_vars(TaskStep)`), and that readers poll their streams; both hold for
every executor the library supports, and no action of a caller is assumed
ever to be taken. `LiveSpec` adds that the peer answers what it owes, which
`EveryCallResolves` and `TaskEnds` need. `BreakEndsStreams` speaks of the time after the
connection is gone: the peer can answer nothing then. In `BatchTransport` a thread inside a
function leaves it, and the future of a submission is polled until it resolves, or
dropped. `Fairness` of `Transactions` polls each future that was started, lets the node answer,
lets the chain grow, and takes a transaction that can be taken for ever. That is what a node does
for a valid transaction; one that never can be mined is named by `Hopeless` and excepted.

## 4. What is proved

TLAPS checks these for every value of the constants.

| module | theorem | statement |
|---|---|---|
| `WsTransportProofs` | `InvHolds`, `TypeCorrect` | the inductive invariant `WsInv`; types |
| | `CallersAreHeld` | the sender of a waiting call is in the queue or in the pending map of a live task |
| | `UnsentIsNeverSent` | a call reported as not sent was not given to the socket |
| | `PendingIdsApart` | no two entries of the pending map share an id, also with a saturated counter |
| | `StreamsHaveNoGap`, `StreamsAreKept` | no stream delivers a notification after one it lost; the task lets go of a stream only for the reasons of `LetsGo` |
| | `AnswersAreOwn` | a call is answered with its own results, if no id was given twice or the peer answers each call once |
| | `AnswersAreOwnBelowMaxId` | the same for any peer, until the counter saturates |
| | `ImplementsRpcClient` | every behaviour in which the counter stays below `MaxId`, or whose peer answers each call once, is one of `RpcClient` |
| `IpcTransportProofs` | `InvHolds`, `TypeCorrect` | the invariant `IpcInv`; types |
| | `CallersAreHeld`, `UnsentIsNeverSent` | as for WebSocket, request by request |
| | `BatchesAreHeld` | the batches of the task are of one call each, pending, and share no id |
| | `BatchesAreWhole` | once one request of a written batch has its answer, all have |
| | `StreamsHaveNoGap`, `StreamsAreKept` | as for WebSocket |
| | `AnswersAreOwn`, `AnswersAreOwnBelowMaxId` | as for WebSocket, request by request |
| | `ImplementsRpcClient` | as for WebSocket |
| `BatchTransportProofs` | `InvHolds` | the inductive invariant `BatchInv` |
| | `SendersAreKept` | the sender of a waiting request is in the map under its id |
| | `ResultsAreOwn` | a request is answered with its own result |
| | `ImplementsRpcClient` | every behaviour of the batch transport is one of `RpcClient` |
| `HttpProofs` | `InvHolds` | the inductive invariant `HttpInv` |
| | `BoundHolds` | no response takes more than the bound |
| | `AnswersAreOwn` | a call is answered with the results of its own requests, in order |
| | `ImplementsRpcClient` | every behaviour of the HTTP transport is one of `RpcClient` |
| | `ClientUsesHttp` | every behaviour of the callers is one of the transport, so all of this holds of them |
| | `AskedInvHolds` | the inductive invariant `AskedInv` of the callers |
| | `RequestsAreKept` | parameters are in their places, built requests have their last setters, topics keep their positions |
| | `SignaturesAreExact` | signatures fit, name the chain, give the parity back; only what cannot be signed is refused |
| | `FormsAreKept` | a value in its JSON form and back is the same, a value read from any JSON value is what that says, and a progress is read whatever else its object has |
| | `ItemsAreConverted` | `FromToken` satisfies the recursion of `from_token`: a list is converted item by item |
| | `WrittenIsToken` | `into_token` of a value of any type is a well-formed token |
| | `ValuesAreKept` | what is read from the tokens of a contract says what they say; only what no value of the type says is refused; what is written is read back |
| `TransactionsProofs` | `InvHolds`, `TypeCorrect` | the inductive invariant `IInv`; types |
| | `ConfirmationsHold` | a receipt handed out has the confirmations asked for |
| | `NoncesStayFresh` | a confirmed nonce is not signed again |
| | `OptionsAreCarried` | `OptionsKept`: an option that the envelope of its type has a place for is in the transaction with the value given, on `signed_call` of the four it copies; what is signed has the caller's price or, without one, the node's |
| `ProviderProofs` | `ListenersHold` | sinks have readers and a listener; nothing is attached when nobody is left |
| | `FreshInvHolds`, `NeverPanics`, `UnsubscribeHolds` | with ids that are not given out again: no second removal; `UnsubscribeCleans`: of a subscription confirmed as removed nothing is left at the node either |
| | `NotifyInvHolds`, `NotificationsAreOwn`, `TypeCorrect` | a stream is given the notifications of its own subscription, in order and without a gap, also when ids are given out again; types |
| `EnsProofs` | `InvHolds`, `TypeCorrect` | the inductive invariant `IInv`; types |
| | `GateHolds`, `NobodyHolds` | the gate of the interfaces; names without a resolver |
| | `NameInvHolds`, `NamesAreRead` | what a read returns is what the resolver of the name says, unless the name moved meanwhile |

**WebSocket.** The invariant is `WsInv == TypeOK /\ Issued /\ Ownership /\
PendingApart`. `CallerHeld` is not inductive: that the sender of a waiting call
is in exactly one place needs that a call is queued at most once and that no two
entries of the pending map are of the same call (`Ownership`).
`UnsentNeverSent` needs that nothing of a queued call was written (`Ownership`)
and that only issued calls are held (`Issued`). `PendingApart` is what the check
of *all* ids in `TakeRequest`, not the first alone, is for. Each
conjunct has a lemma per group of actions that can disturb it; steps that leave
its variables alone go through an `Unchanged` lemma.

*Streams.* `NotificationStreamsProofs` proves the stream half for any transport
on top of it. `NoGap` is not inductive: that a stream goes on without a gap needs
that what is still on its way is in order (`Ordered`), has no hole (`Contiguous`) and
continues what the stream has (`Follows`), which together are `FlowInv`. That the
task keeps a stream needs to know where its sink is, queued or in the map, and which
ids are about to be removed (`SinkInv`, `OnceEach`). The two transports show that each of
their steps is one of the steps of `NotificationStreams`, or leaves it alone.

*Answers.* `OwnAnswer` is about the peer as much as about the task. If a response says of
each output whose it is (`Labelled`) and no id was given twice (`IdsDiffer`), the task
cannot mix up two calls whatever the peer sends. If ids repeat, it can: an old answer with
the id of a new call is the answer of the new one to any client. Then what is needed is that
the peer answers a call once (`Honest`), and `AnsweredOnce` says that a response on its way
has all the outputs of one call, which is still pending, and that no two responses have any
of the same call. `IdsBelow` gives `IdsDiffer` for as long as the counter has not saturated.
The refinement of `RpcClient` rests on `OwnAnswer` and has the same condition, `[](counter <
MaxId \/ Honest)`. The runs cover both sides of it.

**IPC.** `IpcInv` alone is not inductive. That the read buffer holds no more than the wire
does (`Buffering`), and that the call being written has an accepted request and what the
peer owes was written (`Writing`), are needed for the types and for the ownership of
senders; the three together are `HeldInv`. `BatchesHeld` needs that only written requests
are pending, apart from the one that is being written (`Written`). `BatchWhole` follows from
`BatchInv`: the requests of a written batch are either all in one entry of the map of
batches (`Recorded`), or none is pending and they were answered together or not at all
(`Settles`); `respond` delivers an entry as a whole.

**Batch.** The invariant is `BatchInv == TypeOK /\ SenderKept /\ OnItsWay /\
Released /\ SentOnce /\ OwnResult`. `SenderKept` alone is not inductive: a submission that ends
removes ids from the map, so it needs that the ids it captured belong to its own
requests and to no other that waits, which is `OnItsWay` (each sender belongs to
one request in one place). `OwnResult` needs it too: the sender found at position
i must be that of request i. `Released` is for the step in which the last
reference to the map goes, `SentOnce` for the refinement: the peer executes no
request twice, and none that was reported as unsent. In the refinement
an accepted `Reserve` and `TakeBatch` are steps the client does not see, `Push`
and a refused `Reserve` issue a call, `SendBatch` executes a batch, and every end of
a submission resolves futures. The proof has one lemma per action; the four
ways a submission ends share `EndEffect` and `EndInv`.

**HTTP.** `HttpInv == TypesOK /\ Exchanges /\ WithinBound /\ OwnAnswer`. `Exchanges` ties an
exchange to a waiting call that has all its ids. The heart is `OutputIsOwn`: an
output with an id of a call is one of the call's own, since the server mixes in
outputs only of calls with other ids. From there `SingleIsOwn` and `BatchIsOwn` follow;
that the last output with an id exists rests on the least-number principle, from the
well-foundedness of the naturals. These theorems are about `HttpSpec`, the transport with
callers of any kind, and `ClientUsesHttp` carries them over to `HttpClient`.

`AskedInv` says of each call where it stands: nothing is asked for (`Unasked`), the
request could not be built (`Refused`), it is `Builds` of the wish (`Asked`), or it is
under construction or built (`Built`, with the setters used so far and, for each field, the last
setter that none has undone). A value was read from what came back for that request
(`Given`). The rest is about the operators alone: that `Params` keeps positions
(`ParamsKept`, with the greatest position sent), that one more setter undoes what
`Undone` says (`SetterKeepsLast`), that an accepted `v` is one of the two that
type and chain allow and is inverted by `RecoveryId` (`TransactionSigned`, `TransactionRefused`,
`MessageSigned`, `EnvelopeWhole`), and that each form is read back (`FormsGiveBack`) and says
what it was read from (`JsonMeans`). A quantity has as many digits as its type reads
(`LengthFits`); `InfoRead` says exactly which objects and arrays have the three blocks of a progress,
and `SyncStateMeans` and `ProgressRead` go from there over the untagged alternatives of
`SyncState` (that the flag of a notification is one of the two booleans is `FlagIsBool`). These hold for every list of parameters, sequence of setters, chain id and
width, not only for those of the run.

*Tokens.* `ValuesAreKept` goes from a node to a token to a tuple. `IntegerRead` is the heart: the
magnitude of a negative word is its complement plus one, which needs that `Word` is even
(`HalfWord`), and the least integer of a type is the one whose magnitude is no value of it.
`NodeRead` says of every kind that `FromNode` gives a value of the type that says the same, or
there is none; `NodeWritten` that what `IntoNode` writes is read back. `TokenRead`, `TokenWritten`,
`TokensRead` and `TokensWritten` carry that over positions and tuples (`Collected`: a `collect` is
`Ok` exactly when each result is), for any depth and any tuple. No induction over types is
needed: a conversion fails as soon as one node fails, so its result depends on the nodes one by
one. What ties this to the code is `ItemsAreConverted`: the positions below item k, without
their first element, are a token again (`ItemIsToken`), and converting the list is converting
each of them.

**Transactions.** `IInv == TypeOK /\ Depths /\ Chain /\ ConfirmedEnough /\ NonceFresh`.
`ConfirmedEnough` is not inductive: the receipt is handed out after the check of the
height. `Depths` says that from the check on an undisturbed transaction is at
least as deep as its receipt was; every block that follows leaves that true.
`NonceFresh` needs `Chain`: the nonces of the mined transactions are 0 to their number less one,
so that the count a signer reads is above each of them. `OptionsAreCarried` rests on `Copied`: while
an operation waits for the parameters of its signature (`Filling`), it has the options its path
copies under their own names, nothing else but a nonce and a price of the node, and its price or
the question for it; from the signature on `Kept` is `OptionsKept` of it, which `Enveloped` shows
type by type. `ExpectedCopied` says that on every path but `signed_call` the envelope has no
place for what is not copied. An operation that ended before it sent has no transaction at the
node.

**Provider.** `SinksBelong` (a sink is under the id of its stream) and `Attached` (listeners
while there is a holder) need nothing of the node. That a removal finds its sink needs
`IdsApart`, which holds if ids are not given out again. `OwnNotifications` does not need it:
`EventsInOrder` says that the notifications of an id that are on their way run without a
hole up to the last one sent, and `Given` that they continue what the stream with a sink
under that id has been given.

**Ens.** `PastGate` is `GateGuards` from the gate on, before the last call; the resolver of
an operation does not change after it. `AtTheName` is for the reads: between the lookup and
the last call the resolver found is the one the name has, or the name has moved.

Assumptions: those on the constants that the modules name, which say that
capacities and the last id are numbers, that sets the proofs count are finite, and that
the "no such" values are none of the others.

The assumption on what callers want (`WishAssumption`) says that parameters, topics, values and
keys are of the types their Rust functions take, and that what a node may say is JSON
(`IsJson`), of any content, nested as deep as any of the readers looks. `TokenAssumption` says that what `ethabi` makes of an
answer are tokens (`IsToken`): words in their range, and every list with the items it says.

`UnsubscribeCleans` is proved and in no run: its half at the page is what `ListenersFollow` says.
Every safety invariant, every action property and every refinement that a passing run checks is
proved, the refinements of the duplex transports under the condition above. Only
model-checked: everything about liveness, since fairness and `ENABLED` are beyond the prover
(`EveryCallResolves`, `BreakEndsStreams`, `TaskEnds`, `SubmittedResolves`, `ReleaseSettles`,
`EveryWaitEnds`). `OptionsCarried` is violated, and `OptionsAreCarried` proves what holds instead.
That the solution of the recursion of `from_token` is unique is an induction over the type,
which the prover cannot do. The tables of `Requests` are data: that a row is the one of the
code is for a reader to see.

## 5. What is not modelled

* *Connecting, TLS, URL and header handling* (`ws.rs`, `http.rs`): before the
  first state of the models.
* *JSON text.* A message is what the code distinguishes of it. In `ipc.rs` the two
  branches for a request that does not serialise are unreachable for the values
  of `rpc::Call` and have no action.
* *Data types that derive their JSON form*: the derive is serde's, and external.
* *Cryptography, RLP bytes, name hashing, linking*: no state, and beyond a model
  checker; what the code checks of their results is modelled.
* *`either.rs`*: forwards each call to one of two transports. *`test.rs`*: a test
  double. *`error.rs`, `contract/error.rs`*: types and conversions of errors.
* *The drop of the last WebSocket handle*: the task ignores it, and nobody is left
  who could observe a call.
* *`eth_subscribe` over the native transports* as a composition of the call with the queue:
  the stream half begins with the `Subscribe` message, the calls are those of `WsTransport`
  and `IpcTransport`; only over EIP-1193 are both in one module.
* *`eth_filter` beyond a wait*: a log filter is polled by the same `filter_stream`.

## 6. Plan

Done: the transports and their refinements, confirmations and signing, ENS, requests,
values and tokens; proofs of every safety invariant. Left, in this order:

1. `EthSubscribe` over a native transport: the subscriptions of the node against a full queue
   and a notification before the registration.
2. A run of its own for the ENS methods whose call never encodes.
