------------------------------ MODULE Requests ------------------------------
(* The requests of the namespaces in api: for each method of the crate the
   JSON-RPC method and the parameters, which stand for themselves by position.
   A parameter the caller may leave out is filled in, sent as null, or left
   out of the list.  Methods that take a BlockId, or a TransactionId, are two
   or three methods here, one for each kind of identifier. *)
EXTENDS Integers, Sequences, FiniteSetsExt

Row(method, rpc, params) == [method |-> method, rpc |-> rpc, params |-> params]

Must(name)        == [name |-> name, absent |-> "never"]
May(name, absent) == [name |-> name, absent |-> absent]
Block == May("block", "latest")

Parameter == [name : STRING, absent : {"never", "latest", "null", "omitted"}]

EthState ==
    {Row("accounts", "eth_accounts", <<>>), Row("block_number", "eth_blockNumber", <<>>),
     Row("call", "eth_call", <<Must("request"), Block>>), Row("coinbase", "eth_coinbase", <<>>),
     Row("compile_lll", "eth_compileLLL", <<Must("code")>>),
     Row("compile_solidity", "eth_compileSolidity", <<Must("code")>>),
     Row("compile_serpent", "eth_compileSerpent", <<Must("code")>>),
     Row("estimate_gas", "eth_estimateGas", <<Must("request"), May("block", "omitted")>>),
     Row("gas_price", "eth_gasPrice", <<>>),
     Row("fee_history", "eth_feeHistory",
         <<Must("block_count"), Must("newest_block"), May("reward_percentiles", "null")>>),
     Row("balance", "eth_getBalance", <<Must("address"), Block>>),
     Row("logs", "eth_getLogs", <<Must("filter")>>)}

EthBlocks ==
    {Row("block", "eth_getBlockByHash", <<Must("hash"), Must("false")>>),
     Row("block", "eth_getBlockByNumber", <<Must("number"), Must("false")>>),
     Row("block_with_txs", "eth_getBlockByHash", <<Must("hash"), Must("true")>>),
     Row("block_with_txs", "eth_getBlockByNumber", <<Must("number"), Must("true")>>),
     Row("block_transaction_count", "eth_getBlockTransactionCountByHash", <<Must("hash")>>),
     Row("block_transaction_count", "eth_getBlockTransactionCountByNumber", <<Must("number")>>),
     Row("code", "eth_getCode", <<Must("address"), Block>>),
     Row("compilers", "eth_getCompilers", <<>>), Row("chain_id", "eth_chainId", <<>>),
     Row("request_accounts", "eth_requestAccounts", <<>>),
     Row("storage", "eth_getStorageAt", <<Must("address"), Must("idx"), Block>>),
     Row("transaction_count", "eth_getTransactionCount", <<Must("address"), Block>>)}

EthTransactions ==
    {Row("transaction", "eth_getTransactionByHash", <<Must("hash")>>),
     Row("transaction", "eth_getTransactionByBlockHashAndIndex", <<Must("hash"), Must("index")>>),
     Row("transaction", "eth_getTransactionByBlockNumberAndIndex", <<Must("number"), Must("index")>>),
     Row("transaction_receipt", "eth_getTransactionReceipt", <<Must("hash")>>),
     Row("uncle", "eth_getUncleByBlockHashAndIndex", <<Must("hash"), Must("index")>>),
     Row("uncle", "eth_getUncleByBlockNumberAndIndex", <<Must("number"), Must("index")>>),
     Row("uncle_header", "eth_getUncleByBlockHashAndIndex", <<Must("hash"), Must("index")>>),
     Row("uncle_header", "eth_getUncleByBlockNumberAndIndex", <<Must("number"), Must("index")>>),
     Row("uncle_count", "eth_getUncleCountByBlockHash", <<Must("hash")>>),
     Row("uncle_count", "eth_getUncleCountByBlockNumber", <<Must("number")>>),
     Row("work", "eth_getWork", <<>>), Row("hashrate", "eth_hashrate", <<>>),
     Row("mining", "eth_mining", <<>>),
     Row("new_block_filter", "eth_newBlockFilter", <<>>),
     Row("new_pending_transaction_filter", "eth_newPendingTransactionFilter", <<>>),
     Row("protocol_version", "eth_protocolVersion", <<>>)}

EthWrites ==
    {Row("send_raw_transaction", "eth_sendRawTransaction", <<Must("rlp")>>),
     Row("send_transaction", "eth_sendTransaction", <<Must("tx")>>),
     Row("sign", "eth_sign", <<Must("address"), Must("data")>>),
     Row("submit_hashrate", "eth_submitHashrate", <<Must("rate"), Must("id")>>),
     Row("submit_work", "eth_submitWork", <<Must("nonce"), Must("pow_hash"), Must("mix_hash")>>),
     Row("syncing", "eth_syncing", <<>>),
     Row("proof", "eth_getProof", <<Must("address"), Must("keys"), Block>>)}

EthFilters ==
    {Row("create_logs_filter", "eth_newFilter", <<Must("filter")>>),
     Row("create_blocks_filter", "eth_newBlockFilter", <<>>),
     Row("create_pending_transactions_filter", "eth_newPendingTransactionFilter", <<>>),
     Row("poll", "eth_getFilterChanges", <<Must("id")>>),
     Row("logs", "eth_getFilterLogs", <<Must("id")>>),
     Row("uninstall", "eth_uninstallFilter", <<Must("id")>>)}

EthSubscribe ==
    {Row("subscribe_new_heads", "eth_subscribe", <<Must("newHeads")>>),
     Row("subscribe_logs", "eth_subscribe", <<Must("logs"), Must("filter")>>),
     Row("subscribe_new_pending_transactions", "eth_subscribe", <<Must("newPendingTransactions")>>),
     Row("subscribe_syncing", "eth_subscribe", <<Must("syncing")>>),
     Row("unsubscribe", "eth_unsubscribe", <<Must("id")>>)}

Personal ==
    {Row("list_accounts", "personal_listAccounts", <<>>),
     Row("new_account", "personal_newAccount", <<Must("password")>>),
     Row("unlock_account", "personal_unlockAccount",
         <<Must("address"), Must("password"), May("duration", "null")>>),
     Row("send_transaction", "personal_sendTransaction", <<Must("transaction"), Must("password")>>),
     Row("sign", "personal_sign", <<Must("data"), Must("address"), Must("password")>>),
     Row("sign_transaction", "personal_signTransaction", <<Must("transaction"), Must("password")>>),
     Row("import_raw_key", "personal_importRawKey", <<Must("private_key"), Must("password")>>)}

Traces ==
    {Row("call", "trace_call", <<Must("req"), Must("trace_type"), Block>>),
     Row("call_many", "trace_callMany", <<Must("reqs_with_trace_types"), Block>>),
     Row("raw_transaction", "trace_rawTransaction", <<Must("data"), Must("trace_type")>>),
     Row("replay_transaction", "trace_replayTransaction", <<Must("hash"), Must("trace_type")>>),
     Row("replay_block_transactions", "trace_replayBlockTransactions",
         <<Must("block"), Must("trace_type")>>),
     Row("block", "trace_block", <<Must("block")>>), Row("filter", "trace_filter", <<Must("filter")>>),
     Row("get", "trace_get", <<Must("hash"), Must("index")>>),
     Row("transaction", "trace_transaction", <<Must("hash")>>)}

Parity ==
    {Row("call", "parity_call", <<Must("reqs")>>),
     Row("pending_transactions", "parity_pendingTransactions",
         <<May("limit", "omitted"), May("filter", "omitted")>>)}

ParityAccounts ==
    {Row("parity_kill_account", "parity_killAccount", <<Must("address"), Must("pwd")>>),
     Row("parity_new_account_from_phrase", "parity_newAccountFromPhrase", <<Must("seed"), Must("pwd")>>),
     Row("new_account_from_secret", "parity_newAccountFromSecret", <<Must("secret"), Must("pwd")>>),
     Row("parity_new_account_from_wallet", "parity_newAccountFromWallet", <<Must("wallet"), Must("pwd")>>),
     Row("parity_remove_address", "parity_removeAddress", <<Must("address")>>)}

ParitySet ==
    {Row("accept_non_reserved_peers", "parity_acceptNonReservedPeers", <<>>),
     Row("add_reserved_peer", "parity_addReservedPeer", <<Must("enode")>>),
     Row("drop_non_reserved_peers", "parity_dropNonReservedPeers", <<>>),
     Row("parity_net_peers", "parity_netPeers", <<>>),
     Row("execute_upgrade", "parity_executeUpgrade", <<>>),
     Row("hash_content", "parity_hashContent", <<Must("url")>>),
     Row("remove_reserved_peer", "parity_removeReservedPeer", <<Must("enode")>>),
     Row("set_author", "parity_setAuthor", <<Must("address")>>),
     Row("set_chain", "parity_setChain", <<Must("chain")>>),
     Row("set_engine_signer", "parity_setEngineSigner", <<Must("address"), Must("password")>>),
     Row("set_extra_data", "parity_setExtraData", <<Must("data")>>),
     Row("set_gas_ceil_target", "parity_setGasCeilTarget", <<Must("quantity")>>),
     Row("set_gas_floor_target", "parity_setGasFloorTarget", <<Must("quantity")>>),
     Row("set_max_transaction_gas", "parity_setMaxTransactionGas", <<Must("quantity")>>),
     Row("set_min_gas_price", "parity_setMinGasPrice", <<Must("quantity")>>),
     Row("set_mode", "parity_setMode", <<Must("mode")>>),
     Row("set_transactions_limit", "parity_setTransactionsLimit", <<Must("limit")>>),
     Row("upgrade_ready", "parity_upgradeReady", <<>>)}

Net == {Row("version", "net_version", <<>>), Row("peer_count", "net_peerCount", <<>>),
        Row("is_listening", "net_listening", <<>>)}
Web3 == {Row("client_version", "web3_clientVersion", <<>>), Row("sha3", "web3_sha3", <<Must("bytes")>>)}
Txpool == {Row("content", "txpool_content", <<>>), Row("inspect", "txpool_inspect", <<>>),
           Row("status", "txpool_status", <<>>)}

Rows == EthState \cup EthBlocks \cup EthTransactions \cup EthWrites \cup EthFilters \cup EthSubscribe
        \cup Personal \cup Traces \cup Parity \cup ParityAccounts \cup ParitySet
        \cup Net \cup Web3 \cup Txpool

-----------------------------------------------------------------------------
Optional(row) == {i \in DOMAIN row.params : row.params[i].absent # "never"}

(* The parameter list for the optional parameters given: a parameter that is
   left out before one that is sent becomes null.  Mutant: it is left out. *)
Sends(row, given, i) == i \notin Optional(row) \ given \/ row.params[i].absent # "omitted"
Slot(row, given, i) ==
    IF i \notin Optional(row) \ given THEN row.params[i].name
    ELSE IF row.params[i].absent = "latest" THEN "latest" ELSE "null"
ParamsPushed(row, given) ==
    LET sent == SelectSeq([i \in DOMAIN row.params |-> i], LAMBDA i : Sends(row, given, i))
    IN  [k \in DOMAIN sent |-> Slot(row, given, sent[k])]
Params(row, given) ==
    LET sent == {i \in DOMAIN row.params : Sends(row, given, i)}
    IN  [i \in 1 .. Max(sent \cup {0}) |-> Slot(row, given, i)]

-----------------------------------------------------------------------------
(* FilterBuilder::topics: each topic is any, or a list of so many hashes.
   Those at the end that are any are cut off, the others become null; one hash
   is not in a list, none are an empty one. *)
AnyTopic == -1
Topics(hashes) ==
    LET given == {i \in DOMAIN hashes : hashes[i] # AnyTopic}
    IN  [i \in 1 .. Max(given \cup {0}) |->
            IF hashes[i] = AnyTopic THEN "null" ELSE IF hashes[i] = 1 THEN "one" ELSE "list"]
=============================================================================
