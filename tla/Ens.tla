-------------------------------- MODULE Ens --------------------------------
(* The Ethereum Name Service of contract/ens: each method is a fixed sequence
   of contract calls, with an await at each: the registry is asked for the
   resolver of the name, a reader asks the resolver whether it supports the
   interface, and then the record is read, or a transaction sent.  The state
   is in the contracts, which others change between two awaits.

   One name.  The registry holds the address of its resolver, a resolver one
   record of the name, named after the operation that wrote it. *)
EXTENDS Integers, Sequences, FiniteSets

CONSTANTS
    Op,           \* the operations, each issued once
    Methods,      \* Methods[o]: the methods operation o may be
    Resolver,     \* the resolver contracts on the chain
    Supports,     \* Supports[r]: the interfaces resolver r supports
    Nobody,       \* the zero address: the name has no resolver
    Others,       \* a record written by someone else
    MaxChanges    \* bound on the changes others make

ASSUME EnsAssumption == /\ Supports \in [Resolver -> SUBSET {"addr", "blockchain", "pubkey",
                                                             "text", "contenthash"}]
                        /\ Nobody \notin Resolver /\ Others \notin Op
                        /\ MaxChanges \in Nat

-----------------------------------------------------------------------------
(* The functions of the contracts: what the wrappers pass, and what the ABI
   files embedded in the crate expect.  Contract::function takes the first
   function of a name, and encode_input refuses arguments of other types. *)

Function(name, args) == [name |-> name, args |-> args]

RegistryFunction ==
    [owner                |-> Function("owner", <<"bytes32">>),
     resolver             |-> Function("resolver", <<"bytes32">>),
     ttl                  |-> Function("ttl", <<"bytes32">>),
     set_owner            |-> Function("setOwner", <<"bytes32", "address">>),
     set_resolver         |-> Function("setResolver", <<"bytes32", "address">>),
     set_ttl              |-> Function("setTTL", <<"bytes32", "uint">>),
     set_subdomain_owner  |-> Function("setSubnodeOwner", <<"bytes32", "bytes32", "address">>),
     set_record           |-> Function("setRecord", <<"bytes32", "address", "address", "uint">>),
     set_subdomain_record |-> Function("setSubnodeRecord",
                                <<"bytes32", "bytes32", "address", "address", "uint">>),
     set_approval_for_all |-> Function("setApprovalForAll", <<"address", "bool">>),
     is_approved_for_all  |-> Function("isApprovedForAll", <<"address", "address">>),
     record_exists        |-> Function("recordExists", <<"bytes32">>)]

ResolverFunction ==
    [supports_interface     |-> Function("supportsInterface", <<"bytes4">>),
     eth_address            |-> Function("addr", <<"bytes32">>),
     set_eth_address        |-> Function("setAddr", <<"bytes32", "address">>),
     blockchain_address     |-> Function("addr", <<"bytes32", "uint">>),
     set_blockchain_address |-> Function("setAddr", <<"bytes32", "uint", "bytes">>),
     content_hash           |-> Function("contenthash", <<"bytes32">>),
     set_content_hash       |-> Function("setContenthash", <<"bytes32", "bytes">>),
     pubkey                 |-> Function("pubkey", <<"bytes32">>),
     set_pubkey             |-> Function("setPubkey", <<"bytes32", "bytes32", "bytes32">>),
     text                   |-> Function("text", <<"bytes32", "string">>),
     set_text               |-> Function("setText", <<"bytes32", "string", "string">>)]

(* Functions of PublicResolver that Ens does not use. *)
DirectFunction ==
    [name                  |-> Function("name", <<"bytes32">>),
     set_name              |-> Function("setName", <<"bytes32", "string">>),
     abi                   |-> Function("ABI", <<"bytes32", "uint">>),
     set_contract_abi      |-> Function("setABI", <<"bytes32", "uint", "bytes">>),
     dnsrr                 |-> Function("dnsrr", <<"bytes32">>),
     set_dnsrr             |-> Function("setDnsrr", <<"bytes32", "bytes">>),
     multicall             |-> Function("multicall", <<"bytes">>),
     interface_implementer |-> Function("interfaceImplementer", <<"bytes32", "bytes4">>),
     set_interface         |-> Function("setInterface", <<"bytes32", "bytes4", "address">>)]

ReverseFunction ==
    [canonical_name     |-> Function("name", <<"bytes32">>),
     set_canonical_name |-> Function("setName", <<"bytes32", "string">>)]

(* In each ABI file, the arguments of the functions the wrappers name, in the
   order of the file. *)
RegistryAbi ==
    <<Function("isApprovedForAll", <<"address", "address">>), Function("owner", <<"bytes32">>),
      Function("recordExists", <<"bytes32">>), Function("resolver", <<"bytes32">>),
      Function("setApprovalForAll", <<"address", "bool">>),
      Function("setOwner", <<"bytes32", "address">>),
      Function("setRecord", <<"bytes32", "address", "address", "uint">>),
      Function("setResolver", <<"bytes32", "address">>),
      Function("setSubnodeOwner", <<"bytes32", "bytes32", "address">>),
      Function("setSubnodeRecord", <<"bytes32", "bytes32", "address", "address", "uint">>),
      Function("setTTL", <<"bytes32", "uint">>), Function("ttl", <<"bytes32">>)>>

ResolverAbi ==
    <<Function("ABI", <<"bytes32", "uint">>), Function("addr", <<"bytes32">>),
      Function("addr", <<"bytes32", "uint">>), Function("contenthash", <<"bytes32">>),
      Function("interfaceImplementer", <<"bytes32", "bytes4">>),
      Function("multicall", <<"bytes[]">>), Function("name", <<"bytes32">>),
      Function("pubkey", <<"bytes32">>), Function("setABI", <<"bytes32", "uint", "bytes">>),
      Function("setAddr", <<"bytes32", "uint", "bytes">>),
      Function("setAddr", <<"bytes32", "address">>),
      Function("setContenthash", <<"bytes32", "bytes">>),
      Function("setInterface", <<"bytes32", "bytes4", "address">>),
      Function("setName", <<"bytes32", "string">>),
      Function("setPubkey", <<"bytes32", "bytes32", "bytes32">>),
      Function("setText", <<"bytes32", "string", "string">>),
      Function("supportsInterface", <<"bytes4">>), Function("text", <<"bytes32", "string">>)>>

ReverseAbi == <<Function("name", <<"bytes32">>), Function("setName", <<"bytes32", "string">>)>>

(* An argument list is refused if the function is missing or is not the first
   of its name. *)
Encodes(f, abi) ==
    \E i \in DOMAIN abi : abi[i] = f /\ \A j \in 1 .. i - 1 : abi[j].name # f.name

-----------------------------------------------------------------------------
(* The methods. *)

OfRegistry == DOMAIN RegistryFunction
OfReverse  == DOMAIN ReverseFunction
Direct     == DOMAIN DirectFunction
Method     == OfRegistry \cup DOMAIN ResolverFunction \cup OfReverse \cup Direct

Encodable(m) == IF m \in OfRegistry THEN Encodes(RegistryFunction[m], RegistryAbi)
                ELSE IF m \in OfReverse THEN Encodes(ReverseFunction[m], ReverseAbi)
                ELSE IF m \in Direct THEN Encodes(DirectFunction[m], ResolverAbi)
                ELSE Encodes(ResolverFunction[m], ResolverAbi)

RegistryReads  == {"owner", "resolver", "ttl", "record_exists", "is_approved_for_all"}
RegistryWrites == {"set_owner", "set_resolver", "set_ttl", "set_subdomain_owner", "set_record",
                   "set_subdomain_record", "set_approval_for_all"}
AddressWrites  == {"set_eth_address", "set_blockchain_address"}
RecordWrites   == AddressWrites \cup {"set_pubkey", "set_content_hash", "set_text",
                                      "set_canonical_name", "set_name", "set_contract_abi",
                                      "set_dnsrr", "set_interface"}
Writes == RegistryWrites \cup RecordWrites

(* The readers of the public resolver, and two of its writers, first ask
   whether the resolver supports their interface. *)
Interface == [eth_address |-> "addr", blockchain_address |-> "blockchain", pubkey |-> "pubkey",
              content_hash |-> "contenthash", set_content_hash |-> "contenthash",
              text |-> "text", set_text |-> "text"]
IsGated(m) == m \in DOMAIN Interface

-----------------------------------------------------------------------------
VARIABLES
    step,        \* where the future of each operation is
    method,      \* its method
    found,       \* the resolver it was given
    answer,      \* what it read, when it read the record
    resolverOf,  \* the registry: the resolver of the name
    record,      \* record[r]: the record of the name at resolver r
    pool,        \* transactions sent and not mined: an operation and an address
    changes,     \* how many changes others made
    moved        \* the name changed its resolver since the operation looked

opVars    == <<step, method, found, answer>>
chainVars == <<resolverOf, record, pool, changes>>
vars      == <<opVars, chainVars, moved>>

Address == Resolver \cup {Nobody}
Written == Op \cup {Others}

TypeOK ==
    /\ step \in [Op -> {"idle", "lookup", "gate", "final", "done", "failed"}]
    /\ method \in [Op -> Method]
    /\ found \in [Op -> Address] /\ answer \in [Op -> Written]
    /\ resolverOf \in Address /\ record \in [Resolver -> Written]
    /\ pool \in SUBSET [op : Op, to : Address \cup {"registry"}]
    /\ changes \in 0 .. MaxChanges /\ moved \in [Op -> BOOLEAN]

Init ==
    /\ step = [o \in Op |-> "idle"]
    /\ method \in {m \in [Op -> Method] : \A o \in Op : m[o] \in Methods[o]}
    /\ found = [o \in Op |-> Nobody] /\ answer = [o \in Op |-> Others]
    /\ resolverOf \in Address /\ record = [r \in Resolver |-> Others]
    /\ pool = {} /\ changes = 0 /\ moved = [o \in Op |-> FALSE]

Goes(o, from, to) == step[o] = from /\ step' = [step EXCEPT ![o] = to]

(* The name is normalised and hashed; the registry is at a fixed address, and
   a caller of PublicResolver gives the address of the resolver. *)
Start(o) ==
    /\ Goes(o, "idle", IF method[o] \in OfRegistry \cup Direct THEN "final" ELSE "lookup")
    /\ \E r \in IF method[o] \in Direct THEN Resolver ELSE {found[o]} :
          found' = [found EXCEPT ![o] = r]
    /\ UNCHANGED <<method, answer, chainVars, moved>>

(* A name that cannot be normalised, and a call the node does not answer. *)
Fails(o) ==
    /\ step[o] \notin {"done", "failed"}
    /\ step' = [step EXCEPT ![o] = "failed"]
    /\ UNCHANGED <<method, found, answer, chainVars, moved>>

(* Registry::resolver, asked anew by each operation.  Mutant: the resolver
   another operation was given is kept and used again. *)
LookupOnce(o) ==
    /\ Goes(o, "lookup", IF IsGated(method[o]) THEN "gate" ELSE "final")
    /\ \E r \in {resolverOf} \cup {found[p] : p \in {p \in Op : step[p] = "done"}} :
          found' = [found EXCEPT ![o] = r]
    /\ moved' = [moved EXCEPT ![o] = FALSE]
    /\ UNCHANGED <<method, answer, chainVars>>
Lookup(o) ==
    /\ Goes(o, "lookup", IF IsGated(method[o]) THEN "gate" ELSE "final")
    /\ found' = [found EXCEPT ![o] = resolverOf]
    /\ moved' = [moved EXCEPT ![o] = FALSE]
    /\ UNCHANGED <<method, answer, chainVars>>

(* check_interface_support.  Nobody answers with nothing, which is no boolean.
   A content hash that is no hash of a known kind is refused here, after the
   gate.  Mutant: a resolver that does not answer is taken to support it. *)
NotDenied(r, i)    == r = Nobody \/ i \in Supports[r]
HasInterface(r, i) == r # Nobody /\ i \in Supports[r]
Gate(o) ==
    /\ step[o] = "gate"
    /\ \E to \in IF ~HasInterface(found[o], Interface[method[o]]) THEN {"failed"}
                 ELSE IF method[o] = "set_content_hash" THEN {"final", "failed"}
                 ELSE {"final"} :
          step' = [step EXCEPT ![o] = to]
    /\ UNCHANGED <<method, found, answer, chainVars, moved>>

(* The contract the last call goes to.  Mutant: the registry's resolver of
   now, not the one that was asked for its interface. *)
CurrentResolver(o) == resolverOf
Target(o)          == found[o]

(* The registry answers, or the resolver gives its record; Nobody gives
   nothing, which does not decode. *)
Query(o) ==
    /\ step[o] = "final" /\ method[o] \notin Writes
    /\ IF ~Encodable(method[o]) \/ (method[o] \notin OfRegistry /\ Target(o) = Nobody)
         THEN step' = [step EXCEPT ![o] = "failed"] /\ UNCHANGED <<found, answer>>
         ELSE /\ step' = [step EXCEPT ![o] = "done"]
              /\ found' = [found EXCEPT ![o] = IF method[o] = "resolver" THEN resolverOf
                                               ELSE IF method[o] \in OfRegistry THEN @
                                               ELSE Target(o)]
              /\ answer' = [answer EXCEPT ![o] = IF method[o] \in OfRegistry THEN @
                                                 ELSE record[Target(o)]]
    /\ UNCHANGED <<method, chainVars, moved>>

(* A transaction; the node takes one that goes to Nobody, too. *)
Call(o) ==
    /\ step[o] = "final" /\ method[o] \in Writes
    /\ IF ~Encodable(method[o])
         THEN step' = [step EXCEPT ![o] = "failed"] /\ UNCHANGED <<found, pool>>
         ELSE /\ step' = [step EXCEPT ![o] = "done"]
              /\ found' = [found EXCEPT ![o] = IF method[o] \in OfRegistry THEN @ ELSE Target(o)]
              /\ pool' = pool \cup {[op |-> o, to |-> IF method[o] \in OfRegistry
                                                        THEN "registry" ELSE Target(o)]}
    /\ UNCHANGED <<method, answer, resolverOf, record, changes, moved>>

-----------------------------------------------------------------------------
(* The chain. *)

MovesTo(r) == /\ resolverOf' = r
              /\ moved' = [o \in Op |-> moved[o] \/ r # resolverOf]

(* A transaction is mined: the registry changes the resolver, or a resolver
   the record. *)
Mine(t) ==
    /\ t \in pool /\ pool' = pool \ {t}
    /\ IF t.to = "registry" /\ method[t.op] \in {"set_resolver", "set_record"}
         THEN (\E r \in Address : MovesTo(r)) /\ UNCHANGED record
         ELSE /\ record' = [r \in Resolver |-> IF r = t.to THEN t.op ELSE record[r]]
              /\ UNCHANGED <<resolverOf, moved>>
    /\ UNCHANGED <<opVars, changes>>

OthersChange ==
    /\ changes < MaxChanges /\ changes' = changes + 1
    /\ \/ (\E r \in Address : MovesTo(r)) /\ UNCHANGED record
       \/ \E r \in Resolver : record' = [record EXCEPT ![r] = Others] /\ UNCHANGED <<resolverOf, moved>>
    /\ UNCHANGED <<opVars, pool>>

Next == \/ \E o \in Op : Start(o) \/ Fails(o) \/ Lookup(o) \/ Gate(o) \/ Query(o) \/ Call(o)
        \/ (\E t \in pool : Mine(t)) \/ OthersChange

Spec == Init /\ [][Next]_vars

-----------------------------------------------------------------------------
(* An operation that asks for an interface reads or writes only at a resolver
   that has it, even if the name moves to another between its awaits. *)
GateGuards ==
    \A o \in Op : step[o] = "done" /\ IsGated(method[o])
                  => found[o] # Nobody /\ Interface[method[o]] \in Supports[found[o]]

(* Reading the record of a name gives the record at the resolver of the name,
   which includes what an earlier operation wrote there, unless the name moves
   to another resolver after the lookup. *)
ReadsTheName ==
    [][\A o \in Op :
         step[o] # "done" /\ step'[o] = "done" /\ method[o] \notin Writes \cup OfRegistry \cup Direct
           /\ ~moved[o]
         => found'[o] = resolverOf /\ answer'[o] = record[resolverOf]]_vars

(* A name without a resolver has no record: no read ends well, and nothing is
   sent to the zero address except by a writer that does not ask first. *)
NobodyAnswers ==
    /\ \A o \in Op : step[o] = "done" /\ method[o] \notin OfRegistry /\ found[o] = Nobody
                     => method[o] \in RecordWrites /\ ~IsGated(method[o])
    /\ \A t \in pool : t.to = Nobody => ~IsGated(method[t.op])
=============================================================================
