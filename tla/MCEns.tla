------------------------------- MODULE MCEns -------------------------------
(* An instance of Ens: any method next to a writer, over an old resolver that
   knows addresses only and a new one that supports everything. *)
EXTENDS Ens

CONSTANTS reader, old, new

MCMethods == [o \in Op |-> IF o = reader THEN Method
                           ELSE {"set_resolver", "set_pubkey", "set_text", "set_eth_address"}]
MCSupports == [r \in Resolver |-> IF r = old THEN {"addr"}
                                  ELSE {"addr", "blockchain", "pubkey", "text", "contenthash"}]
=============================================================================
