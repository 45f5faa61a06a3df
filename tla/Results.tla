------------------------------- MODULE Results -------------------------------
(* Rust's Result: a value, or a failure of which nothing else is kept. *)
Ok(value) == [ok |-> TRUE, value |-> value]
Fails     == [ok |-> FALSE]

(* collect of an iterator of results: every item, or the failure of one. *)
Collect(results) ==
    IF \A k \in DOMAIN results : results[k].ok
      THEN Ok([k \in DOMAIN results |-> results[k].value]) ELSE Fails
=============================================================================
