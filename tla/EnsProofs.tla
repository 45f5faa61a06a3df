------------------------------ MODULE EnsProofs ------------------------------
(* Ens: types, the gate of the interfaces, names without a resolver, and what
   a read of a name gives, for any operations, resolvers and changes by
   others. *)
EXTENDS Ens, TLAPS

LEMMA MethodFacts ==
    /\ RegistryWrites \subseteq OfRegistry
    /\ \A m : IsGated(m) => m \notin OfRegistry \cup Direct
    /\ ~IsGated("resolver") /\ "resolver" \in OfRegistry
BY DEF RegistryWrites, OfRegistry, Direct, IsGated, Interface, RegistryFunction, DirectFunction

LEMMA TypeStep == ASSUME TypeOK, [Next]_vars PROVE TypeOK'
<1> USE EnsAssumption DEF TypeOK
<1>1. ASSUME NEW o \in Op, Start(o) \/ Fails(o) PROVE TypeOK'
  BY <1>1 DEF Start, Fails, Goes, Address, chainVars
<1>2. ASSUME NEW o \in Op, Lookup(o) PROVE TypeOK'
  BY <1>2 DEF Lookup, Goes, chainVars
<1>3. ASSUME NEW o \in Op, Gate(o) PROVE TypeOK'
  BY <1>3 DEF Gate, chainVars
<1>4. ASSUME NEW o \in Op, Query(o) PROVE TypeOK'
  <2>1. CASE ~Encodable(method[o]) \/ (method[o] \notin OfRegistry /\ Target(o) = Nobody)
    BY <1>4, <2>1 DEF Query, chainVars
  <2>2. CASE ~(~Encodable(method[o]) \/ (method[o] \notin OfRegistry /\ Target(o) = Nobody))
    <3>1. method[o] \notin OfRegistry => Target(o) \in Resolver
      BY <2>2 DEF Address, Target
    <3>2. found' \in [Op -> Address]
      BY <1>4, <2>2 DEF Query, Target
    <3>3. answer' \in [Op -> Written]
      BY <1>4, <2>2, <3>1 DEF Query
    <3>4. step' \in [Op -> {"idle", "lookup", "gate", "final", "done", "failed"}]
      BY <1>4, <2>2 DEF Query
    <3> QED
      BY <1>4, <3>2, <3>3, <3>4 DEF Query, chainVars
  <2> QED
    BY <2>1, <2>2
<1>5. ASSUME NEW o \in Op, Call(o) PROVE TypeOK'
  BY <1>5 DEF Call, Target, Address
<1>6. ASSUME NEW r \in Address, MovesTo(r)
      PROVE  resolverOf' \in Address /\ moved' \in [Op -> BOOLEAN]
  BY <1>6 DEF MovesTo
<1>7. ASSUME NEW t \in pool, Mine(t) PROVE TypeOK'
  <2>1. pool' \in SUBSET [op : Op, to : Address \cup {"registry"}] /\ t.op \in Op
    BY <1>7 DEF Mine
  <2>2. record' \in [Resolver -> Written]
    BY <1>7, <2>1 DEF Mine, Written
  <2>3. resolverOf' \in Address /\ moved' \in [Op -> BOOLEAN]
    BY <1>6, <1>7 DEF Mine
  <2> QED
    BY <1>7, <2>1, <2>2, <2>3 DEF Mine, opVars
<1>8. CASE OthersChange
  <2>1. record' \in [Resolver -> Written]
    BY <1>8 DEF OthersChange, Written
  <2>2. resolverOf' \in Address /\ moved' \in [Op -> BOOLEAN]
    BY <1>6, <1>8 DEF OthersChange
  <2>3. changes' \in 0 .. MaxChanges
    BY <1>8 DEF OthersChange
  <2> QED
    BY <1>8, <2>1, <2>2, <2>3 DEF OthersChange, opVars
<1>9. CASE UNCHANGED vars
  BY <1>9 DEF vars, opVars, chainVars
<1> HIDE DEF TypeOK
<1> QED
  BY <1>1, <1>2, <1>3, <1>4, <1>5, <1>7, <1>8, <1>9 DEF Next

LEMMA InitType == Init => TypeOK
BY EnsAssumption DEF Init, TypeOK, Written, Address

(* Every operation and every contract of Ens keeps its type, for any number of
   operations, resolvers and changes. *)
THEOREM TypeCorrect == Spec => []TypeOK
BY InitType, TypeStep, PTL DEF Spec

-----------------------------------------------------------------------------
(* GateGuards is not inductive: an operation that is done passed its gate two
   awaits before.  The resolver it was given does not change from the gate on. *)
PastGate ==
    \A o \in Op : step[o] \in {"final", "done"} /\ IsGated(method[o])
                  => found[o] # Nobody /\ Interface[method[o]] \in Supports[found[o]]

IInv == TypeOK /\ PastGate /\ NobodyAnswers

LEMMA PastGateStep ==
    ASSUME TypeOK, PastGate, [Next]_vars PROVE PastGate' /\ method' = method
<1> USE DEF TypeOK, PastGate
<1>1. ASSUME NEW o \in Op, Start(o) PROVE PastGate' /\ method' = method
  <2>1. IsGated(method[o]) => step'[o] = "lookup"
    BY <1>1, MethodFacts DEF Start, Goes
  <2> QED
    BY <1>1, <2>1 DEF Start, Goes
<1>2. ASSUME NEW o \in Op, Fails(o) PROVE PastGate' /\ method' = method
  BY <1>2 DEF Fails
<1>3. ASSUME NEW o \in Op, Lookup(o) PROVE PastGate' /\ method' = method
  BY <1>3 DEF Lookup, Goes
<1>4. ASSUME NEW o \in Op, Gate(o) PROVE PastGate' /\ method' = method
  BY <1>4 DEF Gate, HasInterface
<1>5. ASSUME NEW o \in Op, Query(o) PROVE PastGate' /\ method' = method
  <2>1. \A p \in Op : step'[p] \in {"final", "done"} => step[p] \in {"final", "done"}
    BY <1>5 DEF Query
  <2>2. \A p \in Op : IsGated(method[p]) => found'[p] = found[p]
    BY <1>5, MethodFacts DEF Query, Target
  <2> QED
    BY <1>5, <2>1, <2>2 DEF Query
<1>6. ASSUME NEW o \in Op, Call(o) PROVE PastGate' /\ method' = method
  BY <1>6 DEF Call, Target
<1>7. CASE (\E t \in pool : Mine(t)) \/ OthersChange \/ UNCHANGED vars
  BY <1>7 DEF Mine, OthersChange, vars, opVars
<1> HIDE DEF TypeOK, PastGate
<1> QED
  BY <1>1, <1>2, <1>3, <1>4, <1>5, <1>6, <1>7 DEF Next

LEMMA NobodyStep ==
    ASSUME TypeOK, PastGate, NobodyAnswers, [Next]_vars PROVE NobodyAnswers'
<1> USE DEF TypeOK, NobodyAnswers
<1>0. method' = method
  BY PastGateStep
<1>1. ASSUME NEW o \in Op, Start(o) \/ Fails(o) \/ Lookup(o) \/ Gate(o) PROVE NobodyAnswers'
  <2>1. step'[o] # "done" /\ pool' = pool
    BY <1>1 DEF Start, Fails, Lookup, Gate, Goes, chainVars
  <2>2. \A p \in Op \ {o} : step'[p] = step[p] /\ found'[p] = found[p]
    BY <1>1 DEF Start, Fails, Lookup, Gate, Goes
  <2> QED
    BY <1>0, <2>1, <2>2
<1>2. ASSUME NEW o \in Op, Query(o) PROVE NobodyAnswers'
  <2>1. pool' = pool /\ \A p \in Op \ {o} : step'[p] = step[p] /\ found'[p] = found[p]
    BY <1>2 DEF Query, chainVars
  <2>2. step'[o] = "done" /\ method[o] \notin OfRegistry => found'[o] # Nobody
    BY <1>2, MethodFacts DEF Query, Target
  <2> QED
    BY <1>0, <2>1, <2>2
<1>3. ASSUME NEW o \in Op, Call(o) PROVE NobodyAnswers'
  <2>1. \A p \in Op \ {o} : step'[p] = step[p] /\ found'[p] = found[p]
    BY <1>3 DEF Call
  <2>2. method[o] \notin OfRegistry => method[o] \in RecordWrites
    BY <1>3, MethodFacts DEF Call, Writes
  <2>3. IsGated(method[o]) => found[o] # Nobody
    BY <1>3 DEF Call, PastGate
  <2>4. found'[o] = found[o]
    BY <1>3 DEF Call, Target
  <2>5. \A t \in pool' : t \in pool \/ (t.op = o /\ t.to = found[o]) \/ (t.op = o /\ method[o] \in OfRegistry)
    BY <1>3 DEF Call, Target
  <2>6. \A t \in pool' : t.to = Nobody => ~IsGated(method[t.op])
    BY <2>3, <2>5, MethodFacts
  <2> QED
    BY <1>0, <2>1, <2>2, <2>3, <2>4, <2>6
<1>4. ASSUME NEW t \in pool, Mine(t) PROVE NobodyAnswers'
  BY <1>4 DEF Mine, opVars
<1>5. CASE OthersChange \/ UNCHANGED vars
  BY <1>5 DEF OthersChange, vars, opVars, chainVars
<1> HIDE DEF TypeOK, NobodyAnswers
<1> QED
  BY <1>1, <1>2, <1>3, <1>4, <1>5 DEF Next

(* The inductive invariant. *)
THEOREM InvHolds == Spec => []IInv
<1>1. Init => IInv
  BY InitType DEF Init, IInv, PastGate, NobodyAnswers
<1>2. IInv /\ [Next]_vars => IInv'
  BY TypeStep, PastGateStep, NobodyStep DEF IInv
<1> QED
  BY <1>1, <1>2, PTL DEF Spec

(* An operation that asks for an interface reads or writes only at a resolver
   that has it, wherever the name moves meanwhile. *)
THEOREM GateHolds == Spec => []GateGuards
<1>1. IInv => GateGuards
  BY DEF IInv, PastGate, GateGuards
<1> QED
  BY <1>1, InvHolds, PTL

(* A name without a resolver has no record, and only a writer that does not
   ask first sends anything to the zero address. *)
THEOREM NobodyHolds == Spec => []NobodyAnswers
<1>1. IInv => NobodyAnswers
  BY DEF IInv
<1> QED
  BY <1>1, InvHolds, PTL

-----------------------------------------------------------------------------
(* Reading the record of a name.  ReadsTheName compares the answer with the
   registry of now, while the resolver was looked up awaits before: between the
   two it is the resolver of the name, or the name has moved. *)
Named     == Method \ (OfRegistry \cup Direct)
AtTheName == \A o \in Op : step[o] \in {"gate", "final"} /\ method[o] \in Named /\ ~moved[o]
                          => found[o] = resolverOf

NameInv == TypeOK /\ PastGate /\ AtTheName

LEMMA AtTheNameStep ==
    ASSUME TypeOK, PastGate, AtTheName, [Next]_vars PROVE AtTheName'
<1> USE DEF TypeOK, AtTheName
<1>0. method' = method
  BY PastGateStep
<1>1. ASSUME NEW o \in Op, Start(o) PROVE AtTheName'
  <2>1. method[o] \in Named => step'[o] = "lookup"
    BY <1>1 DEF Start, Goes, Named
  <2>2. /\ \A p \in Op \ {o} : step'[p] = step[p] /\ found'[p] = found[p]
        /\ resolverOf' = resolverOf /\ moved' = moved
    BY <1>1 DEF Start, Goes, chainVars
  <2> QED
    BY <1>0, <2>1, <2>2
<1>2. ASSUME NEW o \in Op, Fails(o) \/ Gate(o) PROVE AtTheName'
  <2>1. \A p \in Op : step'[p] \in {"gate", "final"} => step[p] \in {"gate", "final"}
    BY <1>2 DEF Fails, Gate
  <2> QED
    BY <1>0, <1>2, <2>1 DEF Fails, Gate, chainVars
<1>3. ASSUME NEW o \in Op, Lookup(o) PROVE AtTheName'
  BY <1>0, <1>3 DEF Lookup, Goes, chainVars
<1>4. ASSUME NEW o \in Op, Query(o) \/ Call(o) PROVE AtTheName'
  <2>1. /\ step'[o] \in {"done", "failed"} /\ resolverOf' = resolverOf /\ moved' = moved
        /\ \A p \in Op \ {o} : step'[p] = step[p] /\ found'[p] = found[p]
    BY <1>4 DEF Query, Call, chainVars
  <2> QED
    BY <1>0, <2>1
<1>5. ASSUME NEW r \in Address, MovesTo(r), step' = step, found' = found PROVE AtTheName'
  BY <1>0, <1>5 DEF MovesTo
<1>6. ASSUME NEW t \in pool, Mine(t) PROVE AtTheName'
  BY <1>0, <1>5, <1>6 DEF Mine, opVars
<1>7. CASE OthersChange
  BY <1>0, <1>5, <1>7 DEF OthersChange, opVars
<1>8. CASE UNCHANGED vars
  BY <1>8 DEF vars, opVars, chainVars
<1> HIDE DEF TypeOK, AtTheName
<1> QED
  BY <1>1, <1>2, <1>3, <1>4, <1>6, <1>7, <1>8 DEF Next

(* The step that ends a read gives the record at the resolver the operation
   was given. *)
LEMMA ReadStep ==
    ASSUME NameInv, [Next]_vars, NEW o \in Op, step[o] # "done", step'[o] = "done",
           method[o] \notin Writes, method[o] \in Named, ~moved[o]
    PROVE  found'[o] = resolverOf /\ answer'[o] = record[resolverOf]
<1> USE DEF NameInv, TypeOK
<1>1. ASSUME NEW p \in Op, Start(p) \/ Fails(p) \/ Lookup(p) \/ Gate(p) PROVE FALSE
  BY <1>1 DEF Start, Fails, Lookup, Gate, Goes
<1>2. ASSUME NEW p \in Op, Call(p) PROVE FALSE
  BY <1>2 DEF Call
<1>3. ASSUME NEW p \in Op, Query(p)
      PROVE  found'[o] = resolverOf /\ answer'[o] = record[resolverOf]
  <2>1. p = o /\ step[o] = "final"
    BY <1>3 DEF Query
  <2>2. found[o] = resolverOf
    BY <2>1 DEF AtTheName
  <2>3. method[o] \notin OfRegistry /\ method[o] # "resolver"
    BY MethodFacts DEF Named
  <2> QED
    BY <1>3, <2>1, <2>2, <2>3 DEF Query, Target
<1>4. CASE (\E t \in pool : Mine(t)) \/ OthersChange \/ UNCHANGED vars
  BY <1>4 DEF Mine, OthersChange, vars, opVars
<1> HIDE DEF NameInv, TypeOK
<1> QED
  BY <1>1, <1>2, <1>3, <1>4 DEF Next

(* The inductive invariant of a read. *)
THEOREM NameInvHolds == Spec => []NameInv
<1>1. Init => NameInv
  BY InitType DEF Init, NameInv, PastGate, AtTheName
<1>2. NameInv /\ [Next]_vars => NameInv'
  BY TypeStep, PastGateStep, AtTheNameStep DEF NameInv
<1> QED
  BY <1>1, <1>2, PTL DEF Spec

(* A read that ends well gives the record at the resolver the name has then,
   unless the name moved after the lookup, for any operations and resolvers. *)
THEOREM NamesAreRead == Spec => ReadsTheName
<1>1. NameInv /\ [Next]_vars
      => [\A o \in Op :
            step[o] # "done" /\ step'[o] = "done"
              /\ method[o] \notin Writes \cup OfRegistry \cup Direct /\ ~moved[o]
            => found'[o] = resolverOf /\ answer'[o] = record[resolverOf]]_vars
  <2>1. ASSUME NameInv, [Next]_vars, NEW o \in Op, step[o] # "done", step'[o] = "done",
               method[o] \notin Writes \cup OfRegistry \cup Direct, ~moved[o]
        PROVE  found'[o] = resolverOf /\ answer'[o] = record[resolverOf]
    <3>1. method[o] \notin Writes /\ method[o] \in Named
      BY <2>1 DEF NameInv, TypeOK, Named
    <3> QED
      BY <2>1, <3>1, ReadStep
  <2> QED
    BY <2>1
<1> QED
  BY <1>1, NameInvHolds, PTL DEF Spec, ReadsTheName
=============================================================================
