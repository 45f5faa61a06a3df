------------------------ MODULE BatchTransportProofs ------------------------
(***************************************************************************)
(* Theorems about BatchTransport, for every value of its constants.        *)
(***************************************************************************)
EXTENDS BatchTransport, TLAPS

(* Where the sender of every unresolved request is. *)
Paths == SenderKept /\ OnItsWay /\ Released /\ SentOnce

LEMMA InvParts == BatchInv <=> TypeOK /\ Paths /\ OwnResult
BY DEF BatchInv, Paths

LEMMA InFlightMember == \A r : r \in InFlight <=> \E s \in Submission : r \in Captured(s)
BY DEF InFlight

LEMMA AppendRange ==
    ASSUME NEW S, NEW q \in Seq(S), NEW e \in S
    PROVE  /\ Append(q, e) \in Seq(S)
           /\ Range(Append(q, e)) = Range(q) \cup {e}
           /\ IsInjective(q) /\ e \notin Range(q) => IsInjective(Append(q, e))
<1>1. /\ Append(q, e) \in Seq(S)
      /\ DOMAIN Append(q, e) = 1 .. Len(q) + 1
      /\ \A i \in 1 .. Len(q) : Append(q, e)[i] = q[i]
      /\ Append(q, e)[Len(q) + 1] = e
      /\ DOMAIN q = 1 .. Len(q) /\ Len(q) \in Nat
  OBVIOUS
<1>2. Range(Append(q, e)) = Range(q) \cup {e}
  <2>1. \A x \in Range(Append(q, e)) : x \in Range(q) \cup {e}
    BY <1>1 DEF Range
  <2>2. \A x \in Range(q) \cup {e} : x \in Range(Append(q, e))
    BY <1>1 DEF Range
  <2> QED
    BY <2>1, <2>2
<1>3. IsInjective(q) /\ e \notin Range(q) => IsInjective(Append(q, e))
  BY <1>1 DEF Range, IsInjective
<1> QED
  BY <1>1, <1>2, <1>3

LEMMA EmptyBatch ==
    /\ <<>> \in Seq(Request)
    /\ Range(<<>>) = {}
    /\ IsInjective(<<>>)
    /\ DOMAIN <<>> = {}
BY DEF Range, IsInjective

-----------------------------------------------------------------------------
LEMMA InvInit == Init => BatchInv
<1> SUFFICES ASSUME Init PROVE TypeOK /\ Paths /\ OwnResult
  BY InvParts
<1>1. TypeOK
  BY EmptyBatch DEF Init, TypeOK, Status
<1>2. Collected = {} /\ \A s \in Submission : Captured(s) = {}
  BY EmptyBatch DEF Init, Collected, Captured
<1>3. InFlight = {}
  BY <1>2, InFlightMember
<1>4. Paths
  BY <1>2, <1>3, EmptyBatch DEF Init, Paths, SenderKept, OnItsWay, Released, SentOnce
<1>5. OwnResult
  BY DEF Init, OwnResult
<1> QED
  BY <1>1, <1>4, <1>5

(* A step that moves no request and no submission keeps where they are. *)
LEMMA SameFlight ==
    ASSUME UNCHANGED <<phase, captured>>
    PROVE  InFlight' = InFlight /\ \A s : Captured(s)' = Captured(s)
BY DEF InFlight, Captured

LEMMA WithEntryType ==
    ASSUME TypeOK, NEW r \in Request
    PROVE  /\ DOMAIN WithEntry(r) = DOMAIN pending \cup {id[r]}
           /\ DOMAIN WithEntry(r) \subseteq Id
           /\ WithEntry(r) \in [DOMAIN WithEntry(r) -> Request]
           /\ WithEntry(r)[id[r]] = r
           /\ \A i \in DOMAIN pending : i # id[r] => WithEntry(r)[i] = pending[i]
BY DEF TypeOK, WithEntry

LEMMA ReserveInv ==
    ASSUME BatchInv, NEW r \in Request, Reserve(r)
    PROVE  BatchInv'
<1> USE InvParts
<1>1. /\ UNCHANGED <<id, result, handles, batch, phase, captured, sent>>
      /\ handles /\ status[r] = "idle"
      /\ Collected' = Collected
  BY DEF Reserve, Collected
<1>2. InFlight' = InFlight /\ \A s : Captured(s)' = Captured(s)
  BY <1>1, SameFlight
<1>3. CASE id[r] \in DOMAIN pending
  <2>1. status' = [status EXCEPT ![r] = "unsent"] /\ UNCHANGED pending
    BY <1>3 DEF Reserve, InsertOrRefuse, Goes
  <2>2. TypeOK'
    BY <1>1, <2>1 DEF TypeOK, Status
  <2>3. Paths'
    BY <1>1, <1>2, <2>1 DEF TypeOK, Paths, SenderKept, OnItsWay, Released, SentOnce
  <2>4. OwnResult'
    BY <1>1, <2>1 DEF TypeOK, OwnResult
  <2> QED
    BY <2>2, <2>3, <2>4 DEF BatchInv, Paths
<1>4. CASE id[r] \notin DOMAIN pending
  <2>1. status' = [status EXCEPT ![r] = "reserved"] /\ pending' = WithEntry(r)
    BY <1>4 DEF Reserve, InsertOrRefuse, Goes
  <2>2. TypeOK'
    BY <1>1, <2>1, WithEntryType DEF TypeOK, Status
  <2>3. /\ DOMAIN pending' = DOMAIN pending \cup {id[r]} /\ pending'[id[r]] = r
        /\ \A i \in DOMAIN pending : pending'[i] = pending[i]
    BY <1>4, <2>1, WithEntryType
  <2>4. \A q \in Request : status'[q] = IF q = r THEN "reserved" ELSE status[q]
    BY <2>1 DEF TypeOK
  <2>5. SenderKept'
    BY <1>1, <2>3, <2>4 DEF Paths, SenderKept
  <2>6. \A i \in DOMAIN pending :
            pending[i] \in Request /\ id[pending[i]] = i /\ pending[i] # r
    BY <1>4 DEF TypeOK, Paths, OnItsWay
  <2>7. \A q \in Collected \cup InFlight : q \in Request /\ q # r
    BY <1>1, InFlightMember DEF TypeOK, Paths, OnItsWay, Collected, Captured, Range
  <2>8. OnItsWay'
    BY <1>1, <1>2, <2>3, <2>4, <2>6, <2>7 DEF Paths, OnItsWay
  <2>9. Released' /\ SentOnce'
    BY <1>1, <1>2, <2>4 DEF TypeOK, Paths, Released, SentOnce
  <2>10. OwnResult'
    BY <1>1, <2>4 DEF OwnResult
  <2> QED
    BY <2>2, <2>5, <2>8, <2>9, <2>10 DEF BatchInv, Paths
<1> QED
  BY <1>3, <1>4

LEMMA PushInv ==
    ASSUME BatchInv, NEW r \in Request, Push(r)
    PROVE  BatchInv'
<1> USE InvParts
<1>1. /\ UNCHANGED <<id, result, handles, pending, phase, captured, sent>>
      /\ batch' = Append(batch, r) /\ status[r] = "reserved"
      /\ \A q \in Request : status'[q] = IF q = r THEN "waiting" ELSE status[q]
  BY DEF Push, Goes, TypeOK
<1>2. InFlight' = InFlight /\ \A s : Captured(s)' = Captured(s)
  BY <1>1, SameFlight
<1>3. r \notin Collected /\ \A s \in Submission : r \notin Captured(s)
  BY <1>1, InFlightMember DEF Paths, OnItsWay
<1>4. Collected' = Collected \cup {r} /\ IsInjective(batch')
  BY <1>1, <1>3, AppendRange DEF Collected, TypeOK, Paths, OnItsWay
<1>5. TypeOK'
  BY <1>1, AppendRange DEF TypeOK, Status, Push, Goes
<1>6. SenderKept' /\ Released'
  BY <1>1 DEF Paths, SenderKept, Released
<1>7. \A i \in DOMAIN pending : pending[i] \in Request
  BY DEF TypeOK
<1>8. \A q \in Collected \cup InFlight : q \in Request
  BY InFlightMember DEF TypeOK, Collected, Captured, Range
<1>9. id[r] \in DOMAIN pending /\ pending[id[r]] = r
  BY <1>1 DEF Paths, SenderKept
<1>10. OnItsWay'
  BY <1>1, <1>2, <1>3, <1>4, <1>7, <1>8, <1>9 DEF Paths, OnItsWay
<1>11. OwnResult' /\ SentOnce'
  BY <1>1, <1>2, <1>4 DEF TypeOK, Paths, OwnResult, SentOnce
<1> QED
  BY <1>5, <1>6, <1>10, <1>11 DEF BatchInv, Paths

LEMMA CancelInv ==
    ASSUME BatchInv, NEW r \in Request, Cancel(r)
    PROVE  BatchInv'
<1> USE InvParts
<1>1. /\ UNCHANGED <<id, result, handles, pending, batch, phase, captured, sent>>
      /\ status[r] = "waiting" /\ Collected' = Collected
      /\ status' = [status EXCEPT ![r] = "cancelled"]
  BY DEF Cancel, Goes, Collected
<1>2. InFlight' = InFlight /\ \A s : Captured(s)' = Captured(s)
  BY <1>1, SameFlight
<1>3. \A q \in Request : status'[q] = IF q = r THEN "cancelled" ELSE status[q]
  BY <1>1 DEF TypeOK
<1>4. TypeOK'
  BY <1>1 DEF TypeOK, Status
<1>5. SenderKept' /\ Released' /\ SentOnce' /\ OwnResult'
  BY <1>1, <1>2, <1>3 DEF TypeOK, Paths, SenderKept, Released, SentOnce, OwnResult
<1>6. \A i \in DOMAIN pending : pending[i] \in Request
  BY DEF TypeOK
<1>7. \A q \in Collected \cup InFlight : q \in Request
  BY InFlightMember DEF TypeOK, Collected, Captured, Range
<1>8. OnItsWay'
  BY <1>1, <1>2, <1>3, <1>6, <1>7 DEF Paths, OnItsWay
<1> QED
  BY <1>4, <1>5, <1>8 DEF BatchInv, Paths

-----------------------------------------------------------------------------
LEMMA TakeBatchInv ==
    ASSUME BatchInv, NEW s \in Submission, TakeBatch(s)
    PROVE  BatchInv'
<1> USE InvParts
<1>1. /\ UNCHANGED <<id, status, result, handles, pending, sent>>
      /\ handles /\ phase[s] = "none" /\ batch' = <<>>
      /\ \A t \in Submission : /\ phase'[t] = IF t = s THEN "taken" ELSE phase[t]
                               /\ captured'[t] = IF t = s THEN batch ELSE captured[t]
  BY DEF TakeBatch, Moves, TypeOK
<1>2. TypeOK'
  BY EmptyBatch DEF TakeBatch, Moves, TypeOK
<1>3. /\ Collected' = {} /\ Captured(s) = {} /\ Captured(s)' = Collected
      /\ \A t \in Submission : t # s => Captured(t)' = Captured(t)
  BY <1>1, EmptyBatch DEF Collected, Captured
<1>4. Collected' \cup InFlight' = Collected \cup InFlight
  <2>1. \A r : r \in InFlight' <=> \E t \in Submission : r \in Captured(t)'
    BY DEF InFlight
  <2> QED
    BY <1>3, <2>1, InFlightMember
<1>5. SenderKept' /\ Released' /\ SentOnce' /\ OwnResult'
  BY <1>1, <1>3 DEF Paths, SenderKept, Released, SentOnce, OwnResult
<1>6. OnItsWay'
  <2>1. /\ \A i \in DOMAIN pending' :
              /\ id'[pending'[i]] = i
              /\ status'[pending'[i]] = "reserved" \/ ~handles'
                 \/ pending'[i] \in Collected' \cup InFlight'
        /\ \A r \in Collected' \cup InFlight' :
              /\ status'[r] \in {"waiting", "cancelled"}
              /\ id'[r] \in DOMAIN pending' /\ pending'[id'[r]] = r
    BY <1>1, <1>4 DEF Paths, OnItsWay
  <2>2. /\ \A t \in Submission : Collected' \cap Captured(t)' = {}
        /\ \A t, u \in Submission : t # u => Captured(t)' \cap Captured(u)' = {}
    BY <1>3 DEF Paths, OnItsWay
  <2>3. /\ IsInjective(batch')
        /\ \A t \in Submission :
              phase'[t] \in {"taken", "flying"} => IsInjective(captured'[t])
    BY <1>1, EmptyBatch DEF Paths, OnItsWay
  <2> QED
    BY <2>1, <2>2, <2>3 DEF OnItsWay
<1> QED
  BY <1>2, <1>5, <1>6 DEF BatchInv, Paths

LEMMA SendBatchInv ==
    ASSUME BatchInv, NEW s \in Submission, SendBatch(s)
    PROVE  BatchInv'
<1> USE InvParts
<1>1. /\ UNCHANGED <<id, status, result, handles, pending, batch, captured>>
      /\ phase[s] = "taken" /\ Collected' = Collected
      /\ \A t \in Submission : phase'[t] = IF t = s THEN "flying" ELSE phase[t]
  BY DEF SendBatch, Moves, TypeOK, Collected
<1>2. \A t \in Submission : Captured(t)' = Captured(t)
  BY <1>1 DEF Captured
<1>3. InFlight' = InFlight
  BY <1>2 DEF InFlight
<1>4. Range(captured[s]) \subseteq Request
  BY DEF TypeOK, Range
<1>5. TypeOK'
  BY <1>4 DEF SendBatch, Moves, TypeOK
<1>6. SenderKept' /\ Released' /\ OwnResult'
  BY <1>1 DEF Paths, SenderKept, Released, OwnResult
<1>8. SentOnce'
  <2>1. sent' \subseteq sent \cup Captured(s)
    BY <1>1 DEF SendBatch, Captured
  <2>2. \A r \in Captured(s) : /\ status[r] \in {"waiting", "cancelled"}
                               /\ r \notin Collected
                               /\ \A t \in Submission : t # s => r \notin Captured(t)
    BY InFlightMember DEF Paths, OnItsWay
  <2> QED
    BY <1>1, <1>2, <2>1, <2>2 DEF Paths, SentOnce
<1>7. OnItsWay'
  BY <1>1, <1>2, <1>3 DEF Paths, OnItsWay
<1> QED
  BY <1>5, <1>6, <1>7, <1>8 DEF BatchInv, Paths

-----------------------------------------------------------------------------
(* The end of a submission. *)

(* Every sender the submission captured is still in the map, and is that of
   the request at its position. *)
LEMMA SendersOfFlight ==
    ASSUME BatchInv, NEW s \in Submission, phase[s] = "flying"
    PROVE  /\ Senders(s) = DOMAIN captured[s]
           /\ \A i \in DOMAIN captured[s] : /\ captured[s][i] \in Request
                                            /\ SenderAt(s, i) = captured[s][i]
<1>1. ASSUME NEW i \in DOMAIN captured[s]
      PROVE  /\ captured[s][i] \in Request
             /\ id[captured[s][i]] \in DOMAIN pending
             /\ pending[id[captured[s][i]]] = captured[s][i]
  <2>1. captured[s][i] \in Captured(s)
    BY DEF Captured, Range
  <2>2. captured[s][i] \in InFlight
    BY <2>1, InFlightMember
  <2>3. captured[s][i] \in Request
    BY DEF BatchInv, TypeOK
  <2> QED
    BY <2>2, <2>3 DEF BatchInv, OnItsWay
<1> QED
  BY <1>1 DEF Senders, SenderAt

(* Every waiting request of the submission gets what its position gets. *)
LEMMA EndTold ==
    ASSUME BatchInv, NEW s \in Submission, NEW outcome, EndWith(s, outcome),
           DOMAIN outcome = Senders(s),
           NEW r \in Request, status[r] = "waiting", r \in Captured(s)
    PROVE  \E i \in Senders(s) : SenderAt(s, i) = r /\ status'[r] = outcome[i]
<1>1. phase[s] = "flying" /\ Captured(s) = Range(captured[s])
  BY DEF EndWith, Moves, Captured
<1>2. Told(s, outcome, r) # {}
  BY <1>1, SendersOfFlight DEF Told, Range
<1>3. (CHOOSE i \in Told(s, outcome, r) : TRUE) \in Told(s, outcome, r)
  BY <1>2
<1>4. status'[r] = outcome[CHOOSE i \in Told(s, outcome, r) : TRUE]
  BY <1>2 DEF EndWith
<1> QED
  BY <1>3, <1>4 DEF Told

(* What the end of a submission does to the senders: those it did not capture
   stay, unless the map goes with it. *)
LEMMA EndEffect ==
    ASSUME BatchInv, NEW s \in Submission, NEW outcome, EndWith(s, outcome),
           DOMAIN outcome = Senders(s)
    PROVE  /\ phase[s] = "flying"
           /\ \A r \in Request :
                 /\ status[r] # "waiting" => status'[r] = status[r]
                 /\ status[r] = "waiting" /\ r \notin Captured(s)
                      => status'[r] = IF LastReference(s) /\ r \in Range(pending)
                                        THEN "failed" ELSE "waiting"
           /\ LastReference(s) => pending' = <<>>
           /\ ~LastReference(s) =>
                 /\ DOMAIN pending' = DOMAIN pending \ {id[r] : r \in Captured(s)}
                 /\ \A i \in DOMAIN pending' : pending'[i] = pending[i]
<1>1. phase[s] = "flying" /\ Captured(s) = Range(captured[s])
  BY DEF EndWith, Moves, Captured
<1>2. \A i \in Senders(s) : SenderAt(s, i) = captured[s][i]
  BY <1>1, SendersOfFlight
<1>3. Senders(s) = DOMAIN captured[s]
  BY <1>1, SendersOfFlight
<1>4. ASSUME NEW r \in Request
      PROVE  Told(s, outcome, r) = {i \in DOMAIN captured[s] : captured[s][i] = r}
  BY <1>2, <1>3 DEF Told
<1>5. ASSUME NEW r \in Request
      PROVE  Told(s, outcome, r) # {} <=> r \in Captured(s)
  BY <1>1, <1>4 DEF Range
<1>6. ASSUME NEW r \in Request
      PROVE  status'[r] =
        CASE status[r] # "waiting" -> status[r]
          [] status[r] = "waiting" /\ Told(s, outcome, r) # {}
               -> outcome[CHOOSE i \in Told(s, outcome, r) : TRUE]
          [] OTHER -> IF LastReference(s) /\ r \in Range(pending)
                        THEN "failed" ELSE "waiting"
  BY DEF EndWith
<1>8. ASSUME NEW r \in Request, status[r] = "waiting", r \notin Captured(s)
      PROVE  status'[r] = IF LastReference(s) /\ r \in Range(pending)
                            THEN "failed" ELSE "waiting"
  BY <1>5, <1>6, <1>8
<1>9. ASSUME NEW r \in Request, status[r] # "waiting"
      PROVE  status'[r] = status[r]
  BY <1>6, <1>9
<1>10. {id[captured[s][i]] : i \in DOMAIN outcome} = {id[r] : r \in Captured(s)}
  BY <1>1, <1>3 DEF Range
<1>11. ASSUME ~LastReference(s)
       PROVE  /\ DOMAIN pending' = DOMAIN pending \ {id[r] : r \in Captured(s)}
              /\ \A i \in DOMAIN pending' : pending'[i] = pending[i]
  BY <1>10, <1>11 DEF EndWith, Restrict
<1>12. LastReference(s) => pending' = <<>>
  BY DEF EndWith
<1> QED
  BY <1>1, <1>8, <1>9, <1>11, <1>12

(* A submission that ends keeps every path but its own. *)
LEMMA EndInv ==
    ASSUME BatchInv, NEW s \in Submission, NEW outcome, EndWith(s, outcome),
           DOMAIN outcome = Senders(s),
           \A i \in Senders(s) : outcome[i] \in {"answered", "unsent", "failed"},
           \A i \in Senders(s) : outcome[i] = "unsent" => SenderAt(s, i) \notin sent,
           result' \in [Request -> Request \cup {NoRequest}]
    PROVE  TypeOK' /\ Paths'
<1> USE InvParts
<1>0. ASSUME NEW r \in Request
      PROVE  /\ status[r] # "waiting" => status'[r] = status[r]
             /\ status[r] = "waiting" /\ r \in Captured(s)
                  => /\ status'[r] \in {"answered", "unsent", "failed"}
                     /\ status'[r] = "unsent" => r \notin sent
             /\ status[r] = "waiting" /\ r \notin Captured(s)
                  => status'[r] = IF LastReference(s) /\ r \in Range(pending)
                                    THEN "failed" ELSE "waiting"
  <2>1. ASSUME status[r] = "waiting", r \in Captured(s)
        PROVE  \E i \in Senders(s) : SenderAt(s, i) = r /\ status'[r] = outcome[i]
    BY <2>1, EndTold
  <2> QED
    BY <2>1, EndEffect
<1>1. /\ UNCHANGED <<id, handles, batch, captured, sent>> /\ Collected' = Collected
      /\ phase[s] = "flying"
      /\ \A t \in Submission : phase'[t] = IF t = s THEN "ended" ELSE phase[t]
  BY DEF EndWith, Moves, TypeOK, Collected
<1>2. Captured(s)' = {} /\ \A t \in Submission : t # s => Captured(t)' = Captured(t)
  BY <1>1 DEF Captured
<1>3. \A r \in Collected \cup InFlight : r \in Request
  BY InFlightMember DEF TypeOK, Collected, Captured, Range
<1>4. ASSUME NEW r PROVE r \in InFlight' <=> r \in InFlight /\ r \notin Captured(s)
  <2>1. r \in InFlight' <=> \E t \in Submission : r \in Captured(t)'
    BY DEF InFlight
  <2>2. \A t \in Submission : t # s => Captured(t) \cap Captured(s) = {}
    BY DEF Paths, OnItsWay
  <2> QED
    BY <1>2, <2>1, <2>2, InFlightMember
<1>5. Collected \cap Captured(s) = {}
  BY DEF Paths, OnItsWay
<1>6. status' \in [Request -> Status]
  <2>1. ASSUME NEW r \in Request PROVE status'[r] \in Status
    BY <1>0 DEF TypeOK, Status
  <2> QED
    BY <2>1 DEF EndWith
<1>7. DOMAIN pending' \subseteq Id /\ pending' \in [DOMAIN pending' -> Request]
  <2>1. CASE LastReference(s)
    <3>1. pending' = <<>>
      BY <2>1 DEF EndWith
    <3>2. DOMAIN <<>> \subseteq Id /\ <<>> \in [DOMAIN <<>> -> Request]
      BY EmptyBatch
    <3> QED
      BY <3>1, <3>2
  <2>2. CASE ~LastReference(s)
    <3>1. pending' = Restrict(pending,
                       DOMAIN pending \ {id[captured[s][i]] : i \in DOMAIN outcome})
      BY <2>2 DEF EndWith
    <3> QED
      BY <3>1 DEF TypeOK, Restrict
  <2> QED
    BY <2>1, <2>2
<1>8. TypeOK'
  <2>1. phase' \in [Submission -> {"none", "taken", "flying", "ended"}]
    BY DEF EndWith, Moves, TypeOK
  <2> QED
    BY <1>1, <1>6, <1>7, <2>1 DEF TypeOK
<1>9. Released'
  <2>1. \A r \in Request : status'[r] = "reserved" => status[r] = "reserved"
    BY <1>0
  <2> QED
    BY <1>1, <2>1 DEF Paths, Released
<1>12. SentOnce'
  <2>1. \A r \in Request : r \in sent /\ status[r] # "unsent" /\ status[r] # "reserved"
                            /\ status[r] # "idle"
                            => status'[r] \notin {"idle", "reserved", "unsent"}
    BY <1>0
  <2>2. sent \subseteq Request
    BY DEF TypeOK
  <2> QED
    BY <1>1, <1>2, <2>1, <2>2 DEF Paths, SentOnce
<1>10. CASE LastReference(s)
  <2>1. pending' = <<>> /\ ~handles
    BY <1>10, EndEffect DEF LastReference
  <2>2. Collected' = {} /\ InFlight' = {}
    <3>1. \A t \in Submission : Captured(t)' = {}
      BY <1>2, <1>10 DEF LastReference, Captured
    <3>2. InFlight' = {}
      BY <3>1 DEF InFlight
    <3> QED
      BY <1>1, <2>1, <3>2, EmptyBatch DEF Paths, Released, Collected
  <2>3. SenderKept'
    <3>1. ASSUME NEW r \in Request PROVE status'[r] \notin {"reserved", "waiting"}
      <4>1. status[r] = "waiting" => r \in Range(pending)
        BY DEF Paths, SenderKept, Range
      <4>2. status[r] # "reserved"
        BY <2>1 DEF Paths, Released
      <4> QED
        BY <1>0, <1>10, <4>1, <4>2
    <3> QED
      BY <3>1 DEF SenderKept
  <2>4. OnItsWay'
    <3>1. \A t \in Submission : Captured(t)' = {}
      BY <2>2 DEF InFlight
    <3>2. \A t \in Submission :
            phase'[t] \in {"taken", "flying"} => IsInjective(captured'[t])
      BY <1>1 DEF Paths, OnItsWay
    <3>3. IsInjective(batch') /\ DOMAIN pending' = {}
      BY <1>1, <2>1, EmptyBatch DEF Paths, OnItsWay
    <3> QED
      BY <2>2, <3>1, <3>2, <3>3 DEF OnItsWay
  <2> QED
    BY <1>8, <1>9, <1>12, <2>3, <2>4 DEF Paths
<1>11. CASE ~LastReference(s)
  <2>1. /\ DOMAIN pending' = DOMAIN pending \ {id[r] : r \in Captured(s)}
        /\ \A i \in DOMAIN pending' : pending'[i] = pending[i]
    BY <1>11, EndEffect
  <2>2. \A r \in Request : r \notin Captured(s) => status'[r] = status[r]
    BY <1>0, <1>11 DEF TypeOK
  <2>3. \A r \in Captured(s) : /\ r \in InFlight /\ r \in Request
                               /\ status[r] # "reserved"
                               /\ pending[id[r]] = r
    BY <1>3, InFlightMember DEF Paths, OnItsWay
  <2>4. \A r \in Request : id[r] \in DOMAIN pending /\ pending[id[r]] = r /\ r \notin Captured(s)
                           => id[r] \in DOMAIN pending' /\ pending'[id[r]] = r
    BY <2>1, <2>3
  <2>5. SenderKept'
    <3>1. \A r \in Captured(s) : status'[r] \notin {"reserved", "waiting"}
      BY <1>0, <2>3
    <3> QED
      BY <1>1, <2>2, <2>4, <3>1 DEF Paths, SenderKept
  <2>6. \A i \in DOMAIN pending' :
          /\ id'[pending'[i]] = i
          /\ status'[pending'[i]] = "reserved" \/ ~handles'
             \/ pending'[i] \in Collected' \cup InFlight'
    <3>1. ASSUME NEW i \in DOMAIN pending'
          PROVE  /\ i \in DOMAIN pending /\ pending'[i] = pending[i]
                 /\ pending[i] \in Request /\ pending[i] \notin Captured(s)
                 /\ id[pending[i]] = i
      BY <2>1 DEF TypeOK, Paths, OnItsWay
    <3> QED
      BY <1>1, <1>4, <2>2, <3>1 DEF Paths, OnItsWay
  <2>7. \A r \in Collected' \cup InFlight' :
          /\ status'[r] \in {"waiting", "cancelled"}
          /\ id'[r] \in DOMAIN pending' /\ pending'[id'[r]] = r
    <3>1. \A r \in Collected' \cup InFlight' :
            r \in Request /\ r \in Collected \cup InFlight /\ r \notin Captured(s)
      BY <1>1, <1>3, <1>4, <1>5
    <3> QED
      BY <1>1, <2>2, <2>4, <3>1 DEF Paths, OnItsWay
  <2>8. /\ \A t \in Submission : Collected' \cap Captured(t)' = {}
        /\ \A t, u \in Submission : t # u => Captured(t)' \cap Captured(u)' = {}
    BY <1>1, <1>2 DEF Paths, OnItsWay
  <2>9. /\ IsInjective(batch')
        /\ \A t \in Submission :
              phase'[t] \in {"taken", "flying"} => IsInjective(captured'[t])
    BY <1>1 DEF Paths, OnItsWay
  <2>10. OnItsWay'
    BY <2>6, <2>7, <2>8, <2>9 DEF OnItsWay
  <2> QED
    BY <1>8, <1>9, <1>12, <2>5, <2>10 DEF Paths
<1> QED
  BY <1>10, <1>11

-----------------------------------------------------------------------------
(* An answer given before the submission ended is still right, and those that
   are given now are those of the results. *)
LEMMA OldAnswers ==
    ASSUME BatchInv, NEW s \in Submission, NEW outcome, EndWith(s, outcome),
           DOMAIN outcome = Senders(s),
           \A i \in Senders(s) : outcome[i] \in {"unsent", "failed"},
           UNCHANGED result
    PROVE  OwnResult'
<1>1. ASSUME NEW r \in Request, status'[r] = "answered"
      PROVE  status[r] = "answered"
  <2>1. ASSUME status[r] = "waiting", r \in Captured(s)
        PROVE  \E i \in Senders(s) : SenderAt(s, i) = r /\ status'[r] = outcome[i]
    BY <2>1, EndTold
  <2>2. /\ status[r] # "waiting" => status'[r] = status[r]
        /\ status[r] = "waiting" /\ r \notin Captured(s)
             => status'[r] \in {"failed", "waiting"}
    BY EndEffect
  <2> QED
    BY <1>1, <2>1, <2>2
<1> QED
  BY <1>1 DEF BatchInv, OwnResult

LEMMA AllFailInv ==
    ASSUME BatchInv, NEW s \in Submission, NEW st \in {"unsent", "failed"},
           EndWith(s, AllGet(s, st)), UNCHANGED result,
           st = "unsent" => Captured(s) \cap sent = {}
    PROVE  BatchInv'
<1>1. /\ DOMAIN AllGet(s, st) = Senders(s)
      /\ \A i \in Senders(s) : AllGet(s, st)[i] \in {"unsent", "failed"}
  BY DEF AllGet
<1>2. \A i \in Senders(s) : AllGet(s, st)[i] \in {"answered", "unsent", "failed"}
  BY <1>1
<1>3. result' \in [Request -> Request \cup {NoRequest}]
  BY DEF BatchInv, TypeOK
<1>6. \A i \in Senders(s) : AllGet(s, st)[i] = "unsent" => SenderAt(s, i) \notin sent
  <2>1. phase[s] = "flying" /\ Captured(s) = Range(captured[s])
    BY DEF EndWith, Moves, Captured
  <2> QED
    BY <2>1, SendersOfFlight DEF AllGet, Range
<1>4. TypeOK' /\ Paths'
  BY <1>1, <1>2, <1>3, <1>6, EndInv
<1>5. OwnResult'
  BY <1>1, OldAnswers
<1> QED
  BY <1>4, <1>5 DEF BatchInv, Paths

LEMMA InnerReturnsInv ==
    ASSUME BatchInv, NEW s \in Submission, InnerReturns(s)
    PROVE  BatchInv'
<1>1. PICK results \in ResultLists(s) :
        \/ /\ Fits(s, results)
           /\ EndWith(s, [i \in Senders(s) |->
                           IF i <= Len(results) THEN "answered" ELSE "failed"])
           /\ result' = [r \in Request |->
                IF status[r] = "waiting" /\ status'[r] = "answered"
                  THEN results[CHOOSE i \in Senders(s) : SenderAt(s, i) = r]
                  ELSE result[r]]
        \/ /\ ~Fits(s, results)
           /\ EndWith(s, AllGet(s, "failed"))
           /\ UNCHANGED result
  BY DEF InnerReturns
<1>2. CASE ~Fits(s, results)
  BY <1>1, <1>2, AllFailInv
<1>3. CASE Fits(s, results)
  <2> DEFINE outcome == [i \in Senders(s) |->
                           IF i <= Len(results) THEN "answered" ELSE "failed"]
  <2>1. EndWith(s, outcome) /\ phase[s] = "flying"
    BY <1>1, <1>3 DEF EndWith, Moves
  <2>2. captured[s] \in Seq(Request)
    BY DEF BatchInv, TypeOK
  <2>3. results = captured[s]
    <3>1. CASE captured[s] = <<>>
      BY <3>1 DEF ResultLists
    <3>2. CASE captured[s] # <<>>
      <4>1. Len(Tail(captured[s])) = Len(captured[s]) - 1 /\ Len(captured[s]) \in Nat
        BY <2>2, <3>2
      <4>2. Len(<<captured[s][1]>> \o captured[s]) = Len(captured[s]) + 1
        BY <2>2, <3>2
      <4> QED
        BY <1>3, <4>1, <4>2 DEF ResultLists, Fits
    <3> QED
      BY <3>1, <3>2
  <2>4. ASSUME NEW r \in Request, status[r] = "waiting", status'[r] = "answered"
        PROVE  results[CHOOSE i \in Senders(s) : SenderAt(s, i) = r] = r
    <3>1. DOMAIN outcome = Senders(s)
      OBVIOUS
    <3>2. r \in Captured(s)
      <4>1. status[r] = "waiting" /\ r \notin Captured(s)
              => status'[r] \in {"failed", "waiting"}
        BY <2>1, <3>1, EndEffect
      <4> QED
        BY <2>4, <4>1
    <3>3. \E i \in Senders(s) : SenderAt(s, i) = r
      BY <2>1, <2>4, <3>1, <3>2, EndTold
    <3> QED
      BY <2>1, <2>3, <3>3, SendersOfFlight
  <2>5. result' = [r \in Request |->
                IF status[r] = "waiting" /\ status'[r] = "answered"
                  THEN results[CHOOSE i \in Senders(s) : SenderAt(s, i) = r]
                  ELSE result[r]]
    BY <1>1, <1>3
  <2>6. result' \in [Request -> Request \cup {NoRequest}]
    BY <2>4, <2>5 DEF BatchInv, TypeOK
  <2>7. /\ DOMAIN outcome = Senders(s)
        /\ \A i \in Senders(s) : outcome[i] \in {"answered", "unsent", "failed"}
        /\ \A i \in Senders(s) : outcome[i] = "unsent" => SenderAt(s, i) \notin sent
    OBVIOUS
  <2> HIDE DEF outcome
  <2>8. TypeOK' /\ Paths'
    BY <2>1, <2>6, <2>7, EndInv
  <2>9. OwnResult'
    <3>1. ASSUME NEW r \in Request, status'[r] = "answered"
          PROVE  result'[r] = r
      <4>1. status[r] # "waiting" => status'[r] = status[r]
        BY <2>1, <2>7, EndEffect
      <4> QED
        BY <2>4, <2>5, <3>1, <4>1 DEF BatchInv, OwnResult
    <3> QED
      BY <3>1 DEF OwnResult
  <2> QED
    BY <2>8, <2>9 DEF BatchInv, Paths
<1> QED
  BY <1>2, <1>3

LEMMA InnerFailsInv ==
    ASSUME BatchInv, NEW s \in Submission, InnerFails(s)
    PROVE  BatchInv'
<1>1. PICK error \in {"unsent", "failed"} :
        /\ EndWith(s, AllGet(s, error))
        /\ error = "unsent" => Range(captured[s]) \cap sent = {}
  BY DEF InnerFails
<1>2. Captured(s) = Range(captured[s])
  BY <1>1 DEF EndWith, Moves, Captured
<1> QED
  BY <1>1, <1>2, AllFailInv DEF InnerFails

LEMMA DropHandlesInv ==
    ASSUME BatchInv, DropHandles
    PROVE  BatchInv'
<1> USE InvParts
<1>1. /\ UNCHANGED <<id, result, phase, captured, sent>>
      /\ handles' = FALSE /\ batch' = <<>>
      /\ \A r \in Request : status[r] # "reserved"
      /\ \A s \in Submission : phase[s] # "taken"
  BY DEF DropHandles
<1>2. /\ InFlight' = InFlight /\ \A s : Captured(s)' = Captured(s)
      /\ Collected' = {}
  BY <1>1, SameFlight, EmptyBatch DEF Collected
<1>3. \A r \in InFlight : r \in Request
  BY InFlightMember DEF TypeOK, Captured, Range
<1>4. CASE \A s \in Submission : phase[s] # "flying"
  <2>1. /\ status' = [r \in Request |-> IF status[r] = "waiting" /\ r \in Range(pending)
                                          THEN "failed" ELSE status[r]]
        /\ pending' = <<>>
    BY <1>4 DEF DropHandles
  <2>2. \A s \in Submission : Captured(s) = {}
    BY <1>1, <1>4 DEF Captured
  <2>3. InFlight' = {}
    BY <1>2, <2>2, InFlightMember
  <2>4. status' \in [Request -> Status]
    BY <2>1 DEF TypeOK, Status
  <2>5. DOMAIN <<>> \subseteq Id /\ <<>> \in [DOMAIN <<>> -> Request]
    BY EmptyBatch
  <2>6. TypeOK'
    BY <1>1, <2>1, <2>4, <2>5, EmptyBatch DEF TypeOK
  <2>7. \A r \in Request : status'[r] \notin {"reserved", "waiting"}
    BY <1>1, <2>1 DEF Paths, SenderKept, Range
  <2>8. SenderKept' /\ Released' /\ SentOnce'
    BY <1>1, <1>2, <2>1, <2>7 DEF TypeOK, Paths, SenderKept, Released, SentOnce
  <2>9. OnItsWay'
    BY <1>1, <1>2, <2>1, <2>2, <2>3, EmptyBatch DEF Paths, OnItsWay
  <2>10. OwnResult'
    BY <1>1, <2>1 DEF OwnResult
  <2> QED
    BY <2>6, <2>8, <2>9, <2>10 DEF BatchInv, Paths
<1>5. CASE ~\A s \in Submission : phase[s] # "flying"
  <2>1. UNCHANGED <<status, pending>>
    BY <1>5 DEF DropHandles
  <2>2. TypeOK'
    BY <1>1, <2>1, EmptyBatch DEF TypeOK
  <2>3. SenderKept' /\ Released' /\ SentOnce' /\ OwnResult'
    BY <1>1, <1>2, <2>1 DEF Paths, SenderKept, Released, SentOnce, OwnResult
  <2>4. OnItsWay'
    BY <1>1, <1>2, <2>1, EmptyBatch DEF Paths, OnItsWay
  <2> QED
    BY <2>2, <2>3, <2>4 DEF BatchInv, Paths
<1> QED
  BY <1>4, <1>5

-----------------------------------------------------------------------------
(* The theorems. *)

LEMMA InvNext == BatchInv /\ [Next]_vars => BatchInv'
<1> SUFFICES ASSUME BatchInv, [Next]_vars PROVE BatchInv'
  OBVIOUS
<1>1. ASSUME NEW r \in Request, Send(r) \/ Cancel(r) PROVE BatchInv'
  BY <1>1, ReserveInv, PushInv, CancelInv DEF Send
<1>2. ASSUME NEW s \in Submission, Submit(s) PROVE BatchInv'
  BY <1>2, TakeBatchInv, SendBatchInv DEF Submit
<1>3. ASSUME NEW s \in Submission, Inner(s) PROVE BatchInv'
  BY <1>3, InnerReturnsInv, InnerFailsInv DEF Inner
<1>4. ASSUME NEW s \in Submission, DropSubmission(s) PROVE BatchInv'
  BY <1>4, AllFailInv DEF DropSubmission
<1>5. CASE UNCHANGED vars
  <2>1. /\ UNCHANGED <<id, status, result, handles, pending, batch, phase, captured, sent>>
        /\ Collected' = Collected
    BY <1>5 DEF vars, Collected
  <2>2. InFlight' = InFlight /\ \A s : Captured(s)' = Captured(s)
    BY <2>1, SameFlight
  <2>3. TypeOK' /\ SenderKept' /\ Released' /\ SentOnce' /\ OwnResult'
    BY <2>1, <2>2 DEF BatchInv, TypeOK, SenderKept, Released, SentOnce, OwnResult
  <2>4. OnItsWay'
    BY <2>1, <2>2 DEF BatchInv, OnItsWay
  <2> QED
    BY <2>3, <2>4 DEF BatchInv
<1> QED
  BY <1>1, <1>2, <1>3, <1>4, <1>5, DropHandlesInv DEF Next

(* Every reachable state has well-typed variables, and every sender that
   waits in the map belongs to exactly one request that is on its way to be
   submitted, whatever threads do between the two locks of send. *)
THEOREM InvHolds == Spec => []BatchInv
<1> QED
  BY InvInit, InvNext, PTL DEF Spec

(* Whatever the threads do between the locks, the sender of every waiting
   request is in the map under the id of its own request: no submission, no
   collision and no drop takes it away without resolving the future. *)
THEOREM SendersAreKept == Spec => []SenderKept
<1>1. BatchInv => SenderKept
  BY DEF BatchInv
<1> QED
  BY <1>1, InvHolds, PTL

(* A request is answered with the result at its own position of its own
   batch: the length check of submit_batch excludes a shifted list, and the
   collision check of send keeps requests that share an id apart. *)
THEOREM ResultsAreOwn == Spec => []OwnResult
<1>1. BatchInv => OwnResult
  BY DEF BatchInv
<1> QED
  BY <1>1, InvHolds, PTL

-----------------------------------------------------------------------------
(* The refinement of RpcClient. *)

(* What the caller of r can tell from its future. *)
Known(r) == IF status[r] = "reserved" THEN "idle" ELSE status[r]

LEMMA PromisedIsKnown == BatchInv => [r \in Request |-> Promised(r)] = [r \in Request |-> Known(r)]
BY DEF BatchInv, OwnResult, Promised, Known

LEMMA PromisedIsKnownNext ==
    BatchInv' => [r \in Request |-> Promised(r)]' = [r \in Request |-> Known(r)]'
BY DEF BatchInv, OwnResult, Promised, Known

LEMMA ClientInit == Init => Client!Init
<1> SUFFICES ASSUME Init PROVE Client!Init
  OBVIOUS
<1>1. \A r \in Request : Promised(r) = "idle"
  BY DEF Init, Promised
<1> QED
  BY <1>1 DEF Init, Client!Init

(* The step of a client that issues r. *)
LEMMA IssueRefines ==
    ASSUME BatchInv, BatchInv', NEW r \in Request, NEW st \in {"waiting", "unsent"},
           Known(r) = "idle", status' = [status EXCEPT ![r] = st], sent' = sent
    PROVE  Client!Next
<1>1. \A q \in Request : Known(q)' = IF q = r THEN st ELSE Known(q)
  BY DEF Known, BatchInv, TypeOK
<1>2. [q \in Request |-> Promised(q)]' =
        [q \in Request |-> IF q \in {r} THEN st ELSE [p \in Request |-> Promised(p)][q]]
  BY <1>1, PromisedIsKnown, PromisedIsKnownNext
<1>3. \A q \in {r} : [p \in Request |-> Promised(p)][q] = "idle"
  BY PromisedIsKnown
<1>4. Client!Issue({r})
  BY <1>2, <1>3 DEF Client!Issue
<1> QED
  BY <1>4 DEF Client!Next

(* The step in which futures that waited resolve. *)
LEMMA ResolveRefines ==
    ASSUME BatchInv, BatchInv', sent' = sent,
           \A r \in Request : status'[r] # status[r] =>
              /\ status[r] = "waiting"
              /\ \/ status'[r] \in {"failed", "cancelled"}
                 \/ status'[r] = "answered" /\ r \in sent
                 \/ status'[r] = "unsent" /\ r \notin sent
    PROVE  Client!Next
<1>1. [r \in Request |-> Promised(r)] = [r \in Request |-> Known(r)]
  BY PromisedIsKnown
<1>2. [r \in Request |-> Promised(r)]' = [r \in Request |-> Known(r)']
  BY PromisedIsKnownNext
<1>3. \A r \in Request : Known(r)' \in Client!Status
  BY DEF Known, Client!Status, BatchInv, TypeOK, Status
<1>4. \A r \in Request : Known(r)' # Known(r) =>
        Known(r) = "waiting" /\ Known(r)' \in Client!Outcome(r)
  BY DEF Known, Client!Outcome
<1>5. Client!Resolve
  BY <1>1, <1>2, <1>3, <1>4 DEF Client!Resolve
<1> QED
  BY <1>5 DEF Client!Next

(* A step that the client does not see. *)
LEMMA StutterRefines ==
    ASSUME BatchInv, BatchInv', sent' = sent, \A r \in Request : Known(r)' = Known(r)
    PROVE  UNCHANGED Client!vars
BY PromisedIsKnown, PromisedIsKnownNext DEF Client!vars

LEMMA SendBatchRefines ==
    ASSUME BatchInv, BatchInv', NEW s \in Submission, SendBatch(s)
    PROVE  Client!Next \/ UNCHANGED Client!vars
<1>1. status' = status /\ sent' \in {sent, sent \cup Captured(s)} /\ phase[s] = "taken"
  BY DEF SendBatch, Moves, Captured
<1>2. \A r \in Request : Known(r)' = Known(r)
  BY <1>1 DEF Known
<1>3. CASE sent' = sent
  BY <1>2, <1>3, StutterRefines
<1>4. CASE sent' = sent \cup Captured(s)
  <2>1. \A r \in Captured(s) : /\ r \in Request /\ r \notin sent
                               /\ status[r] \in {"waiting", "cancelled"}
    BY <1>1, InFlightMember DEF BatchInv, TypeOK, OnItsWay, SentOnce, Captured, Range
  <2>2. \A r \in Captured(s) : /\ [q \in Request |-> Promised(q)][r] \in {"waiting", "cancelled"}
                               /\ r \notin sent
    BY <2>1, PromisedIsKnown DEF Known
  <2>3. [r \in Request |-> Promised(r)]' = [r \in Request |-> Promised(r)]
    BY <1>2, PromisedIsKnown, PromisedIsKnownNext
  <2>4. Client!Execute(Captured(s)) /\ Captured(s) \in SUBSET Request
    BY <1>4, <2>1, <2>2, <2>3 DEF Client!Execute
  <2> QED
    BY <2>4 DEF Client!Next
<1> QED
  BY <1>1, <1>3, <1>4

LEMMA EndRefines ==
    ASSUME BatchInv, BatchInv', NEW s \in Submission, NEW outcome, EndWith(s, outcome),
           DOMAIN outcome = Senders(s),
           \A i \in Senders(s) : \/ outcome[i] = "failed"
                                 \/ outcome[i] = "answered" /\ SenderAt(s, i) \in sent
                                 \/ outcome[i] = "unsent" /\ SenderAt(s, i) \notin sent
    PROVE  Client!Next
<1>1. ASSUME NEW r \in Request, status'[r] # status[r]
      PROVE  /\ status[r] = "waiting"
             /\ \/ status'[r] = "failed"
                \/ status'[r] = "answered" /\ r \in sent
                \/ status'[r] = "unsent" /\ r \notin sent
  <2>1. status[r] = "waiting"
    BY <1>1, EndEffect
  <2>2. CASE r \in Captured(s)
    BY <2>1, <2>2, EndTold
  <2>3. CASE r \notin Captured(s)
    BY <1>1, <2>1, <2>3, EndEffect
  <2> QED
    BY <2>1, <2>2, <2>3
<1>2. sent' = sent
  BY DEF EndWith
<1> QED
  BY <1>1, <1>2, ResolveRefines

LEMMA AllFailRefines ==
    ASSUME BatchInv, BatchInv', NEW s \in Submission, NEW st \in {"unsent", "failed"},
           EndWith(s, AllGet(s, st)),
           st = "unsent" => Captured(s) \cap sent = {}
    PROVE  Client!Next
<1>1. phase[s] = "flying" /\ Captured(s) = Range(captured[s])
  BY DEF EndWith, Moves, Captured
<1>2. \A i \in Senders(s) : SenderAt(s, i) \in Captured(s)
  BY <1>1, SendersOfFlight DEF Range
<1>3. /\ DOMAIN AllGet(s, st) = Senders(s)
      /\ \A i \in Senders(s) : AllGet(s, st)[i] = st
  BY DEF AllGet
<1>4. \A i \in Senders(s) :
        \/ AllGet(s, st)[i] = "failed"
        \/ AllGet(s, st)[i] = "answered" /\ SenderAt(s, i) \in sent
        \/ AllGet(s, st)[i] = "unsent" /\ SenderAt(s, i) \notin sent
  BY <1>2, <1>3
<1> QED
  BY <1>3, <1>4, EndRefines

LEMMA InnerReturnsRefines ==
    ASSUME BatchInv, BatchInv', NEW s \in Submission, InnerReturns(s)
    PROVE  Client!Next
<1>1. PICK results \in ResultLists(s) :
        \/ EndWith(s, [i \in Senders(s) |->
                        IF i <= Len(results) THEN "answered" ELSE "failed"])
        \/ EndWith(s, AllGet(s, "failed"))
  BY DEF InnerReturns
<1>2. CASE EndWith(s, AllGet(s, "failed"))
  BY <1>2, AllFailRefines
<1>3. CASE EndWith(s, [i \in Senders(s) |->
                        IF i <= Len(results) THEN "answered" ELSE "failed"])
  <2> DEFINE outcome == [i \in Senders(s) |->
                           IF i <= Len(results) THEN "answered" ELSE "failed"]
  <2>1. phase[s] = "flying" /\ Range(captured[s]) \subseteq sent
    BY <1>3 DEF InnerReturns, EndWith, Moves
  <2>2. \A i \in Senders(s) : SenderAt(s, i) \in sent
    BY <2>1, SendersOfFlight DEF Range
  <2>3. /\ DOMAIN outcome = Senders(s)
        /\ \A i \in Senders(s) :
             \/ outcome[i] = "failed"
             \/ outcome[i] = "answered" /\ SenderAt(s, i) \in sent
             \/ outcome[i] = "unsent" /\ SenderAt(s, i) \notin sent
    BY <2>2
  <2>4. EndWith(s, outcome)
    BY <1>3
  <2> HIDE DEF outcome
  <2> QED
    BY <2>3, <2>4, EndRefines
<1> QED
  BY <1>1, <1>2, <1>3

LEMMA StepRefines ==
    ASSUME BatchInv, BatchInv', [Next]_vars
    PROVE  Client!Next \/ UNCHANGED Client!vars
<1>1. ASSUME NEW r \in Request, Reserve(r) PROVE Client!Next \/ UNCHANGED Client!vars
  <2>1. status[r] = "idle" /\ sent' = sent /\ Known(r) = "idle"
    BY <1>1 DEF Reserve, Known
  <2>2. CASE status' = [status EXCEPT ![r] = "unsent"]
    BY <2>1, <2>2, IssueRefines
  <2>3. CASE status' = [status EXCEPT ![r] = "reserved"]
    <3>1. \A q \in Request : Known(q)' = Known(q)
      BY <2>1, <2>3 DEF Known, BatchInv, TypeOK
    <3> QED
      BY <2>1, <3>1, StutterRefines
  <2> QED
    BY <1>1, <2>2, <2>3 DEF Reserve, InsertOrRefuse, Goes
<1>2. ASSUME NEW r \in Request, Push(r) PROVE Client!Next
  <2>1. /\ Known(r) = "idle" /\ sent' = sent
        /\ status' = [status EXCEPT ![r] = "waiting"]
    BY <1>2 DEF Push, Goes, Known
  <2> QED
    BY <2>1, IssueRefines
<1>3. ASSUME NEW r \in Request, Cancel(r) PROVE Client!Next
  <2>1. /\ status[r] = "waiting" /\ sent' = sent
        /\ \A q \in Request : status'[q] = IF q = r THEN "cancelled" ELSE status[q]
    BY <1>3 DEF Cancel, Goes, BatchInv, TypeOK
  <2> QED
    BY <2>1, ResolveRefines
<1>4. ASSUME NEW s \in Submission, TakeBatch(s) PROVE UNCHANGED Client!vars
  <2>1. sent' = sent /\ \A r \in Request : Known(r)' = Known(r)
    BY <1>4 DEF TakeBatch, Known
  <2> QED
    BY <2>1, StutterRefines
<1>5. ASSUME NEW s \in Submission, InnerFails(s) PROVE Client!Next
  <2>1. PICK error \in {"unsent", "failed"} :
          /\ EndWith(s, AllGet(s, error))
          /\ error = "unsent" => Range(captured[s]) \cap sent = {}
    BY <1>5 DEF InnerFails
  <2>2. Captured(s) = Range(captured[s])
    BY <2>1 DEF EndWith, Moves, Captured
  <2> QED
    BY <2>1, <2>2, AllFailRefines
<1>6. ASSUME NEW s \in Submission, DropSubmission(s) PROVE Client!Next
  BY <1>6, AllFailRefines DEF DropSubmission
<1>7. CASE DropHandles
  <2>1. sent' = sent
    BY <1>7 DEF DropHandles
  <2>2. \A r \in Request : status'[r] # status[r]
                           => status[r] = "waiting" /\ status'[r] = "failed"
    BY <1>7 DEF DropHandles
  <2> QED
    BY <2>1, <2>2, ResolveRefines
<1>8. CASE UNCHANGED vars
  <2>1. sent' = sent /\ \A r \in Request : Known(r)' = Known(r)
    BY <1>8 DEF vars, Known
  <2> QED
    BY <2>1, StutterRefines
<1> QED
  BY <1>1, <1>2, <1>3, <1>4, <1>5, <1>6, <1>7, <1>8, SendBatchRefines, InnerReturnsRefines
  DEF Next, Send, Submit, Inner

(* The batch transport implements the promise of RpcClient over any inner
   transport: a request is executed at most once and never after its caller
   was told that it was not sent, each future resolves once, and an answer is
   the request's own. *)
THEOREM ImplementsRpcClient == Spec => ClientSpec
<1>1. Init => Client!Init
  BY ClientInit
<1>2. BatchInv /\ BatchInv' /\ [Next]_vars => [Client!Next]_(Client!vars)
  BY StepRefines
<1> QED
  BY <1>1, <1>2, InvHolds, PTL DEF Spec, ClientSpec, Client!Spec
=============================================================================
