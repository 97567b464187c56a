----------------------- MODULE PaymentInvariantProofs -----------------------
(***************************************************************************)
(* PaymentInvariant is inductive, and what follows from it for any number  *)
(* of requests, references, wallets, retries and faults.                   *)
(***************************************************************************)
EXTENDS PaymentInvariant, PaymentProofs

-----------------------------------------------------------------------------
(* Rows and the engine *)

\* A step in which nobody takes a row leaves every row to at most one owner.
LEMMA RowsKept ==
  ASSUME OneOwnerPerRow, target' = target,
         \A q \in Request : pc'[q] \in HoldsRow => pc[q] \in HoldsRow,
         \A q \in Request : task'[q] = "transferred" => task[q] = "transferred"
  PROVE  OneOwnerPerRow'
BY DEF OneOwnerPerRow, OwnsRow

\* So does a step in which r takes a row that is free.
LEMMA RowTaken ==
  ASSUME OneOwnerPerRow, NEW r \in Request, RowFree(target[r]),
         target' = target,
         \A q \in Request \ { r } :
           /\ pc'[q] \in HoldsRow => pc[q] \in HoldsRow
           /\ task'[q] = "transferred" => task[q] = "transferred",
         ~(pc'[r] \in HoldsRow /\ task'[r] = "transferred")
  PROVE  OneOwnerPerRow'
<1>1. \A q \in Request : q # r /\ OwnsRow(q)' => OwnsRow(q) /\ target[q] # target[r]
  BY DEF OwnsRow, RowFree
<1>2. \A q \in Request : q # r /\ OwnsRow(q)' => OwnsRow(q)
  BY <1>1
<1>3. \A r1, r2 \in Request :
        OwnsRow(r1)' /\ OwnsRow(r2)' /\ target[r1] = target[r2] => r1 = r2
  <2> SUFFICES ASSUME NEW r1 \in Request, NEW r2 \in Request, r1 # r2,
                      OwnsRow(r1)', OwnsRow(r2)', target[r1] = target[r2]
               PROVE  FALSE
    OBVIOUS
  <2>1. CASE r \in { r1, r2 }
    BY <2>1, <1>1
  <2>2. CASE r \notin { r1, r2 }
    BY <2>2, <1>2 DEF OneOwnerPerRow
  <2>3. QED
    BY <2>1, <2>2
<1>4. \A q \in Request : ~(pc'[q] \in HoldsRow /\ task'[q] = "transferred")
  BY DEF OneOwnerPerRow
<1>5. QED
  BY <1>3, <1>4 DEF OneOwnerPerRow, OwnsRow

\* A step in which nobody comes to own a key leaves every key to at most one
\* owner.
LEMMA KeysKept ==
  ASSUME OneOwnerPerKey, key' = key, \A q \in Request : OwnsKey(q)' => OwnsKey(q)
  PROVE  OneOwnerPerKey'
BY DEF OneOwnerPerKey

\* The engine returns early exactly for a completed settlement.
LEMMA EngineAlready ==
  ASSUME NEW existing, NEW w, NEW quoted \in BOOLEAN
  PROVE  EngineOutcome(existing, w, quoted) = "already" <=> existing = "COMPLETED"
<1>1. CASE existing = "COMPLETED"
  BY <1>1 DEF EngineOutcome
<1>2. CASE existing # "COMPLETED"
  BY <1>2 DEF EngineOutcome
<1>3. QED
  BY <1>1, <1>2

\* What a request's own run of the engine leaves in its session.
LEMMA InlineResult ==
  ASSUME IInv, NEW r \in Request, pc[r] = "settle"
  PROVE  LET o == InlineOutcome(r) IN
         /\ o \in { "sent", "already" } =>
              /\ Settled(work[r], o).status \in { "CAPTURED", "COMPLETED" }
              /\ Settled(work[r], o).settlement = "COMPLETED"
         /\ o \notin { "sent", "already" } =>
              /\ work[r].settlement # "COMPLETED"
              /\ Deferred(work[r], o).status = "SETTLEMENT_PENDING"
              /\ Deferred(work[r], o).settlement # "COMPLETED"
         /\ o = "already" => work[r].settlement = "COMPLETED"
<1> DEFINE o == InlineOutcome(r)
           s == Settled(work[r], o)
<1>1. work[r].status = "CAPTURED"
  BY DEF IInv, WorkIsVisible
<1>2. o \in Outcome /\ (o = "already" <=> work[r].settlement = "COMPLETED")
  BY EngineOutcomeType, EngineAlready DEF InlineOutcome
<1>3. /\ s.status = EngineStatus("CAPTURED", o)
      /\ s.settlement = EngineSettlement(work[r].settlement, o)
  BY <1>1 DEF Settled
<1>4. /\ Deferred(work[r], o).status = "SETTLEMENT_PENDING"
      /\ Deferred(work[r], o).settlement = s.settlement
  BY DEF Deferred, Settled
<1> HIDE DEF o, s
<1>5. ASSUME o \in { "sent", "already" }
      PROVE  s.status \in { "CAPTURED", "COMPLETED" } /\ s.settlement = "COMPLETED"
  BY <1>5, <1>2, <1>3 DEF EngineStatus, EngineSettlement
<1>6. ASSUME o \notin { "sent", "already" }
      PROVE  work[r].settlement # "COMPLETED" /\ s.settlement # "COMPLETED"
  BY <1>6, <1>2, <1>3 DEF Outcome, EngineSettlement
<1>7. QED
  BY <1>2, <1>4, <1>5, <1>6 DEF o, s

-----------------------------------------------------------------------------
(* create_payment *)

\* create_payment keeps the invariant: it flushes only under a key that nobody
\* owns, and charges only while it owns its key.
LEMMA CreateKeepsIInv ==
  ASSUME IInv, TypeOK', NEW r \in Request
  PROVE  /\ \A k, m \in Reference : BeginCreate(r, k, m) => IInv'
         /\ LookupAlternate(r) => IInv'
         /\ Insert(r) => IInv'
         /\ Charge(r) => IInv'
<1> USE DEF IInv, TypeOK, KeysNameCreators, CommittedByCreator,
            ChargesOnRecord, OneOwnerPerKey, OwnsKey, Committed, HoldsKey,
            HoldsRow, Running, databaseVars, walletVars, taskVars, outsideVars
<1>1. ASSUME NEW k \in Reference, NEW m \in Reference, BeginCreate(r, k, m)
      PROVE  IInv'
  <2>1. KeysNameCreators'
    BY <1>1, PaymentsAssumption DEF BeginCreate
  <2>2. CommittedByCreator' /\ ChargesOnRecord'
    <3>1. CommittedByCreator'
      BY <1>1, PaymentsAssumption DEF BeginCreate
    <3>2. ChargesOnRecord'
      BY <1>1 DEF BeginCreate
    <3>3. QED
      BY <3>1, <3>2
  <2>3. OneOwnerPerKey'
    BY <1>1 DEF BeginCreate
  <2>4. OneOwnerPerRow'
    BY <1>1, RowsKept DEF BeginCreate
  <2>5. WorkIsVisible' /\ PayoutsOnRecord'
    BY <1>1 DEF BeginCreate, WorkIsVisible, PayoutsOnRecord
  <2>6. OnlySettledStatusesCommitted' /\ CompletedMeansPaidOut'
    BY <1>1 DEF BeginCreate, OnlySettledStatusesCommitted, CompletedMeansPaidOut
  <2>7. QED
    BY <2>1, <2>2, <2>3, <2>4, <2>5, <2>6
<1>2. ASSUME LookupAlternate(r) PROVE IInv'
  <2>1. KeysNameCreators' /\ CommittedByCreator' /\ ChargesOnRecord'
    BY <1>2 DEF LookupAlternate
  <2>2. OneOwnerPerKey'
    BY <1>2 DEF LookupAlternate
  <2>3. OneOwnerPerRow'
    BY <1>2, RowsKept DEF LookupAlternate
  <2>4. WorkIsVisible' /\ PayoutsOnRecord'
    BY <1>2 DEF LookupAlternate, WorkIsVisible, PayoutsOnRecord
  <2>5. OnlySettledStatusesCommitted' /\ CompletedMeansPaidOut'
    BY <1>2 DEF LookupAlternate, OnlySettledStatusesCommitted,
                CompletedMeansPaidOut
  <2>6. QED
    BY <2>1, <2>2, <2>3, <2>4, <2>5
<1>3. ASSUME Insert(r) PROVE IInv'
  <2>1. /\ pc[r] = "insert"
        /\ KeyFree(key[r])
        /\ UNCHANGED << databaseVars, key, target, taskVars, outsideVars >>
    BY <1>3 DEF Insert
  <2>2. \/ pc' = [ pc EXCEPT ![r] = "done" ] /\ UNCHANGED work
        \/ /\ ~ \E t \in Request : Stored(t, key[r])
           /\ pc' = [ pc EXCEPT ![r] = "inserted" ]
           /\ work' = [ work EXCEPT ![r] =
                          [ NoWork EXCEPT !.status = "PROCESSING",
                                          !.log = << << "NONE", "PROCESSING" >> >> ] ]
    BY <1>3 DEF Insert
  <2>3. /\ KeysNameCreators'
        /\ CommittedByCreator'
        /\ ChargesOnRecord'
    <3>1. KeysNameCreators'
      BY <2>1, <2>2
    <3>2. CommittedByCreator'
      BY <2>1, <2>2
    <3>3. ChargesOnRecord'
      <4>1. charge[r] = "none"
        BY <2>1
      <4>2. \A q \in Request \ { r } : pc'[q] = pc[q]
        BY <2>2
      <4>3. QED
        BY <2>1, <4>1, <4>2
    <3>4. QED
      BY <3>1, <3>2, <3>3
  <2>4. OneOwnerPerKey'
    BY <2>1, <2>2 DEF KeyFree, Stored
  <2>5. OneOwnerPerRow'
    <3>1. \A q \in Request : pc'[q] \in HoldsRow => pc[q] \in HoldsRow
      BY <2>1, <2>2
    <3>2. QED
      BY <2>1, <3>1, RowsKept
  <2>6. WorkIsVisible'
    BY <2>1, <2>2 DEF WorkIsVisible
  <2>7. PayoutsOnRecord'
    <3>1. \A q \in Request \ { r } : pc'[q] = pc[q] /\ work'[q] = work[q]
      BY <2>2
    <3>2. [ NoWork EXCEPT !.status = "PROCESSING",
                          !.log = << << "NONE", "PROCESSING" >> >> ].settlement
            = Null
      BY DEF NoWork
    <3>3. /\ pc'[r] \in { "done", "inserted" }
          /\ pc'[r] = "inserted" => work'[r].settlement = Null
      <4>1. CASE pc' = [ pc EXCEPT ![r] = "done" ]
        BY <4>1
      <4>2. CASE /\ pc' = [ pc EXCEPT ![r] = "inserted" ]
                 /\ work'[r] = [ NoWork EXCEPT
                        !.status = "PROCESSING",
                        !.log = << << "NONE", "PROCESSING" >> >> ]
        BY <3>2, <4>2
      <4>3. QED
        BY <2>2, <4>1, <4>2
    <3>4. PayoutsOnRecord
      OBVIOUS
    <3> HIDE DEF KeysNameCreators, CommittedByCreator, ChargesOnRecord,
                 OneOwnerPerKey, IInv, TypeOK
    <3>5. QED
      BY <2>1, <3>1, <3>3, <3>4 DEF PayoutsOnRecord
  <2>8. OnlySettledStatusesCommitted' /\ CompletedMeansPaidOut'
    BY <2>1 DEF OnlySettledStatusesCommitted, CompletedMeansPaidOut
  <2>9. QED
    BY <2>3, <2>4, <2>5, <2>6, <2>7, <2>8
<1>4. ASSUME Charge(r) PROVE IInv'
  <2>1. PICK outcome \in ChargeOutcome :
          LET to == ChargeStatus(outcome) IN
          /\ pc[r] = "inserted"
          /\ charge' = [ charge EXCEPT ![r] = outcome ]
          /\ work' = [ work EXCEPT ![r] = Answered(@, to) ]
          /\ pc' = [ pc EXCEPT ![r] =
                       IF to = "CAPTURED" THEN "settle" ELSE "commit" ]
          /\ UNCHANGED << databaseVars, key, target, taskVars, sent >>
    BY <1>4 DEF Charge
  <2>2. /\ ~Committed(r)
        /\ target[r] = r
        /\ key[r] # Null
    BY <2>1
  <2>3. KeysNameCreators' /\ CommittedByCreator' /\ ChargesOnRecord'
    BY <2>1, <2>2
  <2>4. OneOwnerPerKey'
    BY <2>1, <2>2
  <2>5. OneOwnerPerRow'
    <3>1. RowFree(r)
      <4> SUFFICES ASSUME NEW q \in Request, target[q] = r, OwnsRow(q)
                   PROVE  FALSE
        BY DEF RowFree, OwnsRow
      <4>1. task[q] # "transferred"
        BY <2>2
      <4>2. pc[q] \in HoldsRow
        BY <4>1 DEF OwnsRow
      <4>3. key[q] # Null
        BY <2>2, <4>2
      <4>4. q = r
        BY <4>3
      <4>5. QED
        BY <2>1, <4>2, <4>4
    <3>2. task[r] # "transferred"
      BY <2>2
    <3>3. QED
      BY <2>1, <2>2, <3>1, <3>2, RowTaken
  <2>6. /\ work'[r].status = ChargeStatus(outcome)
        /\ work'[r].settlement = work[r].settlement
    BY <2>1 DEF Answered, Work
  <2>7. ChargeStatus(outcome) \in { "CAPTURED", "AUTHORIZED", "FAILED" }
    BY DEF ChargeStatus, ChargeOutcome
  <2>8. WorkIsVisible'
    BY <2>1, <2>6, <2>7 DEF WorkIsVisible, VisibleStatus
  <2>9. PayoutsOnRecord'
    <3>1. \A q \in Request \ { r } : pc'[q] = pc[q] /\ work'[q] = work[q]
      BY <2>1
    <3>2. /\ pc'[r] # "inserted"
          /\ settlement[r] # "COMPLETED"
          /\ work'[r].settlement # "COMPLETED"
          /\ work'[r].status # "COMPLETED"
      BY <2>1, <2>2, <2>6, <2>7, PaymentsAssumption
         DEF PayoutsOnRecord, SettlementStatus
    <3>3. QED
      BY <2>1, <2>2, <3>1, <3>2 DEF PayoutsOnRecord
  <2>10. OnlySettledStatusesCommitted' /\ CompletedMeansPaidOut'
    BY <2>1 DEF OnlySettledStatusesCommitted, CompletedMeansPaidOut
  <2>11. QED
    BY <2>3, <2>4, <2>5, <2>8, <2>9, <2>10
<1>5. QED
  BY <1>1, <1>2, <1>3, <1>4

-----------------------------------------------------------------------------
(* Requests on a stored payment *)

\* Loading a committed payment keeps the invariant.
LEMMA LoadKeepsIInv ==
  ASSUME IInv, TypeOK', NEW r \in Request, NEW t \in Request, Committed(t),
         NEW next \in { "sign", "cancel", "refund" }, Load(r, t, next)
  PROVE  IInv'
<1> USE DEF IInv, TypeOK, KeysNameCreators, CommittedByCreator,
            ChargesOnRecord, OneOwnerPerKey, OwnsKey, Committed, HoldsKey,
            HoldsRow, Running, databaseVars, walletVars, taskVars, outsideVars,
            Load
<1>1. KeysNameCreators'
  BY PaymentsAssumption
<1>2. CommittedByCreator'
  OBVIOUS
<1>3. ChargesOnRecord'
  OBVIOUS
<1>4. OneOwnerPerKey'
  OBVIOUS
<1>5. OneOwnerPerRow'
  <2>1. /\ OneOwnerPerRow /\ task' = task
        /\ pc'[r] \notin HoldsRow /\ task[r] # "transferred"
        /\ \A q \in Request \ { r } : pc'[q] = pc[q] /\ target'[q] = target[q]
    OBVIOUS
  <2> HIDE DEF IInv, TypeOK, KeysNameCreators, CommittedByCreator,
               ChargesOnRecord, OneOwnerPerKey, Load
  <2>2. QED
    BY <2>1 DEF OneOwnerPerRow, OwnsRow
<1>6. WorkIsVisible' /\ PayoutsOnRecord'
  BY DEF WorkIsVisible, PayoutsOnRecord
<1>7. OnlySettledStatusesCommitted' /\ CompletedMeansPaidOut'
  BY DEF OnlySettledStatusesCommitted, CompletedMeansPaidOut
<1>8. QED
  BY <1>1, <1>2, <1>3, <1>4, <1>5, <1>6, <1>7

\* The requests that load by status find a committed payment.
LEMMA LoadsKeepIInv ==
  ASSUME IInv, TypeOK', NEW r \in Request, NEW t \in Request
  PROVE  /\ SignLoad(r, t) => IInv'
         /\ CancelLoad(r, t) => IInv'
         /\ RefundLoad(r, t) => IInv'
<1>1. ASSUME SignLoad(r, t) PROVE IInv'
  BY <1>1, LoadKeepsIInv DEF SignLoad, Committed
<1>2. ASSUME CancelLoad(r, t) PROVE IInv'
  <2>1. Committed(t)
    BY <1>2 DEF CancelLoad, AssertTransition, InitialStatus, Committed
  <2>2. QED
    BY <1>2, <2>1, LoadKeepsIInv DEF CancelLoad
<1>3. ASSUME RefundLoad(r, t) PROVE IInv'
  BY <1>3, LoadKeepsIInv DEF RefundLoad, Refundable, Committed
<1>4. QED
  BY <1>1, <1>2, <1>3

\* A webhook loads a payment that is stored.
LEMMA WebhookLoadKeepsIInv ==
  ASSUME IInv, TypeOK', NEW r \in Request, NEW t \in Request,
         NEW success \in BOOLEAN,
         WebhookLoad(r, t, success) \/ MoyasarLoad(r, t, success)
  PROVE  IInv'
<1> USE DEF IInv, TypeOK, KeysNameCreators, CommittedByCreator,
            ChargesOnRecord, OneOwnerPerKey, OwnsKey, Committed, HoldsKey,
            HoldsRow, Running, databaseVars, walletVars, taskVars, outsideVars
<1> PICK to \in { "CAPTURED", "FAILED" } : Notify(r, t, to)
  BY NotifiedStatus
<1>1. /\ pc[r] = "idle"
      /\ Committed(t)
      /\ pc' = [ pc EXCEPT ![r] = "webhook" ]
      /\ target' = [ target EXCEPT ![r] = t ]
      /\ work' = [ work EXCEPT ![r] = [ NoWork EXCEPT !.status = to ] ]
      /\ UNCHANGED << databaseVars, key, taskVars, outsideVars >>
  <2>1. Committed(t)
    BY DEF WebhookLoad, Stored, MoyasarLoad, Notify, MoyasarStatus
  <2>2. QED
    BY <2>1 DEF Notify
<1>2. KeysNameCreators'
  BY <1>1
<1>3. CommittedByCreator'
  BY <1>1
<1>4. ChargesOnRecord'
  BY <1>1
<1>5. OneOwnerPerKey'
  BY <1>1
<1>6. OneOwnerPerRow'
  <2>1. \A q \in Request : OwnsRow(q)' => q # r /\ OwnsRow(q)
    BY <1>1 DEF OwnsRow
  <2>2. \A q \in Request \ { r } : target'[q] = target[q]
    BY <1>1
  <2>3. QED
    BY <1>1, <2>1, <2>2 DEF OneOwnerPerRow, OwnsRow
<1>7. WorkIsVisible'
  <2>1. work'[r].status \in { "CAPTURED", "FAILED" }
    BY <1>1 DEF NoWork
  <2>2. QED
    BY <1>1, <2>1 DEF WorkIsVisible
<1>8. PayoutsOnRecord'
  BY <1>1 DEF PayoutsOnRecord
<1>9. OnlySettledStatusesCommitted' /\ CompletedMeansPaidOut'
  BY <1>1 DEF OnlySettledStatusesCommitted, CompletedMeansPaidOut
<1>10. QED
  BY <1>2, <1>3, <1>4, <1>5, <1>6, <1>7, <1>8, <1>9

\* complete_signature takes the row only when it is free.
LEMMA SignWriteKeepsIInv ==
  ASSUME IInv, TypeOK', NEW r \in Request, SignWrite(r)
  PROVE  IInv'
<1> USE DEF IInv, TypeOK, KeysNameCreators, CommittedByCreator,
            ChargesOnRecord, OneOwnerPerKey, OwnsKey, Committed, HoldsKey,
            HoldsRow, Running, databaseVars, walletVars, taskVars, outsideVars
<1>1. /\ pc[r] = "sign"
      /\ RowFree(target[r])
      /\ UNCHANGED << databaseVars, key, target, taskVars, outsideVars >>
  BY DEF SignWrite
<1>2. \/ pc' = [ pc EXCEPT ![r] = "done" ] /\ UNCHANGED work
      \/ /\ pc' = [ pc EXCEPT ![r] = "settle" ]
         /\ work' = [ work EXCEPT ![r] =
                        [ status |-> "CAPTURED",
                          log |-> << << loaded[r].status, "CAPTURED" >> >>,
                          receipt |-> TRUE,
                          settlement |-> settlement[target[r]],
                          payee |-> payee[target[r]] ] ]
  BY DEF SignWrite
<1>3. \A q \in Request \ { r } : pc'[q] = pc[q] /\ work'[q] = work[q]
  BY <1>2
<1>4. \/ pc'[r] = "done"
      \/ /\ pc'[r] = "settle"
         /\ work'[r].status = "CAPTURED"
         /\ work'[r].settlement = settlement[target[r]]
  BY <1>2
<1>5. KeysNameCreators'
  BY <1>1, <1>3, <1>4
<1>6. CommittedByCreator'
  BY <1>1, <1>3, <1>4
<1>7. ChargesOnRecord'
  BY <1>1, <1>3, <1>4
<1>8. OneOwnerPerKey'
  BY <1>1, <1>3, <1>4
<1>9. OneOwnerPerRow'
  <2>1. task[r] # "transferred"
    BY <1>1 DEF RowFree
  <2>2. QED
    BY <1>1, <1>3, <2>1, RowTaken
<1>10. WorkIsVisible' /\ PayoutsOnRecord'
  <2>1. WorkIsVisible /\ PayoutsOnRecord /\ target[r] \in Request
    OBVIOUS
  <2> HIDE DEF IInv, TypeOK, KeysNameCreators, CommittedByCreator,
               ChargesOnRecord, OneOwnerPerKey
  <2>2. WorkIsVisible'
    BY <1>1, <1>3, <1>4, <2>1 DEF WorkIsVisible
  <2>3. PayoutsOnRecord'
    BY <1>1, <1>3, <1>4, <2>1 DEF PayoutsOnRecord
  <2>4. QED
    BY <2>2, <2>3
<1>11. OnlySettledStatusesCommitted' /\ CompletedMeansPaidOut'
  BY <1>1 DEF OnlySettledStatusesCommitted, CompletedMeansPaidOut
<1>12. QED
  BY <1>5, <1>6, <1>7, <1>8, <1>9, <1>10, <1>11

\* A request that overwrites the status of its committed payment with a
\* visible one, and ends, keeps the invariant.
LEMMA StatusWriteKeepsIInv ==
  ASSUME IInv, TypeOK', NEW r \in Request,
         NEW to \in { "CANCELLED", "REFUNDED", "CAPTURED", "FAILED" },
         pc[r] \in { "cancel", "refunded", "webhook" },
         status' = [ status EXCEPT ![target[r]] = to ],
         pc' = [ pc EXCEPT ![r] = "done" ],
         \A q \in Request \ { r } : work'[q] = work[q],
         UNCHANGED << settlement, key, target, taskVars, outsideVars >>
  PROVE  IInv'
<1> USE DEF IInv, TypeOK, KeysNameCreators, CommittedByCreator,
            ChargesOnRecord, OneOwnerPerKey, OwnsKey, Committed, HoldsKey,
            HoldsRow, Running, taskVars, outsideVars
<1>1. key[r] = Null /\ Committed(target[r])
  OBVIOUS
<1>2. \A t \in Request : Committed(t)' <=> Committed(t)
  BY <1>1
<1>3. \A q \in Request \ { r } : pc'[q] = pc[q]
  OBVIOUS
<1>4. pc'[r] = "done"
  OBVIOUS
<1>5. KeysNameCreators'
  BY <1>1, <1>3, <1>4
<1>6. CommittedByCreator'
  <2>1. \A t \in Request : Committed(t) => t # r
    BY <1>1
  <2>2. QED
    BY <1>1, <1>2, <1>3, <1>4, <2>1
<1>7. ChargesOnRecord'
  BY <1>1, <1>2, <1>3, <1>4
<1>8. OneOwnerPerKey'
  <2>1. OneOwnerPerKey /\ \A q \in Request : OwnsKey(q)' => OwnsKey(q)
    BY <1>1, <1>2, <1>3, <1>4
  <2> HIDE DEF IInv, TypeOK, KeysNameCreators, CommittedByCreator,
               ChargesOnRecord, OneOwnerPerKey, OwnsKey
  <2>2. QED
    BY <2>1, KeysKept
<1>9. OneOwnerPerRow'
  BY <1>3, <1>4, RowsKept
<1>10. WorkIsVisible' /\ PayoutsOnRecord'
  <2>1. WorkIsVisible /\ PayoutsOnRecord
    OBVIOUS
  <2> HIDE DEF IInv, TypeOK, KeysNameCreators, CommittedByCreator,
               ChargesOnRecord, OneOwnerPerKey,
               Committed
  <2>2. WorkIsVisible'
    BY <1>3, <1>4, <2>1 DEF WorkIsVisible
  <2>3. PayoutsOnRecord'
    BY <1>2, <1>3, <1>4, <2>1 DEF PayoutsOnRecord
  <2>4. QED
    BY <2>2, <2>3
<1>11. OnlySettledStatusesCommitted'
  BY DEF OnlySettledStatusesCommitted
<1>12. CompletedMeansPaidOut'
  BY DEF CompletedMeansPaidOut
<1>13. QED
  BY <1>5, <1>6, <1>7, <1>8, <1>9, <1>10, <1>11, <1>12

\* cancel_payment, refund_payment and the IPN overwrite and end.
LEMMA OverwritesKeepIInv ==
  ASSUME IInv, TypeOK', NEW r \in Request
  PROVE  /\ CancelWrite(r) => IInv'
         /\ RefundWrite(r) => IInv'
         /\ WebhookWrite(r) => IInv'
<1>1. ASSUME CancelWrite(r) PROVE IInv'
  BY <1>1, StatusWriteKeepsIInv DEF CancelWrite, Overwrite
<1>2. ASSUME RefundWrite(r) PROVE IInv'
  BY <1>2, StatusWriteKeepsIInv DEF RefundWrite, Overwrite
<1>3. ASSUME WebhookWrite(r) PROVE IInv'
  <2>1. work[r].status \in { "CAPTURED", "FAILED" }
    BY <1>3 DEF WebhookWrite, IInv, WorkIsVisible
  <2>2. \A q \in Request \ { r } : work'[q] = work[q]
    BY <1>3 DEF WebhookWrite, IInv, TypeOK
  <2>3. QED
    BY <1>3, <2>1, <2>2, StatusWriteKeepsIInv DEF WebhookWrite
<1>4. QED
  BY <1>1, <1>2, <1>3

\* A refund's call to the gateway moves the request only.
LEMMA RefundCallsKeepIInv ==
  ASSUME IInv, TypeOK', NEW r \in Request,
         RefundGateway(r) \/ RefundRefused(r)
  PROVE  IInv'
<1> USE DEF IInv, TypeOK, KeysNameCreators, CommittedByCreator,
            ChargesOnRecord, OneOwnerPerKey, OwnsKey, Committed, HoldsKey,
            HoldsRow, Running, databaseVars, walletVars, taskVars, outsideVars
<1>1. /\ pc[r] = "refund"
      /\ \E next \in { "refunded", "done" } : pc' = [ pc EXCEPT ![r] = next ]
      /\ UNCHANGED << databaseVars, key, target, work, taskVars, outsideVars >>
  BY DEF RefundGateway, RefundRefused
<1>2. KeysNameCreators'
  BY <1>1
<1>3. CommittedByCreator'
  BY <1>1
<1>4. ChargesOnRecord'
  BY <1>1
<1>5. OneOwnerPerKey'
  BY <1>1
<1>6. OneOwnerPerRow'
  BY <1>1, RowsKept
<1>7. WorkIsVisible' /\ PayoutsOnRecord'
  BY <1>1 DEF WorkIsVisible, PayoutsOnRecord
<1>8. OnlySettledStatusesCommitted' /\ CompletedMeansPaidOut'
  BY <1>1 DEF OnlySettledStatusesCommitted, CompletedMeansPaidOut
<1>9. QED
  BY <1>2, <1>3, <1>4, <1>5, <1>6, <1>7, <1>8

-----------------------------------------------------------------------------
(* The end of a request that wrote a payment *)

\* The engine's transfer in the request's own session pays the payment whose
\* row the request owns.
LEMMA SettleKeepsIInv ==
  ASSUME IInv, TypeOK', NEW r \in Request, Settle(r)
  PROVE  IInv'
<1> USE DEF IInv, TypeOK, KeysNameCreators, CommittedByCreator,
            ChargesOnRecord, OneOwnerPerKey, OwnsKey, Committed, HoldsKey,
            HoldsRow, Running, databaseVars, walletVars, taskVars, outsideVars
<1> DEFINE t == target[r]
<1>1. /\ pc[r] = "settle"
      /\ InlineOutcome(r) \in { "sent", "already" }
      /\ work' = [ work EXCEPT ![r] = Settled(@, InlineOutcome(r)) ]
      /\ pc' = [ pc EXCEPT ![r] = "commit" ]
      /\ UNCHANGED << databaseVars, key, target, taskVars, charge >>
  BY DEF Settle
<1>2. /\ \A q \in Request \ { r } : pc'[q] = pc[q] /\ work'[q] = work[q]
      /\ pc'[r] = "commit"
      /\ work'[r].status \in { "CAPTURED", "COMPLETED" }
      /\ work'[r].settlement = "COMPLETED"
  BY <1>1, InlineResult
<1>3. /\ \A u \in Request : sent[u] > 0 => sent'[u] > 0
      /\ sent'[t] > 0
  <2>1. CASE InlineOutcome(r) = "sent"
    <3>1. sent' = [ sent EXCEPT ![t] = @ + 1 ]
      BY <2>1 DEF Settle
    <3>2. QED
      BY <3>1
  <2>2. CASE InlineOutcome(r) = "already"
    <3>1. sent' = sent
      BY <2>2 DEF Settle
    <3>2. sent[t] > 0
      BY <1>1, <2>2, InlineResult DEF PayoutsOnRecord
    <3>3. QED
      BY <3>1, <3>2
  <2>3. QED
    BY <1>1, <2>1, <2>2
<1>4. KeysNameCreators'
  BY <1>1, <1>2
<1>5. CommittedByCreator'
  BY <1>1, <1>2
<1>6. ChargesOnRecord'
  BY <1>1, <1>2
<1>7. OneOwnerPerKey'
  BY <1>1, <1>2
<1>8. OneOwnerPerRow'
  BY <1>1, <1>2, RowsKept
<1>9. WorkIsVisible' /\ PayoutsOnRecord'
  <2>1. WorkIsVisible /\ PayoutsOnRecord /\ target \in [ Request -> Request ]
    OBVIOUS
  <2> HIDE DEF IInv, TypeOK, KeysNameCreators, CommittedByCreator,
               ChargesOnRecord, OneOwnerPerKey
  <2>2. WorkIsVisible'
    BY <1>1, <1>2, <2>1 DEF WorkIsVisible, VisibleStatus
  <2>3. PayoutsOnRecord'
    BY <1>1, <1>2, <1>3, <2>1 DEF PayoutsOnRecord
  <2>4. QED
    BY <2>2, <2>3
<1>10. OnlySettledStatusesCommitted' /\ CompletedMeansPaidOut'
  BY <1>1, <1>3 DEF OnlySettledStatusesCommitted, CompletedMeansPaidOut
<1>11. QED
  BY <1>4, <1>5, <1>6, <1>7, <1>8, <1>9, <1>10

\* Deferring the settlement enqueues a task and leaves the settlement as
\* uncompleted as it was.
LEMMA DeferKeepsIInv ==
  ASSUME IInv, TypeOK', NEW r \in Request, Defer(r)
  PROVE  IInv'
<1> USE DEF IInv, TypeOK, KeysNameCreators, CommittedByCreator,
            ChargesOnRecord, OneOwnerPerKey, OwnsKey, Committed, HoldsKey,
            HoldsRow, Running, databaseVars, walletVars, taskVars, outsideVars
<1>1. /\ pc[r] = "settle"
      /\ InlineOutcome(r) \notin { "sent", "already" }
      /\ work' = [ work EXCEPT ![r] = Deferred(@, InlineOutcome(r)) ]
      /\ pc' = [ pc EXCEPT ![r] = "commit" ]
      /\ UNCHANGED << databaseVars, key, target, outsideVars >>
  BY DEF Defer
<1>2. /\ \A q \in Request \ { r } : /\ pc'[q] = pc[q]
                                    /\ work'[q] = work[q]
                                    /\ task'[q] = task[q]
      /\ pc'[r] = "commit"
      /\ task'[r] \in { "queued", "unpublished" }
      /\ work[r].settlement # "COMPLETED"
      /\ work'[r].status = "SETTLEMENT_PENDING"
      /\ work'[r].settlement # "COMPLETED"
  <2>1. \E next \in { "queued", "unpublished" } :
          task' = [ task EXCEPT ![r] = next ]
    BY DEF Defer, Publish
  <2>2. /\ pc \in [ Request -> PC ]
        /\ work \in [ Request -> Work ]
        /\ task \in [ Request -> TaskState ]
    OBVIOUS
  <2> HIDE DEF IInv, TypeOK, KeysNameCreators, CommittedByCreator,
               ChargesOnRecord, OneOwnerPerKey
  <2>3. /\ work[r].settlement # "COMPLETED"
        /\ Deferred(work[r], InlineOutcome(r)).status = "SETTLEMENT_PENDING"
        /\ Deferred(work[r], InlineOutcome(r)).settlement # "COMPLETED"
    BY <1>1, InlineResult
  <2>4. work'[r] = Deferred(work[r], InlineOutcome(r))
    BY <1>1, <2>2
  <2>5. \A q \in Request \ { r } : /\ pc'[q] = pc[q]
                                  /\ work'[q] = work[q]
                                  /\ task'[q] = task[q]
    BY <1>1, <2>1, <2>2
  <2>6. pc'[r] = "commit" /\ task'[r] \in { "queued", "unpublished" }
    BY <1>1, <2>1, <2>2
  <2>7. QED
    BY <2>3, <2>4, <2>5, <2>6
<1>3. KeysNameCreators'
  BY <1>1, <1>2
<1>4. CommittedByCreator'
  BY <1>1, <1>2
<1>5. ChargesOnRecord'
  BY <1>1, <1>2
<1>6. OneOwnerPerKey'
  BY <1>1, <1>2
<1>7. OneOwnerPerRow'
  BY <1>1, <1>2, RowsKept
<1>8. WorkIsVisible' /\ PayoutsOnRecord'
  <2>1. WorkIsVisible /\ PayoutsOnRecord /\ target \in [ Request -> Request ]
    OBVIOUS
  <2> HIDE DEF IInv, TypeOK, KeysNameCreators, CommittedByCreator,
               ChargesOnRecord, OneOwnerPerKey
  <2>2. WorkIsVisible'
    BY <1>1, <1>2, <2>1 DEF WorkIsVisible, VisibleStatus
  <2>3. PayoutsOnRecord'
    BY <1>1, <1>2, <2>1 DEF PayoutsOnRecord
  <2>4. QED
    BY <2>2, <2>3
<1>9. OnlySettledStatusesCommitted' /\ CompletedMeansPaidOut'
  BY <1>1 DEF OnlySettledStatusesCommitted, CompletedMeansPaidOut
<1>10. QED
  BY <1>3, <1>4, <1>5, <1>6, <1>7, <1>8, <1>9

\* A commit makes visible what its session, the owner of the row, flushed.
LEMMA CommitKeepsIInv ==
  ASSUME IInv, TypeOK', NEW r \in Request, Commit(r)
  PROVE  IInv'
<1> USE DEF IInv, TypeOK, KeysNameCreators, CommittedByCreator,
            ChargesOnRecord, OneOwnerPerKey, OwnsKey, Committed, HoldsKey,
            HoldsRow, Running, databaseVars, walletVars, taskVars, outsideVars
<1>1. PICK t \in Request : t = target[r]
  OBVIOUS
<1>2. /\ pc[r] = "commit"
      /\ UNCHANGED << key, target, taskVars, outsideVars >>
  BY DEF Commit
<1>3. /\ \A q \in Request \ { r } : pc'[q] = pc[q] /\ work'[q] = work[q]
      /\ pc'[r] = "done"
      /\ \A u \in Request \ { t } : /\ status'[u] = status[u]
                                    /\ settlement'[u] = settlement[u]
      /\ status'[t] = work[r].status
      /\ settlement'[t] = work[r].settlement
  BY <1>1 DEF Commit
<1>4. /\ work[r].status \in VisibleStatus
      /\ work[r].settlement = "COMPLETED" => sent[t] > 0
      /\ settlement[t] = "COMPLETED" => work[r].settlement = "COMPLETED"
      /\ work[r].status = "COMPLETED" => work[r].settlement = "COMPLETED"
  BY <1>1, <1>2 DEF WorkIsVisible, PayoutsOnRecord
<1>5. status'[t] # "NONE"
  BY <1>3, <1>4 DEF VisibleStatus
<1>6. \A u \in Request : Committed(u)' <=> Committed(u) \/ u = t
  BY <1>3, <1>5
<1>7. \/ t = r /\ key[r] # Null
      \/ t # r /\ key[r] = Null /\ Committed(t)
  BY <1>1, <1>2
<1>8. KeysNameCreators'
  <2>1. KeysNameCreators
    OBVIOUS
  <2> HIDE DEF IInv, TypeOK, KeysNameCreators, CommittedByCreator,
               ChargesOnRecord, OneOwnerPerKey,
               Committed, OwnsKey
  <2>2. QED
    BY <1>2, <1>3, <2>1 DEF KeysNameCreators
<1>9. CommittedByCreator'
  <2>1. ASSUME NEW u \in Request, Committed(u)'
        PROVE  key'[u] # Null /\ pc'[u] = "done"
    <3>1. CASE u = r
      BY <1>2, <1>3, <1>6, <1>7, <2>1, <3>1
    <3>2. CASE u # r
      <4>1. Committed(u)
        BY <1>6, <1>7, <2>1, <3>2
      <4>2. QED
        BY <1>2, <1>3, <3>2, <4>1
    <3>3. QED
      BY <3>1, <3>2
  <2>2. \A q \in Request :
          /\ key'[q] = Null /\ pc'[q] \in Running => Committed(target[q])'
          /\ task'[q] \in { "loaded", "planned", "transferred" }
               => Committed(target[q])'
    <3>1. \A q \in Request : /\ pc'[q] \in Running => pc[q] \in Running
                             /\ target'[q] \in Request /\ target'[q] = target[q]
                             /\ key'[q] = key[q] /\ task'[q] = task[q]
      <4>1. target \in [ Request -> Request ]
        OBVIOUS
      <4> HIDE DEF IInv, TypeOK, KeysNameCreators, CommittedByCreator,
                   ChargesOnRecord, OneOwnerPerKey
      <4>2. QED
        BY <1>2, <1>3, <4>1
    <3>2. CommittedByCreator
      OBVIOUS
    <3>3. \A u \in Request : Committed(u) => Committed(u)'
      BY <1>6
    <3> HIDE DEF IInv, TypeOK, KeysNameCreators, CommittedByCreator,
                 ChargesOnRecord, OneOwnerPerKey, Running
    <3>4. QED
      BY <3>1, <3>2, <3>3 DEF CommittedByCreator
  <2>3. QED
    BY <2>1, <2>2
<1>10. ChargesOnRecord'
  <2>1. ASSUME NEW q \in Request, charge[q] # "none"
        PROVE  /\ key[q] # Null
               /\ pc'[q] \in { "settle", "commit", "done", "crashed" }
               /\ pc'[q] = "done" => Committed(q)'
    <3>1. CASE q = r
      BY <1>3, <1>6, <1>7, <2>1, <3>1
    <3>2. CASE q # r
      BY <1>3, <1>6, <2>1, <3>2
    <3>3. QED
      BY <3>1, <3>2
  <2>2. QED
    BY <1>2, <2>1
<1>11. OneOwnerPerKey'
  <2>1. \A q \in Request : OwnsKey(q)' => OwnsKey(q)
    BY <1>2, <1>3, <1>6, <1>7
  <2>2. OneOwnerPerKey /\ key' = key
    BY <1>2
  <2> HIDE DEF IInv, TypeOK, KeysNameCreators, CommittedByCreator,
               ChargesOnRecord, OneOwnerPerKey, OwnsKey
  <2>3. QED
    BY <2>1, <2>2, KeysKept
<1>12. OneOwnerPerRow'
  BY <1>2, <1>3, RowsKept
<1>13. WorkIsVisible' /\ PayoutsOnRecord'
  <2>1. WorkIsVisible /\ PayoutsOnRecord /\ target \in [ Request -> Request ]
    OBVIOUS
  <2>2. \A q \in Request \ { r } : OwnsRow(q) => target[q] # t
    BY <1>1, <1>2 DEF OneOwnerPerRow, OwnsRow
  <2> HIDE DEF IInv, TypeOK, KeysNameCreators, CommittedByCreator,
               ChargesOnRecord, OneOwnerPerKey
  <2>3. WorkIsVisible'
    BY <1>2, <1>3, <2>1 DEF WorkIsVisible
  <2>4. \A u \in Request :
          settlement'[u] = "COMPLETED" => Committed(u)' /\ sent'[u] > 0
    BY <1>2, <1>3, <1>4, <1>6, <2>1 DEF PayoutsOnRecord
  <2>5. PayoutsOnRecord'
    BY <1>2, <1>3, <2>1, <2>2, <2>4 DEF PayoutsOnRecord, OwnsRow
  <2>6. QED
    BY <2>3, <2>5
<1>14. OnlySettledStatusesCommitted' /\ CompletedMeansPaidOut'
  <2>1. OnlySettledStatusesCommitted'
    BY <1>3, <1>4 DEF OnlySettledStatusesCommitted, VisibleStatus
  <2>2. CompletedMeansPaidOut'
    BY <1>2, <1>3, <1>4 DEF CompletedMeansPaidOut
  <2>3. QED
    BY <2>1, <2>2
<1>15. QED
  BY <1>8, <1>9, <1>10, <1>11, <1>12, <1>13, <1>14

-----------------------------------------------------------------------------
(* The settlement task *)

\* A step of the task that touches nothing but its own bookkeeping, and takes
\* no row, keeps the invariant.
LEMMA BookkeepingKeepsIInv ==
  ASSUME IInv, TypeOK', NEW r \in Request, task[r] # "none",
         NEW next \in TaskState \ { "transferred" },
         next \in { "loaded", "planned" } => Committed(target[r]),
         task' = [ task EXCEPT ![r] = next ],
         UNCHANGED << databaseVars, requestVars, outsideVars >>
  PROVE  IInv'
<1> USE DEF IInv, TypeOK, KeysNameCreators, CommittedByCreator,
            ChargesOnRecord, OneOwnerPerKey, OwnsKey, Committed, HoldsKey,
            HoldsRow, Running, databaseVars, walletVars, requestVars,
            taskVars, outsideVars
<1>1. KeysNameCreators'
  OBVIOUS
<1>2. CommittedByCreator'
  OBVIOUS
<1>3. ChargesOnRecord'
  OBVIOUS
<1>4. OneOwnerPerKey'
  OBVIOUS
<1>5. OneOwnerPerRow'
  BY RowsKept
<1>6. WorkIsVisible' /\ PayoutsOnRecord'
  BY DEF WorkIsVisible, PayoutsOnRecord
<1>7. OnlySettledStatusesCommitted' /\ CompletedMeansPaidOut'
  BY DEF OnlySettledStatusesCommitted, CompletedMeansPaidOut
<1>8. QED
  BY <1>1, <1>2, <1>3, <1>4, <1>5, <1>6, <1>7

\* Loading, planning, returning, retrying, acknowledging and dying are such
\* steps.
LEMMA TaskBookkeepingKeepsIInv ==
  ASSUME IInv, TypeOK', NEW r \in Request
  PROVE  /\ TaskLoad(r) => IInv'
         /\ TaskPlan(r) => IInv'
         /\ TaskReturn(r) => IInv'
         /\ TaskRetry(r) => IInv'
         /\ TaskAck(r) => IInv'
         /\ TaskCrash(r) => IInv'
<1>1. ASSUME TaskLoad(r) PROVE IInv'
  <2>1. Committed(target[r])
    BY <1>1 DEF TaskLoad, Eligible, Committed
  <2>2. QED
    BY <1>1, <2>1, BookkeepingKeepsIInv
       DEF TaskLoad, TaskState, TaskRunning
<1>2. ASSUME TaskPlan(r) PROVE IInv'
  <2>1. Committed(target[r])
    BY <1>2 DEF TaskPlan, IInv, CommittedByCreator
  <2>2. QED
    BY <1>2, <2>1, BookkeepingKeepsIInv
       DEF TaskPlan, TaskState, TaskRunning
<1>3. ASSUME TaskReturn(r) PROVE IInv'
  BY <1>3, BookkeepingKeepsIInv DEF TaskReturn, TaskState, TaskRunning
<1>4. ASSUME TaskRetry(r) PROVE IInv'
  <2>1. task[r] # "none"
    BY <1>4 DEF TaskRetry, TaskRaises
  <2>2. \E next \in { "queued", "exhausted" } :
          task' = [ task EXCEPT ![r] = next ]
    BY <1>4 DEF TaskRetry
  <2>3. UNCHANGED << databaseVars, requestVars, outsideVars >>
    BY <1>4 DEF TaskRetry
  <2>4. QED
    BY <2>1, <2>2, <2>3, BookkeepingKeepsIInv DEF TaskState, TaskRunning
<1>5. ASSUME TaskAck(r) PROVE IInv'
  BY <1>5, BookkeepingKeepsIInv DEF TaskAck, TaskState, TaskRunning
<1>6. ASSUME TaskCrash(r) PROVE IInv'
  BY <1>6, BookkeepingKeepsIInv DEF TaskCrash, TaskState, TaskRunning
<1>7. QED
  BY <1>1, <1>2, <1>3, <1>4, <1>5, <1>6

\* The task's transfer takes the row when it is free, and is recorded.
LEMMA TaskTransferKeepsIInv ==
  ASSUME IInv, TypeOK', NEW r \in Request, TaskTransfer(r)
  PROVE  IInv'
<1> USE DEF IInv, TypeOK, KeysNameCreators, CommittedByCreator,
            ChargesOnRecord, OneOwnerPerKey, OwnsKey, Committed, HoldsKey,
            HoldsRow, Running, databaseVars, walletVars, requestVars,
            taskVars, outsideVars
<1>1. /\ task[r] = "planned"
      /\ RowFree(target[r])
      /\ task' = [ task EXCEPT ![r] = "transferred" ]
      /\ sent' = [ sent EXCEPT ![target[r]] = @ + 1 ]
      /\ UNCHANGED << databaseVars, pc, key, target, work, charge >>
  BY DEF TaskTransfer
<1>2. /\ \A u \in Request : sent[u] > 0 => sent'[u] > 0
      /\ sent'[target[r]] > 0
  BY <1>1
<1>3. KeysNameCreators'
  BY <1>1
<1>4. CommittedByCreator'
  BY <1>1
<1>5. ChargesOnRecord'
  BY <1>1
<1>6. OneOwnerPerKey'
  <2>1. OneOwnerPerKey /\ \A q \in Request : OwnsKey(q)' => OwnsKey(q)
    BY <1>1
  <2> HIDE DEF IInv, TypeOK, KeysNameCreators, CommittedByCreator,
               ChargesOnRecord, OneOwnerPerKey, OwnsKey
  <2>2. QED
    BY <1>1, <2>1, KeysKept
<1>7. OneOwnerPerRow'
  <2>1. pc[r] \notin HoldsRow
    BY <1>1 DEF RowFree
  <2>2. QED
    BY <1>1, <2>1, RowTaken
<1>8. WorkIsVisible'
  BY <1>1 DEF WorkIsVisible
<1>9. PayoutsOnRecord'
  BY <1>1, <1>2 DEF PayoutsOnRecord
<1>10. OnlySettledStatusesCommitted' /\ CompletedMeansPaidOut'
  BY <1>1, <1>2 DEF OnlySettledStatusesCommitted, CompletedMeansPaidOut
<1>11. QED
  BY <1>3, <1>4, <1>5, <1>6, <1>7, <1>8, <1>9, <1>10

\* The task commits a settlement it has transferred, as the owner of the row.
LEMMA TaskCommitKeepsIInv ==
  ASSUME IInv, TypeOK', NEW r \in Request, TaskCommit(r)
  PROVE  IInv'
<1> USE DEF IInv, TypeOK, KeysNameCreators, CommittedByCreator,
            ChargesOnRecord, OneOwnerPerKey, OwnsKey, Committed, HoldsKey,
            HoldsRow, Running, databaseVars, walletVars, requestVars,
            taskVars, outsideVars
<1>1. PICK t \in Request : t = target[r]
  OBVIOUS
<1>2. /\ task[r] = "transferred"
      /\ status' = [ status EXCEPT ![t] = "COMPLETED" ]
      /\ settlement' = [ settlement EXCEPT ![t] = "COMPLETED" ]
      /\ task' = [ task EXCEPT ![r] = "committed" ]
      /\ UNCHANGED << pc, key, target, work, charge, sent >>
  BY <1>1 DEF TaskCommit, EngineStatus, EngineSettlement
<1>3. Committed(t) /\ sent[t] > 0
  BY <1>1, <1>2 DEF PayoutsOnRecord
<1>4. \A u \in Request : Committed(u)' <=> Committed(u)
  BY <1>2, <1>3
<1>5. KeysNameCreators'
  BY <1>2
<1>6. CommittedByCreator'
  <2>1. CommittedByCreator
    OBVIOUS
  <2>2. task \in [ Request -> TaskState ] /\ target \in [ Request -> Request ]
    OBVIOUS
  <2> HIDE DEF IInv, TypeOK, KeysNameCreators, CommittedByCreator,
               ChargesOnRecord, OneOwnerPerKey, Committed
  <2>3. \A q \in Request : task'[q] \in { "loaded", "planned", "transferred" }
          => task[q] \in { "loaded", "planned", "transferred" }
    BY <1>2, <2>2
  <2>4. \A q \in Request : Committed(target[q])' <=> Committed(target[q])
    BY <1>2, <1>4, <2>2
  <2>5. QED
    BY <1>2, <1>4, <2>1, <2>2, <2>3, <2>4 DEF CommittedByCreator
<1>7. ChargesOnRecord'
  BY <1>2, <1>4
<1>8. OneOwnerPerKey'
  <2>1. OneOwnerPerKey
    OBVIOUS
  <2> HIDE DEF IInv, TypeOK, KeysNameCreators, CommittedByCreator,
               ChargesOnRecord, OneOwnerPerKey, OwnsKey, Committed
  <2>2. \A q \in Request : OwnsKey(q)' <=> OwnsKey(q)
    BY <1>2, <1>4 DEF OwnsKey
  <2>3. QED
    BY <1>2, <2>1, <2>2 DEF OneOwnerPerKey
<1>9. OneOwnerPerRow'
  BY <1>2, RowsKept
<1>10. WorkIsVisible'
  BY <1>2 DEF WorkIsVisible
<1>11. PayoutsOnRecord'
  <2>1. \A q \in Request : pc[q] \in HoldsRow => target[q] # t
    <3>1. OneOwnerPerRow
      OBVIOUS
    <3> HIDE DEF IInv, TypeOK, KeysNameCreators, CommittedByCreator,
                 ChargesOnRecord, OneOwnerPerKey
    <3>2. QED
      BY <1>1, <1>2, <3>1 DEF OneOwnerPerRow, OwnsRow
  <2>2. PayoutsOnRecord /\ target \in [ Request -> Request ]
    OBVIOUS
  <2>3. /\ \A u \in Request \ { t } : settlement'[u] = settlement[u]
        /\ \A q \in Request : task'[q] = "transferred" => task[q] = "transferred"
    BY <1>2
  <2> HIDE DEF IInv, TypeOK, KeysNameCreators, CommittedByCreator,
               ChargesOnRecord, OneOwnerPerKey, Committed
  <2>4. \A u \in Request : settlement'[u] = "COMPLETED" => Committed(u)' /\ sent'[u] > 0
    BY <1>2, <1>3, <1>4, <2>2, <2>3 DEF PayoutsOnRecord
  <2>5. QED
    BY <1>2, <2>1, <2>2, <2>3, <2>4 DEF PayoutsOnRecord
<1>12. OnlySettledStatusesCommitted'
  BY <1>2 DEF OnlySettledStatusesCommitted
<1>13. CompletedMeansPaidOut'
  BY <1>2, <1>3 DEF CompletedMeansPaidOut
<1>14. QED
  BY <1>5, <1>6, <1>7, <1>8, <1>9, <1>10, <1>11, <1>12, <1>13

-----------------------------------------------------------------------------
(* Faults, wallets, and every step *)

\* A crash loses the work, and with it the key and the row.
LEMMA CrashKeepsIInv ==
  ASSUME IInv, TypeOK', NEW r \in Request, Crash(r)
  PROVE  IInv'
<1> USE DEF IInv, TypeOK, KeysNameCreators, CommittedByCreator,
            ChargesOnRecord, OneOwnerPerKey, OwnsKey, Committed, HoldsKey,
            HoldsRow, Running, databaseVars, walletVars, requestVars,
            taskVars, outsideVars
<1>1. KeysNameCreators'
  BY DEF Crash
<1>2. CommittedByCreator'
  BY DEF Crash
<1>3. ChargesOnRecord'
  BY DEF Crash
<1>4. OneOwnerPerKey'
  BY DEF Crash
<1>5. OneOwnerPerRow'
  BY RowsKept DEF Crash
<1>6. WorkIsVisible'
  BY DEF Crash, WorkIsVisible
<1>7. PayoutsOnRecord'
  BY DEF Crash, PayoutsOnRecord
<1>8. OnlySettledStatusesCommitted' /\ CompletedMeansPaidOut'
  BY DEF Crash, OnlySettledStatusesCommitted, CompletedMeansPaidOut
<1>9. QED
  BY <1>1, <1>2, <1>3, <1>4, <1>5, <1>6, <1>7, <1>8

\* A step that changes none of what the invariant reads keeps it.
LEMMA UntouchedKeepsIInv ==
  ASSUME IInv, TypeOK',
         UNCHANGED << databaseVars, requestVars, taskVars, outsideVars >>
  PROVE  IInv'
BY DEF IInv, KeysNameCreators, CommittedByCreator, ChargesOnRecord,
       OneOwnerPerKey, OwnsKey, OneOwnerPerRow, OwnsRow, Committed,
       WorkIsVisible, PayoutsOnRecord, OnlySettledStatusesCommitted,
       CompletedMeansPaidOut, databaseVars, requestVars, taskVars, outsideVars

\* Every step keeps the invariant.
LEMMA NextKeepsIInv == IInv /\ [Next]_vars => IInv'
<1> SUFFICES ASSUME IInv, [Next]_vars PROVE IInv'
  OBVIOUS
<1>1. TypeOK'
  BY StepKeepsTypes DEF IInv
<1>2. ASSUME NEW r \in Request, Begin(r) PROVE IInv'
  BY <1>1, <1>2, CreateKeepsIInv, LoadsKeepIInv, WebhookLoadKeepsIInv DEF Begin
<1>3. ASSUME NEW r \in Request, RequestStep(r) PROVE IInv'
  BY <1>1, <1>3, CreateKeepsIInv, SignWriteKeepsIInv, SettleKeepsIInv,
     DeferKeepsIInv, CommitKeepsIInv, OverwritesKeepIInv, RefundCallsKeepIInv
     DEF RequestStep
<1>4. ASSUME NEW r \in Request, TaskStep(r) PROVE IInv'
  BY <1>1, <1>4, TaskBookkeepingKeepsIInv, TaskTransferKeepsIInv,
     TaskCommitKeepsIInv DEF TaskStep
<1>5. ASSUME NEW r \in Request, Crash(r) \/ TaskCrash(r) PROVE IInv'
  BY <1>1, <1>5, CrashKeepsIInv, TaskBookkeepingKeepsIInv
<1>6. ASSUME NEW w \in Wallet, AddWallet(w) PROVE IInv'
  BY <1>1, <1>6, UntouchedKeepsIInv DEF AddWallet
<1>7. CASE UNCHANGED vars
  BY <1>1, <1>7, UntouchedKeepsIInv DEF vars
<1>8. QED
  BY <1>2, <1>3, <1>4, <1>5, <1>6, <1>7 DEF Next

\* The invariant holds in every reachable state.
THEOREM InvariantHolds == Spec => []IInv
<1>1. Init => IInv
  <2> SUFFICES ASSUME Init PROVE IInv
    OBVIOUS
  <2>1. TypeOK
    BY InitTypes
  <2>2. KeysNameCreators /\ CommittedByCreator /\ ChargesOnRecord
    BY DEF Init, KeysNameCreators, CommittedByCreator, ChargesOnRecord,
           Committed, Running
  <2>3. OneOwnerPerKey /\ OneOwnerPerRow
    BY DEF Init, OneOwnerPerKey, OwnsKey, OneOwnerPerRow, OwnsRow, HoldsRow
  <2>4. WorkIsVisible
    BY DEF Init, WorkIsVisible
  <2>5. PayoutsOnRecord /\ CompletedMeansPaidOut
    BY PaymentsAssumption
       DEF Init, PayoutsOnRecord, CompletedMeansPaidOut, HoldsRow,
           SettlementStatus
  <2>6. OnlySettledStatusesCommitted
    BY DEF Init, OnlySettledStatusesCommitted
  <2>7. QED
    BY <2>1, <2>2, <2>3, <2>4, <2>5, <2>6 DEF IInv
<1>2. QED
  BY <1>1, NextKeepsIInv, PTL DEF Spec

-----------------------------------------------------------------------------
(* What follows *)

\* Whatever requests race for a key, two of them are charged only when one of
\* them died or was rolled back between its charge and its commit
\* (create_payment).
THEOREM ChargesAreSerialised == Spec => []ChargedTwiceOnlyAfterCrash
<1>1. IInv => ChargedTwiceOnlyAfterCrash
  <2> SUFFICES ASSUME IInv, NEW r1 \in Request, NEW r2 \in Request, r1 # r2,
                      Charged(r1), Charged(r2), key[r1] = key[r2],
                      pc[r1] # "crashed", pc[r2] # "crashed"
               PROVE  FALSE
    BY DEF ChargedTwiceOnlyAfterCrash
  <2>1. ASSUME NEW r \in { r1, r2 } PROVE OwnsKey(r)
    BY <2>1 DEF IInv, ChargesOnRecord, Charged, OwnsKey, HoldsKey
  <2>2. QED
    BY <2>1 DEF IInv, OneOwnerPerKey
<1>2. QED
  BY <1>1, InvariantHolds, PTL

\* No transient status is ever committed (the engine and _try_settle).
THEOREM NoTransientStatus == Spec => []OnlySettledStatusesCommitted
<1>1. IInv => OnlySettledStatusesCommitted
  BY DEF IInv
<1>2. QED
  BY <1>1, InvariantHolds, PTL

\* A completed payment has a completed settlement, which was paid out.
THEOREM CompletedIsPaidOut == Spec => []CompletedMeansPaidOut
<1>1. IInv => CompletedMeansPaidOut
  BY DEF IInv
<1>2. QED
  BY <1>1, InvariantHolds, PTL

=============================================================================
