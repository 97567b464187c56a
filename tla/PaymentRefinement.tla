------------------------- MODULE PaymentRefinement --------------------------
(***************************************************************************)
(* The database implements PaymentLedger: every step of a request, a task  *)
(* or a fault is a step of the ledger or changes nothing of it.            *)
(***************************************************************************)
EXTENDS PaymentInvariantProofs

\* What the database shows of the ledger.
StoredUnder == [ p \in Reference |-> { t \in Request : Stored(t, p) } ]
PaidOut     == { t \in Request : settlement[t] = "COMPLETED" }

\* A step that commits nothing under a key, and no settlement, is no step of
\* the ledger.
LEMMA LedgerUntouched ==
  ASSUME \A t \in Request : Committed(t)' <=> Committed(t),
         \A t \in Request : Committed(t) => key'[t] = key[t],
         \A t \in Request :
           settlement'[t] = "COMPLETED" <=> settlement[t] = "COMPLETED"
  PROVE  UNCHANGED << StoredUnder, PaidOut >>
<1>1. \A t \in Request, p \in Reference : Stored(t, p)' <=> Stored(t, p)
  BY DEF Stored, Committed
<1>2. StoredUnder' = StoredUnder
  BY <1>1 DEF StoredUnder
<1>3. PaidOut' = PaidOut
  BY DEF PaidOut
<1>4. QED
  BY <1>2, <1>3

\* The steps that leave the committed payments as they are.
LEMMA OtherStepsKeepLedger ==
  ASSUME IInv, NEW r \in Request,
         \/ Begin(r)
         \/ RequestStep(r) /\ ~Commit(r)
         \/ TaskStep(r) /\ ~TaskCommit(r)
         \/ Crash(r) \/ TaskCrash(r)
  PROVE  UNCHANGED << StoredUnder, PaidOut >>
<1>1. ASSUME UNCHANGED << status, key, settlement >>
      PROVE  UNCHANGED << StoredUnder, PaidOut >>
  BY <1>1, LedgerUntouched DEF Committed
<1>2. ASSUME NEW k \in Reference, NEW m \in Reference, BeginCreate(r, k, m)
      PROVE  UNCHANGED << StoredUnder, PaidOut >>
  <2>1. /\ UNCHANGED << status, settlement >>
        /\ key' = [ key EXCEPT ![r] = k ]
        /\ ~Committed(r)
    BY <1>2 DEF BeginCreate, databaseVars, IInv, CommittedByCreator
  <2>2. \A t \in Request : Committed(t) => key'[t] = key[t]
    BY <2>1 DEF IInv, TypeOK
  <2>3. QED
    BY <2>1, <2>2, LedgerUntouched DEF Committed
<1>3. ASSUME NEW to \in Status, status' = [ status EXCEPT ![target[r]] = to ],
             key[r] = Null, pc[r] \in Running, UNCHANGED << key, settlement >>
      PROVE  UNCHANGED << StoredUnder, PaidOut >>
  <2>1. Committed(target[r]) /\ to # "NONE"
    BY <1>3 DEF IInv, CommittedByCreator, Status
  <2>2. \A t \in Request : Committed(t)' <=> Committed(t)
    BY <1>3, <2>1 DEF IInv, TypeOK, Committed
  <2>3. QED
    BY <1>3, <2>2, LedgerUntouched
<1>4. ASSUME Begin(r) PROVE UNCHANGED << StoredUnder, PaidOut >>
  <2>1. \/ \E k, m \in Reference : BeginCreate(r, k, m)
        \/ UNCHANGED << status, key, settlement >>
    BY <1>4 DEF Begin, SignLoad, CancelLoad, RefundLoad, WebhookLoad,
                MoyasarLoad, Notify, Load, databaseVars
  <2>2. QED
    BY <1>1, <1>2, <2>1
<1>5. ASSUME RequestStep(r), ~Commit(r)
      PROVE  UNCHANGED << StoredUnder, PaidOut >>
  <2>1. CASE CancelWrite(r) \/ RefundWrite(r) \/ WebhookWrite(r)
    <3>1. key[r] = Null /\ pc[r] \in Running /\ UNCHANGED << key, settlement >>
      BY <2>1 DEF CancelWrite, RefundWrite, WebhookWrite, Overwrite, IInv,
                  KeysNameCreators, Running
    <3>2. work[r].status \in Status \/ pc[r] # "webhook"
      BY DEF IInv, WorkIsVisible, Status
    <3>3. \E to \in Status : status' = [ status EXCEPT ![target[r]] = to ]
      BY <2>1, <3>2 DEF CancelWrite, RefundWrite, WebhookWrite, Overwrite, Status
    <3>4. QED
      BY <1>3, <3>1, <3>3
  <2>2. CASE ~(CancelWrite(r) \/ RefundWrite(r) \/ WebhookWrite(r))
    <3>1. UNCHANGED << status, key, settlement >>
      BY <1>5, <2>2
         DEF RequestStep, LookupAlternate, Insert, Charge, SignWrite, Settle,
             Defer, RefundGateway, RefundRefused, databaseVars
    <3>2. QED
      BY <1>1, <3>1
  <2>3. QED
    BY <2>1, <2>2
<1>6. ASSUME TaskStep(r), ~TaskCommit(r)
      PROVE  UNCHANGED << StoredUnder, PaidOut >>
  <2>1. UNCHANGED << status, key, settlement >>
    BY <1>6 DEF TaskStep, TaskLoad, TaskPlan, TaskReturn, TaskTransfer,
                TaskRetry, TaskAck, databaseVars, requestVars
  <2>2. QED
    BY <1>1, <2>1
<1>7. ASSUME Crash(r) \/ TaskCrash(r)
      PROVE  UNCHANGED << StoredUnder, PaidOut >>
  <2>1. UNCHANGED << status, key, settlement >>
    BY <1>7 DEF Crash, TaskCrash, databaseVars, requestVars
  <2>2. QED
    BY <1>1, <2>1
<1>8. QED
  BY <1>4, <1>5, <1>6, <1>7

\* The commit of create_payment stores the payment under its key; the commit
\* of complete_signature, like the task's, may pay a stored payment out.
LEMMA CommitsStepLedger ==
  ASSUME IInv, IInv', NEW r \in Request, Commit(r) \/ TaskCommit(r)
  PROVE  [Ledger!Next]_<< StoredUnder, PaidOut >>
<1>1. PICK t \in Request : t = target[r]
  BY DEF IInv, TypeOK
<1>2. /\ key' = key /\ key[t] \in Reference \cup { Null }
      /\ \A u \in Request \ { t } : /\ Committed(u)' <=> Committed(u)
                                    /\ settlement'[u] = settlement[u]
  <2>1. key[t] \in Reference \cup { Null }
    BY DEF IInv, TypeOK
  <2>2. CASE Commit(r)
    BY <1>1, <2>1, <2>2 DEF Commit, Committed, IInv, TypeOK
  <2>3. CASE TaskCommit(r)
    BY <1>1, <2>1, <2>3 DEF TaskCommit, requestVars, Committed, IInv, TypeOK
  <2>4. QED
    BY <2>2, <2>3
<1>3. Committed(t)'
  <2>1. CASE Commit(r)
    <3>1. status'[t] \in VisibleStatus
      BY <1>1, <2>1 DEF Commit, IInv, TypeOK, WorkIsVisible
    <3>2. QED
      BY <3>1 DEF Committed, VisibleStatus
  <2>2. CASE TaskCommit(r)
    BY <1>1, <2>2 DEF TaskCommit, IInv, TypeOK, Committed, EngineStatus
  <2>3. QED
    BY <2>1, <2>2
<1>4. key[t] \in Reference
  BY <1>2, <1>3 DEF IInv, CommittedByCreator
<1>5. settlement[t] = "COMPLETED" => settlement'[t] = "COMPLETED"
  <2>1. CASE Commit(r)
    BY <1>1, <2>1 DEF Commit, IInv, TypeOK, PayoutsOnRecord, HoldsRow
  <2>2. CASE TaskCommit(r)
    BY <1>1, <2>2 DEF TaskCommit, IInv, TypeOK, EngineSettlement
  <2>3. QED
    BY <2>1, <2>2
<1>6. PaidOut' \in { PaidOut, PaidOut \cup { t } }
  BY <1>2, <1>5 DEF PaidOut
<1>7. CASE Committed(t)
  <2>1. \A u \in Request, p \in Reference : Stored(u, p)' <=> Stored(u, p)
    BY <1>2, <1>3, <1>7 DEF Stored, Committed
  <2>2. StoredUnder' = StoredUnder
    BY <2>1 DEF StoredUnder
  <2>3. t \in StoredUnder[key[t]]
    BY <1>4, <1>7 DEF StoredUnder, Stored, Committed
  <2>4. CASE PaidOut' = PaidOut \cup { t }
    <3>1. Ledger!PayOut(key[t], t)
      BY <2>2, <2>3, <2>4 DEF Ledger!PayOut, StoredUnder, PaidOut
    <3>2. QED
      BY <1>4, <3>1 DEF Ledger!Next
  <2>5. CASE PaidOut' = PaidOut
    BY <2>2, <2>5
  <2>6. QED
    BY <1>6, <2>4, <2>5
<1>8. CASE ~Committed(t)
  <2>1. \A u \in Request : Committed(u) => key[u] # key[t]
    <3> SUFFICES ASSUME NEW u \in Request, Committed(u), key[u] = key[t]
                 PROVE  FALSE
      OBVIOUS
    <3>1. u # t /\ Committed(u)'
      BY <1>2, <1>8
    <3>2. key'[u] # Null /\ key'[t] # Null /\ key'[u] = key'[t]
      BY <1>2, <1>3, <3>1 DEF IInv, CommittedByCreator
    <3>3. OwnsKey(u)' /\ OwnsKey(t)'
      BY <1>3, <3>1, <3>2 DEF OwnsKey
    <3>4. QED
      BY <3>1, <3>2, <3>3 DEF IInv, OneOwnerPerKey
  <2>2. StoredUnder[key[t]] = {}
    BY <1>4, <2>1 DEF StoredUnder, Stored, Committed
  <2>3. \A q \in Reference : t \notin StoredUnder[q]
    BY <1>8 DEF StoredUnder, Stored, Committed
  <2>4. StoredUnder' = [ StoredUnder EXCEPT ![key[t]] = { t } ]
    <3>1. ASSUME NEW p \in Reference, p # key[t]
          PROVE  \A u \in Request : Stored(u, p)' <=> Stored(u, p)
      BY <1>2, <3>1, <1>8 DEF Stored, Committed
    <3>2. ASSUME NEW p \in Reference, p = key[t]
          PROVE  \A u \in Request : Stored(u, p)' <=> u = t
      BY <1>2, <1>3, <2>1, <3>2 DEF Stored, Committed
    <3>3. \A p \in Reference :
            { u \in Request : Stored(u, p)' }
              = IF p = key[t] THEN { t } ELSE { u \in Request : Stored(u, p) }
      <4> SUFFICES ASSUME NEW p \in Reference
                   PROVE  { u \in Request : Stored(u, p)' }
                            = IF p = key[t] THEN { t }
                              ELSE { u \in Request : Stored(u, p) }
        OBVIOUS
      <4>1. CASE p = key[t]
        BY <3>2, <4>1
      <4>2. CASE p # key[t]
        BY <3>1, <4>2
      <4>3. QED
        BY <4>1, <4>2
    <3>4. QED
      BY <3>3 DEF StoredUnder
  <2>5. Ledger!Store(key[t], t)
    BY <1>6, <2>2, <2>3, <2>4 DEF Ledger!Store, StoredUnder, PaidOut
  <2>6. QED
    BY <1>4, <2>5 DEF Ledger!Next
<1>9. QED
  BY <1>7, <1>8

\* The database implements the ledger (create_payment's unique constraint, and
\* the settlement rows): at most one payment is ever stored under a reference,
\* none is forgotten, and no payout is taken back.
THEOREM LedgerImplemented == Spec => ImplementsLedger
<1>1. Init => Ledger!Init
  BY PaymentsAssumption
     DEF Init, Ledger!Init, Stored, SettlementStatus
<1>2. IInv /\ IInv' /\ [Next]_vars => [Ledger!Next]_(Ledger!ledger)
  <2> SUFFICES ASSUME IInv, IInv', [Next]_vars
               PROVE  [Ledger!Next]_<< StoredUnder, PaidOut >>
    BY DEF Ledger!ledger, StoredUnder, PaidOut
  <2>1. ASSUME NEW r \in Request,
               \/ Begin(r) \/ RequestStep(r) \/ TaskStep(r)
               \/ Crash(r) \/ TaskCrash(r)
        PROVE  [Ledger!Next]_<< StoredUnder, PaidOut >>
    BY <2>1, OtherStepsKeepLedger, CommitsStepLedger
  <2>2. ASSUME NEW w \in Wallet, AddWallet(w)
        PROVE  UNCHANGED << StoredUnder, PaidOut >>
    BY <2>2, LedgerUntouched
       DEF AddWallet, databaseVars, requestVars, Committed
  <2>3. ASSUME UNCHANGED vars
        PROVE  UNCHANGED << StoredUnder, PaidOut >>
    BY <2>3, LedgerUntouched DEF vars, databaseVars, requestVars, Committed
  <2>4. QED
    BY <2>1, <2>2, <2>3 DEF Next
<1>3. QED
  BY <1>1, <1>2, InvariantHolds, PTL DEF Spec, ImplementsLedger, Ledger!Spec

=============================================================================
