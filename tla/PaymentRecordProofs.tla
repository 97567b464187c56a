------------------------ MODULE PaymentRecordProofs -------------------------
(***************************************************************************)
(* What the database records of a payment, for any number of requests,     *)
(* references, wallets, retries and faults: its receipt, the task that is  *)
(* to settle it, its history, how often it is transferred and to whom, how *)
(* often a card is charged, and how long requests and tasks go on.         *)
(***************************************************************************)
EXTENDS PaymentInvariantProofs, SequenceTheorems, FiniteSetTheorems

-----------------------------------------------------------------------------
(* Receipts *)

\* Nothing changes for a request that a step leaves alone.
LEMMA BystanderKeepsReceipt ==
  ASSUME NEW q \in Request, ReceiptBy(q), pc'[q] = pc[q], work'[q] = work[q],
         loaded'[q] = loaded[q], target'[q] = target[q],
         Accepted(target[q])' <=> Accepted(target[q]),
         pc[q] \in HoldsRow => receipt'[target[q]] = receipt[target[q]]
  PROVE  ReceiptBy(q)'
BY DEF ReceiptBy, Captured, CapturedStatus, Declined, Authorized, HoldsRow, Accepted

\* A task is unaffected by receipts and charges that are added.
LEMMA TaskKeepsReceipt ==
  ASSUME NEW q \in Request, ReceiptForTask(q), task'[q] = task[q],
         task[q] # "none" =>
           /\ target'[q] = target[q]
           /\ Accepted(target[q]) => Accepted(target[q])'
           /\ receipt[target[q]] => receipt'[target[q]]
  PROVE  ReceiptForTask(q)'
BY DEF ReceiptForTask, Accepted

\* A step of r that changes nothing in the database, and no charge, keeps the
\* receipts if what r has flushed is in order.
LEMMA SessionKeepsReceipts ==
  ASSUME IInv, ReceiptsFollowCharges, NEW r \in Request,
         UNCHANGED << status, receipt, charge, task >>,
         \A t \in Request : sent'[t] > 0 => sent[t] > 0 \/ Accepted(t),
         task[r] # "none" => target'[r] = target[r],
         \A q \in Request \ { r } :
           pc'[q] = pc[q] /\ work'[q] = work[q] /\ loaded'[q] = loaded[q]
           /\ target'[q] = target[q],
         ReceiptBy(r)'
  PROVE  ReceiptsFollowCharges'
<1>1. \A t \in Request : ReceiptOf(t)'
  BY DEF ReceiptsFollowCharges, ReceiptOf, Accepted, Committed
<1>2. \A q \in Request \ { r } : ReceiptBy(q)'
  BY BystanderKeepsReceipt DEF ReceiptsFollowCharges, Accepted
<1>3. \A q \in Request : ReceiptForTask(q)'
  <2>1. \A q \in Request : task[q] # "none" => target'[q] = target[q]
    OBVIOUS
  <2>2. QED
    BY <2>1, TaskKeepsReceipt DEF ReceiptsFollowCharges, Accepted
<1>4. QED
  BY <1>1, <1>2, <1>3 DEF ReceiptsFollowCharges

\* A task's steps before its commit change no record of the payment.
LEMMA WorkerKeepsReceipts ==
  ASSUME IInv, ReceiptsFollowCharges, NEW r \in Request,
         UNCHANGED << status, receipt, charge, requestVars >>,
         \A t \in Request : sent'[t] > 0 => sent[t] > 0 \/ Accepted(t),
         \A q \in Request \ { r } : task'[q] = task[q],
         ReceiptForTask(r)'
  PROVE  ReceiptsFollowCharges'
<1>1. \A t \in Request : ReceiptOf(t)'
  BY DEF ReceiptsFollowCharges, ReceiptOf, Accepted, Committed
<1>2. \A q \in Request : ReceiptBy(q)'
  BY BystanderKeepsReceipt DEF ReceiptsFollowCharges, Accepted, requestVars
<1>3. \A q \in Request \ { r } : ReceiptForTask(q)'
  BY TaskKeepsReceipt DEF ReceiptsFollowCharges, Accepted, requestVars
<1>4. QED
  BY <1>1, <1>2, <1>3 DEF ReceiptsFollowCharges

\* The steps up to the charge, and the loads, flush nothing that is captured.
LEMMA BeginningsKeepReceipts ==
  ASSUME IInv, ReceiptsFollowCharges, NEW r \in Request
  PROVE  /\ Begin(r) => ReceiptsFollowCharges'
         /\ LookupAlternate(r) \/ Insert(r) => ReceiptsFollowCharges'
<1> USE DEF databaseVars, walletVars, taskVars, outsideVars
<1>1. /\ pc \in [ Request -> PC ] /\ work \in [ Request -> Work ]
      /\ loaded \in [ Request -> Loaded ] /\ target \in [ Request -> Request ]
      /\ pc[r] = "idle" => task[r] = "none"
      /\ \A t \in Request : ReceiptOf(t)
      /\ OnlySettledStatusesCommitted
  BY DEF IInv, TypeOK, KeysNameCreators, ReceiptsFollowCharges
<1>2. ASSUME NEW k \in Reference, NEW m \in Reference, BeginCreate(r, k, m)
      PROVE  ReceiptsFollowCharges'
  <2>1. pc'[r] \in { "insert", "lookup_alternate" }
    BY <1>1, <1>2 DEF BeginCreate
  <2>2. ReceiptBy(r)'
    BY <2>1 DEF ReceiptBy, HoldsRow
  <2>3. QED
    BY <1>1, <1>2, <2>2, SessionKeepsReceipts DEF BeginCreate
<1>3. ASSUME NEW t \in Request, NEW next \in { "sign", "cancel", "refund" },
             Load(r, t, next), next = "sign" => status[t] = "AUTHORIZED"
      PROVE  ReceiptsFollowCharges'
  <2>1. /\ pc'[r] = next /\ target'[r] = t
        /\ loaded'[r] = [ status |-> status[t], receipt |-> receipt[t] ]
        /\ charge' = charge
    BY <1>1, <1>3 DEF Load
  <2>2. next = "sign" => Accepted(t) /\ receipt[t] = FALSE
    BY <1>1, <1>3 DEF ReceiptOf, IInv, TypeOK
  <2>3. ReceiptBy(r)'
    BY <1>3, <2>1, <2>2 DEF ReceiptBy, HoldsRow, Accepted
  <2>4. QED
    BY <1>1, <1>3, <2>3, SessionKeepsReceipts DEF Load
<1>4. ASSUME NEW t \in Request, NEW success \in BOOLEAN,
             WebhookLoad(r, t, success) \/ MoyasarLoad(r, t, success)
      PROVE  ReceiptsFollowCharges'
  <2>1. status[t] = "FAILED" /\ Notify(r, t, "CAPTURED")
    BY <1>1, <1>4 DEF WebhookLoad, MoyasarLoad, Notify, IPNStatus,
                      MoyasarStatus, OnlySettledStatusesCommitted
  <2>2. /\ pc'[r] = "webhook" /\ target'[r] = t
        /\ work'[r].status = "CAPTURED" /\ charge' = charge
    BY <1>1, <2>1 DEF Notify, NoWork
  <2>3. ReceiptBy(r)'
    BY <1>1, <2>1, <2>2 DEF ReceiptBy, ReceiptOf, HoldsRow, Accepted
  <2>4. QED
    BY <1>1, <2>1, <2>3, SessionKeepsReceipts DEF Notify
<1>5. ASSUME LookupAlternate(r) \/ Insert(r) PROVE ReceiptsFollowCharges'
  <2>1. pc'[r] \in { "insert", "inserted", "done" }
    BY <1>1, <1>5 DEF LookupAlternate, Insert
  <2>2. ReceiptBy(r)'
    BY <2>1 DEF ReceiptBy, HoldsRow
  <2>3. QED
    BY <1>1, <1>5, <2>2, SessionKeepsReceipts DEF LookupAlternate, Insert
<1>6. QED
  BY <1>2, <1>3, <1>4, <1>5 DEF Begin, SignLoad, CancelLoad, RefundLoad

\* The gateway's answer is the first of its payment, which nobody has seen.
LEMMA ChargeKeepsReceipts ==
  ASSUME IInv, ReceiptsFollowCharges, NEW r \in Request, Charge(r)
  PROVE  ReceiptsFollowCharges'
<1>1. PICK outcome \in ChargeOutcome :
        LET to == ChargeStatus(outcome) IN
        /\ pc[r] = "inserted"
        /\ charge' = [ charge EXCEPT ![r] = outcome ]
        /\ work' = [ work EXCEPT ![r] = Answered(@, to) ]
        /\ pc' = [ pc EXCEPT ![r] =
                     IF to = "CAPTURED" THEN "settle" ELSE "commit" ]
        /\ UNCHANGED << status, receipt, target, loaded, task, sent >>
  BY DEF Charge, databaseVars, taskVars
<1>2. /\ pc \in [ Request -> PC ] /\ work \in [ Request -> Work ]
      /\ charge \in [ Request -> ChargeOutcome \cup { "none" } ]
      /\ target \in [ Request -> Request ]
  BY DEF IInv, TypeOK
<1>3. charge[r] = "none" /\ target[r] = r /\ ~Committed(r)
  BY <1>1 DEF IInv, ChargesOnRecord, KeysNameCreators, CommittedByCreator
<1>4. /\ \A u \in Request \ { r } : Accepted(u)' <=> Accepted(u)
      /\ ~Accepted(r)
  BY <1>1, <1>2, <1>3 DEF Accepted
<1>5. \A t \in Request : ReceiptOf(t)'
  BY <1>1, <1>3, <1>4
     DEF ReceiptsFollowCharges, ReceiptOf, Committed
<1>6. ReceiptBy(r)'
  <2>1. /\ work'[r].status = ChargeStatus(outcome)
        /\ work'[r].receipt = (ChargeStatus(outcome) = "CAPTURED")
        /\ pc'[r] = IF ChargeStatus(outcome) = "CAPTURED" THEN "settle"
                                                          ELSE "commit"
    BY <1>1, <1>2 DEF Answered, Work
  <2>2. Accepted(r)' <=> outcome \in { "signature", "captured" }
    BY <1>1, <1>2 DEF Accepted
  <2>3. ~receipt'[r] /\ target'[r] = r
    BY <1>1, <1>3, <1>4 DEF ReceiptsFollowCharges, ReceiptOf
  <2>4. CASE outcome = "captured"
    BY <2>1, <2>2, <2>3, <2>4
       DEF ReceiptBy, ChargeStatus, Captured, CapturedStatus, HoldsRow, Accepted
  <2>5. CASE outcome = "signature"
    BY <2>1, <2>2, <2>3, <2>5
       DEF ReceiptBy, ChargeStatus, Authorized, HoldsRow, Accepted
  <2>6. CASE outcome \in { "declined", "invoiced" }
    BY <2>1, <2>2, <2>3, <2>6
       DEF ReceiptBy, ChargeStatus, Declined, HoldsRow, Accepted
  <2>7. QED
    BY <2>4, <2>5, <2>6 DEF ChargeOutcome
<1>7. ASSUME NEW q \in Request \ { r } PROVE ReceiptBy(q)'
  <2>1. /\ pc'[q] = pc[q] /\ work'[q] = work[q] /\ loaded'[q] = loaded[q]
        /\ target'[q] = target[q] /\ ReceiptBy(q)
    BY <1>1, <1>2 DEF ReceiptsFollowCharges
  <2>2. CASE target[q] # r
    BY <1>1, <1>2, <1>4, <2>1, <2>2, BystanderKeepsReceipt DEF Accepted
  <2>3. CASE target[q] = r
    <3>1. key[q] = Null /\ pc[q] \notin Running
      BY <1>3, <2>3 DEF IInv, KeysNameCreators, CommittedByCreator
    <3>2. QED
      BY <2>1, <3>1 DEF ReceiptBy, HoldsRow, Running
  <2>4. QED
    BY <2>2, <2>3
<1>8. \A q \in Request : ReceiptForTask(q)'
  BY <1>1, <1>2, <1>4, TaskKeepsReceipt DEF ReceiptsFollowCharges, Accepted
<1>9. QED
  BY <1>5, <1>6, <1>7, <1>8 DEF ReceiptsFollowCharges

\* complete_signature captures an authorized payment that has no receipt.
LEMMA SignKeepsReceipts ==
  ASSUME IInv, ReceiptsFollowCharges, NEW r \in Request, SignWrite(r)
  PROVE  ReceiptsFollowCharges'
<1>1. /\ pc \in [ Request -> PC ] /\ work \in [ Request -> Work ]
      /\ loaded \in [ Request -> Loaded ]
      /\ pc[r] = "sign" /\ Accepted(target[r])
      /\ loaded[r].receipt = FALSE
  BY DEF IInv, TypeOK, SignWrite, ReceiptsFollowCharges, ReceiptBy
<1>2. /\ UNCHANGED << status, receipt, charge, task, sent, target >>
      /\ \A q \in Request \ { r } :
           pc'[q] = pc[q] /\ work'[q] = work[q] /\ loaded'[q] = loaded[q]
  BY <1>1 DEF SignWrite, databaseVars, taskVars, outsideVars
<1>3. ReceiptBy(r)'
  <2>1. CASE pc'[r] = "done"
    BY <2>1 DEF ReceiptBy, HoldsRow
  <2>2. CASE pc'[r] # "done"
    <3>1. /\ ~ReceiptConflict(r)
          /\ pc'[r] = "settle"
          /\ work'[r].status = "CAPTURED" /\ work'[r].receipt
      BY <1>1, <2>2 DEF SignWrite
    <3>2. ~receipt[target[r]]
      BY <1>1, <3>1 DEF ReceiptConflict
    <3>3. QED
      BY <1>1, <1>2, <3>1, <3>2
         DEF ReceiptBy, Captured, CapturedStatus, HoldsRow, Accepted
  <2>3. QED
    BY <2>1, <2>2
<1>4. QED
  BY <1>2, <1>3, SessionKeepsReceipts

\* The engine's run in the request's session keeps its receipt.
LEMMA InlineKeepsReceipts ==
  ASSUME IInv, ReceiptsFollowCharges, NEW r \in Request,
         Settle(r) \/ Defer(r)
  PROVE  ReceiptsFollowCharges'
<1>1. /\ pc \in [ Request -> PC ] /\ work \in [ Request -> Work ]
      /\ task \in [ Request -> TaskState ] /\ sent \in [ Request -> Nat ]
      /\ pc[r] = "settle" /\ Captured(r) /\ work[r].receipt
      /\ ~receipt[target[r]]
  BY DEF IInv, TypeOK, Settle, Defer, ReceiptsFollowCharges, ReceiptBy, HoldsRow
<1>2. /\ UNCHANGED << status, receipt, charge, loaded, target >>
      /\ \A q \in Request \ { r } :
           pc'[q] = pc[q] /\ work'[q] = work[q] /\ task'[q] = task[q]
      /\ pc'[r] = "commit"
  BY <1>1 DEF Settle, Defer, Publish, databaseVars, taskVars, outsideVars
<1>3. ReceiptBy(r)'
  <2>1. /\ work'[r].receipt
        /\ work'[r].status \in { "CAPTURED", "SETTLEMENT_PENDING", "COMPLETED" }
    <3>1. CASE Settle(r)
      <4>1. work'[r] = Settled(work[r], InlineOutcome(r))
        BY <1>1, <3>1 DEF Settle
      <4>2. /\ InlineOutcome(r) \in { "sent", "already" }
            /\ Settled(work[r], InlineOutcome(r)).receipt = work[r].receipt
        BY <3>1 DEF Settle, Settled
      <4>3. QED
        BY <1>1, <4>1, <4>2, InlineResult
    <3>2. CASE Defer(r)
      <4>1. work'[r] = Deferred(work[r], InlineOutcome(r))
        BY <1>1, <3>2 DEF Defer
      <4>2. /\ Deferred(work[r], InlineOutcome(r)).receipt = work[r].receipt
            /\ Deferred(work[r], InlineOutcome(r)).status = "SETTLEMENT_PENDING"
        BY DEF Deferred, Settled
      <4>3. QED
        BY <1>1, <4>1, <4>2
    <3>3. QED
      BY <3>1, <3>2
  <2>2. QED
    BY <1>1, <1>2, <2>1 DEF ReceiptBy, Captured, CapturedStatus, HoldsRow, Accepted
<1>4. \A t \in Request : sent'[t] > 0 => sent[t] > 0 \/ Accepted(t)
  <2>1. CASE Settle(r)
    BY <1>1, <2>1 DEF Settle, Captured, CapturedStatus
  <2>2. CASE Defer(r)
    BY <2>2 DEF Defer, outsideVars
  <2>3. QED
    BY <2>1, <2>2
<1>5. ReceiptForTask(r)'
  <2>1. task'[r] \in { task[r], "queued", "unpublished" }
    BY <1>1 DEF Settle, Defer, Publish, taskVars
  <2>2. QED
    BY <1>1, <1>2, <2>1
       DEF ReceiptForTask, ReceiptsFollowCharges, Captured, CapturedStatus, Accepted
<1>6. \A t \in Request : ReceiptOf(t)'
  BY <1>2, <1>4 DEF ReceiptsFollowCharges, ReceiptOf, Accepted, Committed
<1>7. \A q \in Request \ { r } : ReceiptBy(q)' /\ ReceiptForTask(q)'
  BY <1>2, BystanderKeepsReceipt, TaskKeepsReceipt
     DEF ReceiptsFollowCharges, Accepted
<1>8. QED
  BY <1>3, <1>5, <1>6, <1>7 DEF ReceiptsFollowCharges

\* A commit gives the receipt together with the status that asks for it.
LEMMA CommitKeepsReceipts ==
  ASSUME IInv, IInv', ReceiptsFollowCharges, NEW r \in Request, Commit(r)
  PROVE  ReceiptsFollowCharges'
<1> DEFINE t == target[r]
<1>1. /\ pc \in [ Request -> PC ] /\ work \in [ Request -> Work ]
      /\ receipt \in [ Request -> BOOLEAN ]
      /\ status \in [ Request -> OptionalStatus ] /\ t \in Request
      /\ pc[r] = "commit" /\ ReceiptBy(r) /\ ReceiptOf(t)
  BY DEF IInv, TypeOK, Commit, ReceiptsFollowCharges
<1>2. /\ status' = [ status EXCEPT ![t] = work[r].status ]
      /\ receipt' = [ receipt EXCEPT ![t] = @ \/ work[r].receipt ]
      /\ pc' = [ pc EXCEPT ![r] = "done" ]
      /\ work' = [ work EXCEPT ![r] = NoWork ]
      /\ UNCHANGED << charge, sent, target, loaded, task >>
  BY DEF Commit, taskVars, outsideVars
<1>3. /\ ~receipt[t] /\ status'[t] = work[r].status
      /\ receipt'[t] <=> work[r].receipt
  <2>1. receipt'[t] = (receipt[t] \/ work[r].receipt)
    BY <1>1, <1>2
  <2>2. ~receipt[t] /\ status'[t] = work[r].status
    BY <1>1, <1>2 DEF ReceiptBy, HoldsRow
  <2>3. QED
    BY <2>1, <2>2
<1>4. ReceiptOf(t)'
  <2>1. CASE work[r].receipt
    BY <1>1, <1>2, <1>3, <2>1
       DEF ReceiptBy, ReceiptOf, Captured, CapturedStatus, Accepted, Committed
  <2>2. CASE ~work[r].receipt
    BY <1>1, <1>2, <1>3, <2>2
       DEF ReceiptBy, ReceiptOf, Declined, Authorized, Accepted, Committed
  <2>3. QED
    BY <2>1, <2>2
<1>5. \A u \in Request \ { t } : ReceiptOf(u)'
  BY <1>1, <1>2 DEF ReceiptsFollowCharges, ReceiptOf, Accepted, Committed
<1>6. \A q \in Request \ { r } : ReceiptBy(q)'
  <2> SUFFICES ASSUME NEW q \in Request \ { r } PROVE ReceiptBy(q)'
    OBVIOUS
  <2>1. pc[q] \in HoldsRow => target[q] # t
    BY <1>1 DEF IInv, OneOwnerPerRow, OwnsRow, HoldsRow
  <2>2. pc[q] \in HoldsRow => receipt'[target[q]] = receipt[target[q]]
    BY <1>1, <1>2, <2>1
  <2>3. /\ pc'[q] = pc[q] /\ work'[q] = work[q] /\ ReceiptBy(q)
    BY <1>1, <1>2 DEF ReceiptsFollowCharges
  <2>4. QED
    BY <1>2, <2>2, <2>3, BystanderKeepsReceipt DEF Accepted
<1>7. ReceiptBy(r)'
  BY <1>1, <1>2 DEF ReceiptBy, HoldsRow
<1>8. \A q \in Request : ReceiptForTask(q)'
  BY <1>1, <1>2, TaskKeepsReceipt DEF ReceiptsFollowCharges, Accepted
<1>9. QED
  BY <1>1, <1>2, <1>4, <1>5, <1>6, <1>7, <1>8 DEF ReceiptsFollowCharges

\* Cancelling, refunding and an IPN's capture change neither receipts nor
\* charges.
LEMMA OverwritesKeepReceipts ==
  ASSUME IInv, ReceiptsFollowCharges, NEW r \in Request,
         CancelWrite(r) \/ RefundWrite(r) \/ WebhookWrite(r)
  PROVE  ReceiptsFollowCharges'
<1>1. /\ pc \in [ Request -> PC ] /\ work \in [ Request -> Work ]
      /\ loaded \in [ Request -> Loaded ]
      /\ status \in [ Request -> OptionalStatus ] /\ target[r] \in Request
      /\ pc[r] \in { "cancel", "refunded", "webhook" }
      /\ Committed(target[r])
  BY DEF IInv, TypeOK, CancelWrite, RefundWrite, WebhookWrite,
         KeysNameCreators, CommittedByCreator, Running
<1>2. PICK to : /\ status' = [ status EXCEPT ![target[r]] = to ]
                /\ \/ to \in { "CANCELLED", "REFUNDED" }
                   \/ to = "CAPTURED" /\ ~Accepted(target[r])
  BY <1>1 DEF CancelWrite, RefundWrite, WebhookWrite, Overwrite,
              ReceiptsFollowCharges, ReceiptBy
<1>3. /\ UNCHANGED << receipt, charge, sent, target, task >>
      /\ \A q \in Request \ { r } :
           pc'[q] = pc[q] /\ work'[q] = work[q] /\ loaded'[q] = loaded[q]
      /\ pc'[r] = "done"
  BY <1>1 DEF CancelWrite, RefundWrite, WebhookWrite, Overwrite, taskVars,
              outsideVars
<1>4. \A u \in Request : ReceiptOf(u)'
  BY <1>1, <1>2, <1>3 DEF ReceiptsFollowCharges, ReceiptOf, Accepted, Committed
<1>5. \A q \in Request \ { r } : ReceiptBy(q)'
  BY <1>3, BystanderKeepsReceipt DEF ReceiptsFollowCharges, Accepted
<1>6. ReceiptBy(r)'
  BY <1>3 DEF ReceiptBy, HoldsRow
<1>7. \A q \in Request : ReceiptForTask(q)'
  BY <1>3, TaskKeepsReceipt DEF ReceiptsFollowCharges, Accepted
<1>8. QED
  BY <1>4, <1>5, <1>6, <1>7 DEF ReceiptsFollowCharges

\* Refund calls and crashes leave the records alone.
LEMMA OtherRequestStepsKeepReceipts ==
  ASSUME IInv, ReceiptsFollowCharges, NEW r \in Request,
         RefundGateway(r) \/ RefundRefused(r) \/ Crash(r)
  PROVE  ReceiptsFollowCharges'
<1>1. /\ pc \in [ Request -> PC ] /\ work \in [ Request -> Work ]
      /\ loaded \in [ Request -> Loaded ]
  BY DEF IInv, TypeOK
<1>2. /\ pc'[r] \in { "refunded", "done", "crashed" }
      /\ UNCHANGED << status, receipt, charge, sent, target, task >>
      /\ \A q \in Request \ { r } :
           pc'[q] = pc[q] /\ work'[q] = work[q] /\ loaded'[q] = loaded[q]
  BY <1>1 DEF RefundGateway, RefundRefused, Crash, databaseVars, taskVars,
              outsideVars
<1>3. ReceiptBy(r)'
  BY <1>2 DEF ReceiptBy, HoldsRow
<1>4. QED
  BY <1>2, <1>3, SessionKeepsReceipts

\* A task loads only a payment that is captured or pending and accepted, and
\* so has its receipt.
LEMMA TasksKeepReceipts ==
  ASSUME IInv, ReceiptsFollowCharges, NEW r \in Request,
         TaskStep(r) \/ TaskCrash(r)
  PROVE  ReceiptsFollowCharges'
<1>1. /\ task \in [ Request -> TaskState ] /\ sent \in [ Request -> Nat ]
      /\ status \in [ Request -> OptionalStatus ] /\ target[r] \in Request
      /\ ReceiptForTask(r) /\ ReceiptOf(target[r])
      /\ OnlySettledStatusesCommitted
  BY DEF IInv, TypeOK, ReceiptsFollowCharges
<1>2. task[r] # "none"
  BY DEF TaskStep, TaskLoad, TaskPlan, TaskReturn, TaskTransfer, TaskRetry,
         TaskRaises, TaskCommit, TaskAck, TaskCrash, TaskRunning
<1>3. /\ UNCHANGED << receipt, charge, requestVars >>
      /\ \A q \in Request \ { r } : task'[q] = task[q]
  BY <1>1 DEF TaskStep, TaskLoad, TaskPlan, TaskReturn, TaskTransfer,
              TaskRetry, TaskCommit, TaskAck, TaskCrash, databaseVars,
              outsideVars
<1>4. /\ task'[r] \in { "loaded", "planned", "transferred" } =>
           receipt[target[r]]
      /\ TaskCommit(r) => receipt[target[r]]
  <2>1. CASE TaskLoad(r)
    BY <1>1, <2>1 DEF TaskLoad, Eligible, ReceiptForTask, ReceiptOf,
                      OnlySettledStatusesCommitted
  <2>2. CASE TaskPlan(r) \/ TaskReturn(r) \/ TaskTransfer(r) \/ TaskAck(r)
             \/ TaskCommit(r)
    BY <1>1, <2>2 DEF TaskPlan, TaskReturn, TaskTransfer, TaskAck, TaskCommit,
                      ReceiptForTask
  <2>3. CASE TaskRetry(r) \/ TaskCrash(r)
    BY <1>1, <2>3 DEF TaskRetry, TaskCrash, TaskCommit, TaskRaises
  <2>4. QED
    BY <2>1, <2>2, <2>3 DEF TaskStep
<1>5. ReceiptForTask(r)'
  BY <1>1, <1>2, <1>3, <1>4 DEF ReceiptForTask, Accepted, requestVars
<1>6. \A t \in Request : sent'[t] > 0 => sent[t] > 0 \/ Accepted(t)
  BY <1>1, <1>2
     DEF TaskStep, TaskLoad, TaskPlan, TaskReturn, TaskTransfer, TaskRetry,
         TaskCommit, TaskAck, TaskCrash, outsideVars, ReceiptForTask
<1>7. CASE TaskCommit(r)
  <2>1. status' = [ status EXCEPT ![target[r]] = "COMPLETED" ]
    BY <1>7 DEF TaskCommit, EngineStatus
  <2>2. \A t \in Request : ReceiptOf(t)'
    BY <1>1, <1>3, <1>4, <1>6, <1>7, <2>1
       DEF ReceiptsFollowCharges, ReceiptOf, Accepted, Committed
  <2>3. \A q \in Request : ReceiptBy(q)'
    BY <1>3, BystanderKeepsReceipt
       DEF ReceiptsFollowCharges, Accepted, requestVars
  <2>4. \A q \in Request \ { r } : ReceiptForTask(q)'
    BY <1>3, TaskKeepsReceipt DEF ReceiptsFollowCharges, Accepted, requestVars
  <2>5. QED
    BY <1>5, <2>2, <2>3, <2>4 DEF ReceiptsFollowCharges
<1>8. CASE ~TaskCommit(r)
  <2>1. status' = status
    BY <1>8 DEF TaskStep, TaskLoad, TaskPlan, TaskReturn, TaskTransfer,
                TaskRetry, TaskAck, TaskCrash, databaseVars
  <2>2. QED
    BY <1>3, <1>5, <1>6, <2>1, WorkerKeepsReceipts
<1>9. QED
  BY <1>7, <1>8

\* Every step keeps the receipts in order.
LEMMA NextKeepsReceipts ==
  ASSUME IInv, IInv', ReceiptsFollowCharges, [Next]_vars
  PROVE  ReceiptsFollowCharges'
<1>1. ASSUME NEW r \in Request,
             \/ Begin(r) \/ RequestStep(r) \/ TaskStep(r)
             \/ Crash(r) \/ TaskCrash(r)
      PROVE  ReceiptsFollowCharges'
  BY <1>1, BeginningsKeepReceipts, ChargeKeepsReceipts, SignKeepsReceipts,
     InlineKeepsReceipts, CommitKeepsReceipts, OverwritesKeepReceipts,
     OtherRequestStepsKeepReceipts, TasksKeepReceipts DEF RequestStep
<1>2. ASSUME NEW w \in Wallet, AddWallet(w) PROVE ReceiptsFollowCharges'
  BY <1>2 DEF AddWallet, ReceiptsFollowCharges, ReceiptOf, ReceiptBy,
              ReceiptForTask, Accepted, Committed, Captured, CapturedStatus, Declined,
              Authorized, databaseVars, requestVars, taskVars, outsideVars
<1>3. CASE UNCHANGED vars
  BY <1>3 DEF vars, ReceiptsFollowCharges, ReceiptOf, ReceiptBy,
              ReceiptForTask, Accepted, Committed, Captured, CapturedStatus, Declined,
              Authorized, databaseVars, requestVars, taskVars, outsideVars
<1>4. QED
  BY <1>1, <1>2, <1>3 DEF Next

\* Receipts follow charges in every reachable state.
THEOREM ReceiptsHold == Spec => []ReceiptsFollowCharges
<1>1. Init => ReceiptsFollowCharges
  BY DEF Init, ReceiptsFollowCharges, ReceiptOf, ReceiptBy, ReceiptForTask,
         HoldsRow, Committed
<1>2. IInv /\ IInv' /\ ReceiptsFollowCharges /\ [Next]_vars
        => ReceiptsFollowCharges'
  BY NextKeepsReceipts
<1>3. QED
  BY <1>1, <1>2, InvariantHolds, PTL DEF Spec

\* A payment on its way to the merchant has its receipt, and every receipt is
\* of an accepted charge (create_payment, complete_signature and the IPN).
THEOREM ReceiptsAreGiven == Spec => []SettledPaymentsHaveReceipts
<1>1. ReceiptsFollowCharges => SettledPaymentsHaveReceipts
  BY DEF ReceiptsFollowCharges, ReceiptOf, SettledPaymentsHaveReceipts, Accepted
<1>2. QED
  BY <1>1, ReceiptsHold, PTL

\* A merchant is paid only for accepted charges (_try_settle and the task).
THEOREM PayoutsAreCharged == Spec => []OnlyChargedPaymentsPaidOut
<1>1. ReceiptsFollowCharges => OnlyChargedPaymentsPaidOut
  BY DEF ReceiptsFollowCharges, ReceiptOf, OnlyChargedPaymentsPaidOut, Accepted
<1>2. QED
  BY <1>1, ReceiptsHold, PTL

-----------------------------------------------------------------------------
(* Pending settlements *)

\* A step that writes no payment, and after which r does not wait to commit,
\* keeps every pending settlement its task.
LEMMA SessionKeepsPending ==
  ASSUME IInv, PendingIsUnsettled, NEW r \in Request, pc'[r] # "commit",
         UNCHANGED << status, settlement, task >>,
         task[r] # "none" => target'[r] = target[r],
         \A q \in Request \ { r } :
           pc'[q] = pc[q] /\ work'[q] = work[q] /\ target'[q] = target[q]
  PROVE  PendingIsUnsettled'
<1>1. \A q \in Request \ { r } : PendingBy(q)'
  BY DEF PendingIsUnsettled, PendingBy, Unsuccessful
<1>2. PendingBy(r)'
  BY DEF PendingIsUnsettled, PendingBy, Unsuccessful
<1>3. \A q \in Request : Unsuccessful(q) => Unsuccessful(q)' /\ target'[q] = target[q]
  BY DEF Unsuccessful
<1>4. \A q \in Request : PendingBy(q)'
  BY <1>1, <1>2
<1>5. QED
  BY <1>3, <1>4 DEF PendingIsUnsettled

\* A settlement is completed for good.
LEMMA CompletedStays ==
  ASSUME IInv, NEW r \in Request, Commit(r)
  PROVE  \A t \in Request :
           settlement[t] = "COMPLETED" => settlement'[t] = "COMPLETED"
BY DEF IInv, TypeOK, PayoutsOnRecord, HoldsRow, Commit

\* The engine's run in the request's session leaves it settled or with a task.
LEMMA InlineKeepsPending ==
  ASSUME IInv, PendingIsUnsettled, NEW r \in Request,
         Settle(r) \/ Defer(r)
  PROVE  PendingIsUnsettled'
<1>1. /\ pc \in [ Request -> PC ] /\ work \in [ Request -> Work ]
      /\ task \in [ Request -> TaskState ]
      /\ pc[r] = "settle"
      /\ \A q \in Request : PendingBy(q)
  BY DEF IInv, TypeOK, Settle, Defer, PendingIsUnsettled
<1>2. /\ UNCHANGED << status, settlement, target >>
      /\ \A q \in Request \ { r } :
           pc'[q] = pc[q] /\ work'[q] = work[q] /\ task'[q] = task[q]
  BY <1>1 DEF Settle, Defer, Publish, databaseVars, taskVars, outsideVars
<1>3. CASE Settle(r)
  <2>1. work'[r] = Settled(work[r], InlineOutcome(r)) /\ task' = task
    BY <1>1, <1>3 DEF Settle, taskVars
  <2>2. work'[r].status # "SETTLEMENT_PENDING"
    BY <1>1, <1>3, <2>1, InlineResult DEF Settle
  <2>3. \A q \in Request : PendingBy(q)'
    BY <1>1, <1>2, <2>1, <2>2 DEF PendingBy, Unsuccessful
  <2>4. QED
    BY <1>2, <2>1, <2>3 DEF PendingIsUnsettled, Unsuccessful
<1>4. CASE Defer(r)
  <2>1. /\ work'[r] = Deferred(work[r], InlineOutcome(r))
        /\ task'[r] \in { "queued", "unpublished" }
        /\ InlineOutcome(r) \notin { "sent", "already" }
    BY <1>1, <1>4 DEF Defer, Publish
  <2>2. work'[r].settlement # "COMPLETED"
    BY <1>1, <2>1, InlineResult
  <2>3. \A q \in Request \ { r } : PendingBy(q)'
    BY <1>1, <1>2 DEF PendingBy, Unsuccessful
  <2>4. PendingBy(r)'
    BY <2>1, <2>2 DEF PendingBy, Unsuccessful
  <2>5. \A q \in Request : Unsuccessful(q) => Unsuccessful(q)'
    BY <1>2, <2>1 DEF Unsuccessful
  <2>6. \A q \in Request : PendingBy(q)'
    BY <2>3, <2>4
  <2>7. QED
    BY <1>2, <2>5, <2>6 DEF PendingIsUnsettled
<1>5. QED
  BY <1>3, <1>4

\* What a request commits as pending has its task.
LEMMA CommitKeepsPending ==
  ASSUME IInv, PendingIsUnsettled, NEW r \in Request, Commit(r)
  PROVE  PendingIsUnsettled'
<1>1. PICK t \in Request : t = target[r]
  BY DEF IInv, TypeOK
<1>2. /\ pc \in [ Request -> PC ] /\ work \in [ Request -> Work ]
      /\ status \in [ Request -> OptionalStatus ]
      /\ settlement \in [ Request -> SettlementStatus \cup { Null } ]
      /\ target \in [ Request -> Request ]
      /\ \A q \in Request : PendingBy(q)
  BY DEF IInv, TypeOK, PendingIsUnsettled
<1>3. /\ pc[r] = "commit"
      /\ status' = [ status EXCEPT ![t] = work[r].status ]
      /\ settlement' = [ settlement EXCEPT ![t] = work[r].settlement ]
      /\ pc' = [ pc EXCEPT ![r] = "done" ]
      /\ work' = [ work EXCEPT ![r] = NoWork ]
      /\ UNCHANGED << target, task >>
  BY <1>1 DEF Commit, taskVars
<1>4. \A q \in Request : PendingBy(q)'
  <2>1. \A q \in Request \ { r } : PendingBy(q)'
    BY <1>2, <1>3, CompletedStays DEF PendingBy, Unsuccessful
  <2>2. PendingBy(r)'
    BY <1>2, <1>3, CompletedStays DEF PendingBy, Unsuccessful
  <2>3. QED
    BY <2>1, <2>2
<1>5. status'[t] = "SETTLEMENT_PENDING" =>
        settlement'[t] # "COMPLETED" /\ Unsuccessful(r)'
  BY <1>2, <1>3 DEF PendingBy, Unsuccessful
<1>6. \A u \in Request \ { t } : status'[u] = status[u] /\ settlement'[u] = settlement[u]
  BY <1>2, <1>3
<1>7. \A q \in Request : Unsuccessful(q)' <=> Unsuccessful(q)
  BY <1>3 DEF Unsuccessful
<1>8. QED
  BY <1>1, <1>3, <1>4, <1>5, <1>6, <1>7 DEF PendingIsUnsettled

\* Cancelling, refunding and an IPN's capture take a payment out of
\* SETTLEMENT_PENDING, or leave it there.
LEMMA OverwritesKeepPending ==
  ASSUME IInv, PendingIsUnsettled, ReceiptsFollowCharges, NEW r \in Request,
         CancelWrite(r) \/ RefundWrite(r) \/ WebhookWrite(r)
  PROVE  PendingIsUnsettled'
<1>1. /\ pc \in [ Request -> PC ] /\ work \in [ Request -> Work ]
      /\ status \in [ Request -> OptionalStatus ] /\ target[r] \in Request
  BY DEF IInv, TypeOK
<1>2. /\ status' \in [ Request -> OptionalStatus ]
      /\ \A t \in Request :
           status'[t] = "SETTLEMENT_PENDING" => status[t] = "SETTLEMENT_PENDING"
  <2>1. WebhookWrite(r) => work[r].status = "CAPTURED"
    BY DEF WebhookWrite, ReceiptsFollowCharges, ReceiptBy
  <2>2. QED
    BY <1>1, <2>1 DEF CancelWrite, RefundWrite, WebhookWrite, Overwrite,
                      OptionalStatus, Status
<1>3. /\ UNCHANGED << settlement, target, task >>
      /\ \A q \in Request \ { r } : pc'[q] = pc[q] /\ work'[q] = work[q]
      /\ pc'[r] = "done"
  BY <1>1 DEF CancelWrite, RefundWrite, WebhookWrite, Overwrite, taskVars
<1>4. \A q \in Request \ { r } : PendingBy(q)'
  BY <1>3 DEF PendingIsUnsettled, PendingBy, Unsuccessful
<1>5. PendingBy(r)'
  BY <1>3 DEF PendingIsUnsettled, PendingBy, Unsuccessful
<1>6. \A q \in Request : PendingBy(q)'
  BY <1>4, <1>5
<1>7. QED
  BY <1>2, <1>3, <1>6 DEF PendingIsUnsettled, Unsuccessful

\* A task succeeds only when its settlement is completed.
LEMMA TasksKeepPending ==
  ASSUME IInv, PendingIsUnsettled, NEW r \in Request,
         TaskStep(r) \/ TaskCrash(r)
  PROVE  PendingIsUnsettled'
<1>1. /\ task \in [ Request -> TaskState ]
      /\ status \in [ Request -> OptionalStatus ]
      /\ settlement \in [ Request -> SettlementStatus \cup { Null } ]
      /\ target \in [ Request -> Request ]
      /\ \A q \in Request : PendingBy(q)
  BY DEF IInv, TypeOK, PendingIsUnsettled
<1>2. /\ UNCHANGED requestVars
      /\ \A q \in Request \ { r } : task'[q] = task[q]
  BY <1>1 DEF TaskStep, TaskLoad, TaskPlan, TaskReturn, TaskTransfer,
              TaskRetry, TaskCommit, TaskAck, TaskCrash
<1>3. task'[r] # "none"
  BY <1>1 DEF TaskStep, TaskLoad, TaskPlan, TaskReturn, TaskTransfer,
              TaskRetry, TaskCommit, TaskAck, TaskCrash
<1>4. task'[r] = "done" => settlement[target[r]] = "COMPLETED"
  BY <1>1 DEF TaskStep, TaskLoad, TaskPlan, TaskReturn, TaskTransfer,
              TaskRetry, TaskCommit, TaskAck, TaskCrash, PendingBy
<1>5. /\ task'[r] = "committed" => TaskCommit(r)
      /\ ~TaskCommit(r) => UNCHANGED << status, settlement >>
  BY <1>1 DEF TaskStep, TaskLoad, TaskPlan, TaskReturn, TaskTransfer,
              TaskRetry, TaskAck, TaskCrash, databaseVars
<1>6. TaskCommit(r) =>
        /\ status' = [ status EXCEPT ![target[r]] = "COMPLETED" ]
        /\ settlement' = [ settlement EXCEPT ![target[r]] = "COMPLETED" ]
  BY DEF TaskCommit, EngineStatus, EngineSettlement
<1>7. \A t \in Request :
        /\ settlement[t] = "COMPLETED" => settlement'[t] = "COMPLETED"
        /\ status'[t] = "SETTLEMENT_PENDING" =>
             status[t] = "SETTLEMENT_PENDING" /\ settlement'[t] = settlement[t]
  BY <1>1, <1>5, <1>6
<1>8. \A q \in Request : PendingBy(q)'
  <2>1. \A q \in Request \ { r } : PendingBy(q)'
    BY <1>1, <1>2, <1>7 DEF PendingBy, Unsuccessful, requestVars
  <2>2. task'[r] = "committed" => settlement'[target[r]] = "COMPLETED"
    BY <1>1, <1>5, <1>6
  <2>3. ASSUME pc[r] = "commit", work[r].status = "SETTLEMENT_PENDING"
        PROVE  work[r].settlement # "COMPLETED" /\ task'[r] # "done"
    BY <1>1, <1>4, <2>3 DEF PendingBy, IInv, PayoutsOnRecord, HoldsRow
  <2>4. PendingBy(r)'
    BY <1>2, <1>3, <2>2, <2>3 DEF PendingBy, Unsuccessful, requestVars
  <2>5. QED
    BY <2>1, <2>4
<1>9. ASSUME NEW t \in Request, status'[t] = "SETTLEMENT_PENDING"
      PROVE  /\ settlement'[t] # "COMPLETED"
             /\ \E q \in Request : target[q] = t /\ Unsuccessful(q)'
  <2>1. status[t] = "SETTLEMENT_PENDING" /\ settlement'[t] = settlement[t]
    BY <1>7, <1>9
  <2>2. PICK q \in Request : target[q] = t /\ Unsuccessful(q)
    BY <2>1 DEF PendingIsUnsettled
  <2>3. settlement[t] # "COMPLETED"
    BY <2>1 DEF PendingIsUnsettled
  <2>4. Unsuccessful(q)'
    BY <1>2, <1>3, <1>4, <2>2, <2>3 DEF Unsuccessful
  <2>5. QED
    BY <2>1, <2>2, <2>3, <2>4
<1>10. QED
  BY <1>2, <1>8, <1>9 DEF PendingIsUnsettled, requestVars

\* Every step keeps pending settlements their tasks.
LEMMA NextKeepsPending ==
  ASSUME IInv, ReceiptsFollowCharges, PendingIsUnsettled, [Next]_vars
  PROVE  PendingIsUnsettled'
<1>1. /\ pc \in [ Request -> PC ] /\ work \in [ Request -> Work ]
      /\ target \in [ Request -> Request ]
      /\ \A r \in Request : pc[r] = "idle" => task[r] = "none"
  BY DEF IInv, TypeOK, KeysNameCreators
<1>2. ASSUME NEW r \in Request, Begin(r) PROVE PendingIsUnsettled'
  BY <1>1, <1>2, SessionKeepsPending
     DEF Begin, BeginCreate, SignLoad, CancelLoad, RefundLoad, Load,
         WebhookLoad, MoyasarLoad, Notify, databaseVars, taskVars
<1>3. ASSUME NEW r \in Request,
             \/ LookupAlternate(r) \/ Insert(r) \/ SignWrite(r)
             \/ RefundGateway(r) \/ RefundRefused(r) \/ Crash(r)
      PROVE  PendingIsUnsettled'
  BY <1>1, <1>3, SessionKeepsPending
     DEF LookupAlternate, Insert, SignWrite, RefundGateway, RefundRefused,
         Crash, databaseVars, taskVars
<1>4. ASSUME NEW r \in Request, Charge(r) PROVE PendingIsUnsettled'
  <2>1. PICK outcome \in ChargeOutcome :
          /\ work' = [ work EXCEPT ![r] = Answered(@, ChargeStatus(outcome)) ]
          /\ \A q \in Request \ { r } : pc'[q] = pc[q]
          /\ UNCHANGED << status, settlement, target, task >>
    BY <1>1, <1>4 DEF Charge, databaseVars, taskVars
  <2>2. work'[r].status = ChargeStatus(outcome)
    BY <1>1, <2>1 DEF Answered, Work
  <2>3. ChargeStatus(outcome) # "SETTLEMENT_PENDING"
    BY DEF ChargeStatus, ChargeOutcome
  <2>4. \A q \in Request \ { r } : PendingBy(q)'
    BY <1>1, <2>1 DEF PendingIsUnsettled, PendingBy, Unsuccessful
  <2>5. PendingBy(r)'
    BY <2>1, <2>2, <2>3 DEF PendingIsUnsettled, PendingBy, Unsuccessful
  <2>6. \A q \in Request : PendingBy(q)'
    BY <2>4, <2>5
  <2>7. QED
    BY <2>1, <2>6 DEF PendingIsUnsettled, Unsuccessful
<1>5. ASSUME NEW r \in Request, RequestStep(r) PROVE PendingIsUnsettled'
  BY <1>3, <1>4, <1>5, InlineKeepsPending, CommitKeepsPending,
     OverwritesKeepPending DEF RequestStep
<1>6. ASSUME NEW w \in Wallet, AddWallet(w) PROVE PendingIsUnsettled'
  BY <1>6 DEF AddWallet, PendingIsUnsettled, PendingBy, Unsuccessful,
              databaseVars, requestVars, taskVars
<1>7. CASE UNCHANGED vars
  BY <1>7 DEF vars, PendingIsUnsettled, PendingBy, Unsuccessful, databaseVars,
              requestVars, taskVars
<1>8. QED
  BY <1>2, <1>3, <1>5, <1>6, <1>7, TasksKeepPending DEF Next

\* Pending settlements are unsettled in every reachable state.
THEOREM PendingHolds == Spec => []PendingIsUnsettled
<1>1. Init => PendingIsUnsettled
  BY DEF Init, PendingIsUnsettled, PendingBy
<1>2. IInv /\ ReceiptsFollowCharges /\ PendingIsUnsettled /\ [Next]_vars
        => PendingIsUnsettled'
  BY NextKeepsPending
<1>3. QED
  BY <1>1, <1>2, InvariantHolds, ReceiptsHold, PTL DEF Spec

\* _try_settle never defers a settlement to nobody: a pending payment has a
\* task that will try it, or one that has failed for good.
THEOREM PendingIsAttended == Spec => []PendingHasTask
<1>1. IInv /\ PendingIsUnsettled => PendingHasTask
  BY DEF IInv, TypeOK, PendingIsUnsettled, PendingHasTask, Unsuccessful,
         TaskState
<1>2. QED
  BY <1>1, InvariantHolds, PendingHolds, PTL

-----------------------------------------------------------------------------
(* Histories *)

\* Logs are joined entry by entry.
LEMMA LogsJoin ==
  ASSUME NEW h \in Seq(LogEntry), NEW l \in Seq(LogEntry)
  PROVE  /\ Allowed(h) /\ Allowed(l) => Allowed(h \o l)
         /\ \A s : EndsAt(l, s) => EndsAt(h \o l, s)
         /\ l # << >> => (h \o l)[Len(h) + 1] = l[1]
         /\ h # << >> => (h \o l)[1] = h[1]
<1>1. ASSUME Allowed(h), Allowed(l) PROVE Allowed(h \o l)
  <2> SUFFICES ASSUME NEW i \in 1 .. Len(h) + Len(l)
               PROVE  AssertTransition((h \o l)[i][1], (h \o l)[i][2])
    BY DEF Allowed
  <2>1. CASE i <= Len(h)
    BY <1>1, <2>1 DEF Allowed
  <2>2. CASE i > Len(h)
    <3>1. i - Len(h) \in 1 .. Len(l) /\ (h \o l)[i] = l[i - Len(h)]
      BY <2>2
    <3>2. QED
      BY <1>1, <3>1 DEF Allowed
  <2>3. QED
    BY <2>1, <2>2
<1>2. ASSUME NEW s, EndsAt(l, s) PROVE EndsAt(h \o l, s)
  <2>1. Len(l) > 0 /\ Len(h \o l) = Len(h) + Len(l)
    BY <1>2 DEF EndsAt
  <2>2. (h \o l)[Len(h \o l)] = l[Len(l)]
    BY <2>1
  <2>3. QED
    BY <1>2, <2>1, <2>2 DEF EndsAt
<1>3. l # << >> => (h \o l)[Len(h) + 1] = l[1]
  OBVIOUS
<1>4. h # << >> => (h \o l)[1] = h[1]
  OBVIOUS
<1>5. QED
  BY <1>1, <1>2, <1>3, <1>4

\* A log of one transition.
LEMMA LogOfOne ==
  ASSUME NEW from, NEW to, AssertTransition(from, to)
  PROVE  /\ Allowed(<< << from, to >> >>)
         /\ EndsAt(<< << from, to >> >>, to)
BY DEF Allowed, EndsAt

\* The transitions the code makes without asking the table are in it.
LEMMA AllowedSteps ==
  /\ AssertTransition("NONE", "PROCESSING")
  /\ \A to \in { "CAPTURED", "AUTHORIZED", "FAILED" } :
       AssertTransition("PROCESSING", to)
  /\ AssertTransition("AUTHORIZED", "CAPTURED")
  /\ AssertTransition("CAPTURED", "SETTLEMENT_PENDING")
  /\ \A from \in { "CAPTURED", "SETTLEMENT_PENDING" } :
       AssertTransition(from, "SETTLEMENT_PROCESSING")
  /\ AssertTransition("SETTLEMENT_PROCESSING", "MANUAL_REVIEW")
  /\ AssertTransition("SETTLEMENT_PROCESSING", "COMPLETED")
  /\ \A from \in Refundable : AssertTransition(from, "REFUNDED")
BY DEF AssertTransition, InitialStatus, AllowedTransitions, Status, Refundable

\* What the engine logs is allowed, from the statuses it starts from.
LEMMA EngineLogAllowed ==
  ASSUME NEW from \in { "CAPTURED", "SETTLEMENT_PENDING" },
         NEW outcome \in Outcome
  PROVE  /\ EngineLog(from, outcome) \in Seq(LogEntry)
         /\ Allowed(EngineLog(from, outcome))
         /\ outcome = "sent" => EndsAt(EngineLog(from, outcome), "COMPLETED")
         /\ outcome = "already" => EngineLog(from, outcome) = << >>
         /\ outcome = "sent" =>
              EngineLog(from, outcome) # << >> /\ EngineLog(from, outcome)[1][1] = from
<1>1. EngineLog(from, outcome) \in Seq(LogEntry)
  BY EngineResultTypes DEF OptionalStatus, Status
<1>2. CASE outcome \in { "already", "no_wallet" }
  BY <1>1, <1>2 DEF EngineLog, Allowed
<1>3. CASE outcome \in { "no_quote", "no_provider" }
  BY <1>1, <1>3, AllowedSteps DEF EngineLog, Allowed
<1>4. CASE outcome = "rejected"
  BY <1>1, <1>4, AllowedSteps DEF EngineLog, Allowed
<1>5. CASE outcome = "sent"
  BY <1>1, <1>5, AllowedSteps DEF EngineLog, Allowed, EndsAt
<1>6. QED
  BY <1>2, <1>3, <1>4, <1>5 DEF Outcome

\* A step that writes no payment keeps the logs if what r has read and flushed
\* is in order.
LEMMA SessionKeepsLogs ==
  ASSUME LogsAreAllowed, NEW r \in Request,
         UNCHANGED << status, history >>,
         \A q \in Request \ { r } :
           /\ pc'[q] = pc[q] /\ work'[q] = work[q] /\ loaded'[q] = loaded[q]
           /\ task'[q] = task[q] /\ plan'[q] = plan[q],
         LogBy(r)'
  PROVE  LogsAreAllowed'
<1>1. \A q \in Request \ { r } : LogBy(q)'
  BY DEF LogsAreAllowed, LogBy, HoldsRow
<1>2. QED
  BY <1>1 DEF LogsAreAllowed

\* The first steps of requests: an insert logs the first transition, a cancel
\* or a refund has asked the table.
LEMMA BeginningsKeepLogs ==
  ASSUME IInv, LogsAreAllowed, NEW r \in Request
  PROVE  /\ Begin(r) => LogsAreAllowed'
         /\ LookupAlternate(r) \/ Insert(r) \/ RefundGateway(r)
              \/ RefundRefused(r) \/ Crash(r) => LogsAreAllowed'
<1> USE DEF databaseVars, walletVars, taskVars, outsideVars
<1>1. /\ pc \in [ Request -> PC ] /\ work \in [ Request -> Work ]
      /\ loaded \in [ Request -> Loaded ]
      /\ pc[r] = "idle" => task[r] = "none"
      /\ LogBy(r)
  BY DEF IInv, TypeOK, KeysNameCreators, LogsAreAllowed
<1>2. ASSUME NEW k \in Reference, NEW m \in Reference, BeginCreate(r, k, m)
      PROVE  LogsAreAllowed'
  <2>1. pc'[r] \in { "insert", "lookup_alternate" } /\ task'[r] = "none"
    BY <1>1, <1>2 DEF BeginCreate
  <2>2. LogBy(r)'
    BY <2>1 DEF LogBy, HoldsRow
  <2>3. QED
    BY <1>1, <1>2, <2>2, SessionKeepsLogs DEF BeginCreate
<1>3. ASSUME NEW t \in Request, NEW next \in { "sign", "cancel", "refund" },
             Load(r, t, next),
             next = "cancel" => AssertTransition(status[t], "CANCELLED"),
             next = "refund" => status[t] \in Refundable
      PROVE  LogsAreAllowed'
  <2>1. pc'[r] = next /\ loaded'[r].status = status[t] /\ task'[r] = "none"
    BY <1>1, <1>3 DEF Load
  <2>2. LogBy(r)'
    BY <1>3, <2>1 DEF LogBy, HoldsRow
  <2>3. QED
    BY <1>1, <1>3, <2>2, SessionKeepsLogs DEF Load
<1>4. ASSUME NEW t \in Request, NEW success \in BOOLEAN,
             WebhookLoad(r, t, success) \/ MoyasarLoad(r, t, success)
      PROVE  LogsAreAllowed'
  <2>1. pc'[r] = "webhook" /\ task'[r] = "none"
    BY <1>1, <1>4 DEF WebhookLoad, MoyasarLoad, Notify
  <2>2. LogBy(r)'
    BY <2>1 DEF LogBy, HoldsRow
  <2>3. QED
    BY <1>1, <1>4, <2>2, SessionKeepsLogs
       DEF WebhookLoad, MoyasarLoad, Notify
<1>5. ASSUME Insert(r) PROVE LogsAreAllowed'
  <2>1. UNCHANGED << status, history, loaded, task, plan >>
    BY <1>5 DEF Insert
  <2>2. /\ \A q \in Request \ { r } : pc'[q] = pc[q] /\ work'[q] = work[q]
        /\ \/ pc'[r] = "done"
           \/ /\ pc'[r] = "inserted"
              /\ work'[r] = [ NoWork EXCEPT
                                !.status = "PROCESSING",
                                !.log = << << "NONE", "PROCESSING" >> >> ]
    BY <1>1, <1>5 DEF Insert
  <2>3. [ NoWork EXCEPT !.status = "PROCESSING",
                        !.log = << << "NONE", "PROCESSING" >> >> ].log
          = << << "NONE", "PROCESSING" >> >>
    BY DEF NoWork
  <2>4. LogBy(r)'
    BY <1>1, <2>1, <2>2, <2>3 DEF LogBy, HoldsRow
  <2>5. QED
    BY <2>1, <2>2, <2>4, SessionKeepsLogs
<1>6. ASSUME LookupAlternate(r) \/ RefundGateway(r) \/ RefundRefused(r) \/ Crash(r)
      PROVE  LogsAreAllowed'
  <2>1. /\ pc'[r] \in { "insert", "done", "refunded", "crashed" }
        /\ pc'[r] = "refunded" => pc[r] = "refund" /\ loaded' = loaded
        /\ \A q \in Request \ { r } :
             pc'[q] = pc[q] /\ work'[q] = work[q] /\ loaded'[q] = loaded[q]
        /\ UNCHANGED << status, history, task, plan >>
    BY <1>1, <1>6 DEF LookupAlternate, RefundGateway, RefundRefused, Crash
  <2>2. LogBy(r)'
    BY <1>1, <2>1 DEF LogBy, HoldsRow
  <2>3. QED
    BY <2>1, <2>2, SessionKeepsLogs
<1>7. QED
  BY <1>2, <1>3, <1>4, <1>5, <1>6
     DEF Begin, SignLoad, CancelLoad, RefundLoad

\* The charge and the signature log the capture, or what came instead.
LEMMA CapturesKeepLogs ==
  ASSUME IInv, ReceiptsFollowCharges, LogsAreAllowed, NEW r \in Request
  PROVE  /\ Charge(r) => LogsAreAllowed'
         /\ SignWrite(r) => LogsAreAllowed'
<1>1. /\ pc \in [ Request -> PC ] /\ work \in [ Request -> Work ]
      /\ loaded \in [ Request -> Loaded ]
      /\ LogBy(r)
  BY DEF IInv, TypeOK, LogsAreAllowed
<1>2. ASSUME Charge(r) PROVE LogsAreAllowed'
  <2>1. PICK outcome \in ChargeOutcome :
          /\ pc[r] = "inserted"
          /\ work' = [ work EXCEPT ![r] = Answered(@, ChargeStatus(outcome)) ]
          /\ pc'[r] \in HoldsRow
          /\ \A q \in Request \ { r } : pc'[q] = pc[q]
          /\ UNCHANGED << status, history, loaded, task, plan >>
    BY <1>1, <1>2 DEF Charge, HoldsRow, databaseVars, taskVars
  <2> DEFINE to == ChargeStatus(outcome)
             log == << << "NONE", "PROCESSING" >>, << "PROCESSING", to >> >>
  <2>2. to \in { "CAPTURED", "AUTHORIZED", "FAILED" }
    BY DEF ChargeStatus, ChargeOutcome
  <2>3. work'[r].status = to /\ work'[r].log = log
    <3>1. work[r].log = << << "NONE", "PROCESSING" >> >>
      BY <1>1, <2>1 DEF LogBy
    <3>2. /\ Answered(work[r], to).status = to
          /\ Answered(work[r], to).log = Append(work[r].log, << "PROCESSING", to >>)
      BY <1>1 DEF Answered, Work
    <3>3. QED
      BY <1>1, <2>1, <3>1, <3>2
  <2>4. Allowed(log) /\ EndsAt(log, to) /\ log[1][1] = "NONE"
    <3> HIDE DEF to
    <3>1. QED
      BY <2>2, AllowedSteps DEF Allowed, EndsAt
  <2> HIDE DEF log, to
  <2>5. LogBy(r)'
    BY <1>1, <2>1, <2>3, <2>4 DEF LogBy, HoldsRow
  <2>6. QED
    BY <1>1, <2>1, <2>5, SessionKeepsLogs
<1>3. ASSUME SignWrite(r) PROVE LogsAreAllowed'
  <2>1. /\ loaded[r].status = "AUTHORIZED"
        /\ \A q \in Request \ { r } :
             pc'[q] = pc[q] /\ work'[q] = work[q] /\ loaded'[q] = loaded[q]
        /\ UNCHANGED << status, history, task, plan >>
    BY <1>1, <1>3 DEF SignWrite, ReceiptsFollowCharges, ReceiptBy,
                      databaseVars, taskVars
  <2>2. \/ pc'[r] = "done"
        \/ /\ pc'[r] = "settle"
           /\ work'[r].status = "CAPTURED"
           /\ work'[r].log = << << "AUTHORIZED", "CAPTURED" >> >>
    BY <1>1, <1>3, <2>1 DEF SignWrite
  <2> DEFINE log == << << "AUTHORIZED", "CAPTURED" >> >>
  <2>3. Allowed(log) /\ EndsAt(log, "CAPTURED") /\ log[1][1] = "AUTHORIZED"
    BY AllowedSteps, LogOfOne
  <2> HIDE DEF log
  <2>4. \/ pc'[r] = "done"
        \/ pc'[r] = "settle" /\ work'[r].status = "CAPTURED" /\ work'[r].log = log
    BY <2>2 DEF log
  <2>5. LogBy(r)'
    BY <1>1, <2>1, <2>3, <2>4 DEF LogBy, HoldsRow, CapturedStatus
  <2>6. QED
    BY <2>1, <2>5, SessionKeepsLogs
<1>4. QED
  BY <1>2, <1>3

\* The engine's transitions, and a deferral, continue the session's log.
LEMMA InlineKeepsLogs ==
  ASSUME IInv, LogsAreAllowed, NEW r \in Request, Settle(r) \/ Defer(r)
  PROVE  LogsAreAllowed'
<1> DEFINE o == InlineOutcome(r)
           made == EngineLog("CAPTURED", o)
<1>1. /\ pc \in [ Request -> PC ] /\ work \in [ Request -> Work ]
      /\ task \in [ Request -> TaskState ]
      /\ work[r].log \in Seq(LogEntry)
      /\ pc[r] = "settle" /\ LogBy(r)
      /\ work[r].status = "CAPTURED"
  BY DEF IInv, TypeOK, WorkIsVisible, Work, Settle, Defer, LogsAreAllowed
<1>2. /\ UNCHANGED << status, history, loaded, plan >>
      /\ \A q \in Request \ { r } :
           pc'[q] = pc[q] /\ work'[q] = work[q] /\ task'[q] = task[q]
      /\ pc'[r] = "commit"
      /\ task'[r] \in { task[r], "queued", "unpublished" }
  BY <1>1 DEF Settle, Defer, Publish, databaseVars, taskVars
<1>3. o \in Outcome
  BY EngineOutcomeType DEF InlineOutcome
<1>4. /\ made \in Seq(LogEntry) /\ Allowed(made)
      /\ o = "sent" => EndsAt(made, "COMPLETED")
      /\ o = "already" => made = << >>
  BY <1>3, EngineLogAllowed
<1>5. /\ Allowed(work[r].log) /\ EndsAt(work[r].log, "CAPTURED")
      /\ work[r].log # << >>
      /\ work[r].log[1][1] \in { "NONE", "AUTHORIZED" }
  BY <1>1 DEF LogBy, HoldsRow, EndsAt
<1>6. Settled(work[r], o).log = work[r].log \o made
  BY <1>1 DEF Settled
<1>7. Deferred(work[r], o).log
        = Append(work[r].log \o made, << "CAPTURED", "SETTLEMENT_PENDING" >>)
  BY <1>1 DEF Settled, Deferred
<1> HIDE DEF o, made
<1>8. /\ work[r].log \o made \in Seq(LogEntry)
      /\ Allowed(work[r].log \o made)
      /\ (work[r].log \o made)[1] = work[r].log[1]
      /\ o = "sent" => EndsAt(work[r].log \o made, "COMPLETED")
  BY <1>1, <1>4, <1>5, LogsJoin
<1>9. o = "already" => work[r].log \o made = work[r].log
  BY <1>1, <1>4
<1>10. work[r].log \o made # << >>
  BY <1>1, <1>4, <1>5
<1>11. /\ Allowed(work'[r].log)
       /\ EndsAt(work'[r].log, work'[r].status)
       /\ work'[r].log[1][1] \in { "NONE", "AUTHORIZED" }
       /\ work'[r].status \in CapturedStatus
  <2>1. CASE Settle(r)
    <3>1. /\ work'[r].log = work[r].log \o made
          /\ work'[r].status = EngineStatus("CAPTURED", o)
          /\ o \in { "sent", "already" }
      BY <1>1, <1>6, <2>1 DEF Settle, Settled, o
    <3>2. CASE o = "sent"
      BY <1>5, <1>8, <3>1, <3>2 DEF EngineStatus, CapturedStatus
    <3>3. CASE o = "already"
      BY <1>5, <1>9, <3>1, <3>3 DEF EngineStatus, CapturedStatus
    <3>4. QED
      BY <3>1, <3>2, <3>3
  <2>2. CASE Defer(r)
    <3> DEFINE last == << << "CAPTURED", "SETTLEMENT_PENDING" >> >>
               base == work[r].log \o made
    <3>1. /\ work'[r].log = Append(base, << "CAPTURED", "SETTLEMENT_PENDING" >>)
          /\ work'[r].status = "SETTLEMENT_PENDING"
      BY <1>1, <1>7, <2>2 DEF Defer, Deferred, o
    <3>2. /\ last \in Seq(LogEntry) /\ Allowed(last)
          /\ EndsAt(last, "SETTLEMENT_PENDING")
      BY AllowedSteps, LogOfOne DEF LogEntry, OptionalStatus, Status
    <3>3. Append(base, << "CAPTURED", "SETTLEMENT_PENDING" >>) = base \o last
      <4>1. << "CAPTURED", "SETTLEMENT_PENDING" >> \in LogEntry
        BY DEF LogEntry, OptionalStatus, Status
      <4>2. QED
        BY <1>8, <4>1, AppendIsConcat
    <3>4. base \in Seq(LogEntry) /\ Allowed(base) /\ base # << >>
          /\ base[1] = work[r].log[1]
      BY <1>8, <1>10
    <3> HIDE DEF base, last
    <3>5. /\ Allowed(base \o last)
          /\ EndsAt(base \o last, "SETTLEMENT_PENDING")
          /\ (base \o last)[1] = work[r].log[1]
      BY <3>2, <3>4, LogsJoin
    <3>6. QED
      BY <1>5, <3>1, <3>3, <3>5 DEF CapturedStatus
  <2>3. QED
    BY <2>1, <2>2
<1>12. LogBy(r)'
  BY <1>1, <1>2, <1>11 DEF LogBy, HoldsRow
<1>13. \A q \in Request \ { r } : LogBy(q)'
  BY <1>2 DEF LogsAreAllowed, LogBy, HoldsRow
<1>14. QED
  BY <1>2, <1>12, <1>13 DEF LogsAreAllowed

\* What a session commits, it appends to the history.
LEMMA AppendKeepsLogs ==
  ASSUME IInv, LogsAreAllowed, NEW t \in Request, NEW to,
         NEW log \in Seq(LogEntry), Allowed(log), EndsAt(log, to),
         status' = [ status EXCEPT ![t] = to ],
         history' = [ history EXCEPT ![t] = @ \o log ]
  PROVE  \A u \in Request :
           /\ Allowed(history'[u])
           /\ status'[u] \notin { "NONE", "CAPTURED" } =>
                EndsAt(history'[u], status'[u])
<1>1. /\ history \in [ Request -> Seq(LogEntry) ]
      /\ status \in [ Request -> OptionalStatus ]
  BY DEF IInv, TypeOK
<1>2. /\ history'[t] = history[t] \o log /\ status'[t] = to
      /\ \A u \in Request \ { t } : history'[u] = history[u] /\ status'[u] = status[u]
  BY <1>1
<1>3. Allowed(history[t] \o log) /\ EndsAt(history[t] \o log, to)
  BY <1>1, LogsJoin DEF LogsAreAllowed
<1>4. QED
  BY <1>2, <1>3 DEF LogsAreAllowed

\* A commit adds the session's log to the history.
LEMMA CommitKeepsLogs ==
  ASSUME IInv, LogsAreAllowed, NEW r \in Request, Commit(r)
  PROVE  LogsAreAllowed'
<1>1. /\ pc \in [ Request -> PC ] /\ work \in [ Request -> Work ]
      /\ target[r] \in Request /\ work[r].log \in Seq(LogEntry)
      /\ pc[r] = "commit" /\ LogBy(r)
  BY DEF IInv, TypeOK, Work, Commit, LogsAreAllowed
<1>2. /\ status' = [ status EXCEPT ![target[r]] = work[r].status ]
      /\ history' = [ history EXCEPT ![target[r]] = @ \o work[r].log ]
      /\ pc' = [ pc EXCEPT ![r] = "done" ]
      /\ work' = [ work EXCEPT ![r] = NoWork ]
      /\ UNCHANGED << loaded, task, plan >>
  BY DEF Commit, taskVars
<1>3. Allowed(work[r].log) /\ EndsAt(work[r].log, work[r].status)
  BY <1>1 DEF LogBy, HoldsRow
<1>4. \A u \in Request :
        /\ Allowed(history'[u])
        /\ status'[u] \notin { "NONE", "CAPTURED" } =>
             EndsAt(history'[u], status'[u])
  BY <1>1, <1>2, <1>3, AppendKeepsLogs
<1>5. \A q \in Request : LogBy(q)'
  BY <1>1, <1>2 DEF LogsAreAllowed, LogBy, HoldsRow
<1>6. QED
  BY <1>4, <1>5 DEF LogsAreAllowed

\* A cancel or refund logs the transition it has asked for; an IPN's capture
\* logs nothing.
LEMMA OverwritesKeepLogs ==
  ASSUME IInv, ReceiptsFollowCharges, LogsAreAllowed, NEW r \in Request
  PROVE  /\ CancelWrite(r) => LogsAreAllowed'
         /\ RefundWrite(r) => LogsAreAllowed'
         /\ WebhookWrite(r) => LogsAreAllowed'
<1>1. /\ pc \in [ Request -> PC ] /\ work \in [ Request -> Work ]
      /\ loaded \in [ Request -> Loaded ] /\ target[r] \in Request
      /\ status \in [ Request -> OptionalStatus ]
      /\ LogBy(r)
  BY DEF IInv, TypeOK, LogsAreAllowed
<1>2. ASSUME NEW to \in { "CANCELLED", "REFUNDED" },
             AssertTransition(loaded[r].status, to),
             Overwrite(r, to, << << loaded[r].status, to >> >>)
      PROVE  LogsAreAllowed'
  <2> DEFINE log == << << loaded[r].status, to >> >>
  <2>1. log \in Seq(LogEntry) /\ Allowed(log) /\ EndsAt(log, to)
    BY <1>1, <1>2, LogOfOne DEF LogEntry, Loaded, Status
  <2>2. /\ status' = [ status EXCEPT ![target[r]] = to ]
        /\ history' = [ history EXCEPT ![target[r]] = @ \o log ]
        /\ pc'[r] = "done"
        /\ \A q \in Request \ { r } : pc'[q] = pc[q] /\ loaded'[q] = loaded[q]
        /\ UNCHANGED << work, task, plan >>
    BY <1>1, <1>2 DEF Overwrite, taskVars
  <2> HIDE DEF log
  <2>3. \A u \in Request :
          /\ Allowed(history'[u])
          /\ status'[u] \notin { "NONE", "CAPTURED" } =>
               EndsAt(history'[u], status'[u])
    BY <1>1, <2>1, <2>2, AppendKeepsLogs
  <2>4. \A q \in Request \ { r } : LogBy(q)'
    BY <2>2 DEF LogsAreAllowed, LogBy, HoldsRow
  <2>5. LogBy(r)'
    BY <1>1, <2>2 DEF LogBy, HoldsRow
  <2>6. QED
    BY <2>3, <2>4, <2>5 DEF LogsAreAllowed
<1>3. ASSUME CancelWrite(r) PROVE LogsAreAllowed'
  BY <1>1, <1>2, <1>3 DEF CancelWrite, LogBy
<1>4. ASSUME RefundWrite(r) PROVE LogsAreAllowed'
  BY <1>1, <1>2, <1>4, AllowedSteps DEF RefundWrite, LogBy
<1>5. ASSUME WebhookWrite(r) PROVE LogsAreAllowed'
  <2>1. work[r].status = "CAPTURED"
    BY <1>5 DEF WebhookWrite, ReceiptsFollowCharges, ReceiptBy
  <2>2. /\ history' = history
        /\ \A u \in Request : status'[u] \in { status[u], "CAPTURED" }
        /\ pc'[r] = "done"
        /\ \A q \in Request \ { r } : pc'[q] = pc[q] /\ work'[q] = work[q]
        /\ UNCHANGED << loaded, task, plan >>
    BY <1>1, <1>5, <2>1 DEF WebhookWrite, taskVars
  <2>3. \A q \in Request \ { r } : LogBy(q)'
    BY <2>2 DEF LogsAreAllowed, LogBy, HoldsRow
  <2>4. LogBy(r)'
    BY <1>1, <2>2 DEF LogBy, HoldsRow
  <2>5. QED
    BY <2>2, <2>3, <2>4 DEF LogsAreAllowed
<1>6. QED
  BY <1>3, <1>4, <1>5

\* A task logs the engine's transitions from the status it has loaded.
LEMMA TasksKeepLogs ==
  ASSUME IInv, LogsAreAllowed, NEW r \in Request, TaskStep(r) \/ TaskCrash(r)
  PROVE  LogsAreAllowed'
<1>1. /\ task \in [ Request -> TaskState ] /\ plan \in [ Request -> Plan ]
      /\ target[r] \in Request /\ LogBy(r)
      /\ OnlySettledStatusesCommitted
  BY DEF IInv, TypeOK, LogsAreAllowed
<1>2. /\ UNCHANGED requestVars
      /\ \A q \in Request \ { r } : task'[q] = task[q] /\ plan'[q] = plan[q]
  BY <1>1 DEF TaskStep, TaskLoad, TaskPlan, TaskReturn, TaskTransfer,
              TaskRetry, TaskCommit, TaskAck, TaskCrash
<1>3. task'[r] \in { "loaded", "planned", "transferred" } =>
        plan'[r].status \in { "CAPTURED", "SETTLEMENT_PENDING" }
  <2>1. CASE TaskLoad(r)
    <3>1. plan'[r].status = status[target[r]]
      BY <1>1, <2>1 DEF TaskLoad, NoPlan
    <3>2. QED
      BY <1>1, <2>1, <3>1 DEF TaskLoad, Eligible, OnlySettledStatusesCommitted
  <2>2. CASE TaskPlan(r)
    <3>1. plan'[r].status = plan[r].status /\ task[r] = "loaded"
      BY <1>1, <2>2 DEF TaskPlan, Plan
    <3>2. QED
      BY <1>1, <3>1 DEF LogBy
  <2>3. CASE TaskTransfer(r)
    BY <1>1, <2>3 DEF TaskTransfer, LogBy
  <2>4. CASE TaskReturn(r) \/ TaskRetry(r) \/ TaskCommit(r) \/ TaskAck(r)
             \/ TaskCrash(r)
    BY <1>1, <2>4 DEF TaskReturn, TaskRetry, TaskCommit, TaskAck, TaskCrash
  <2>5. QED
    BY <2>1, <2>2, <2>3, <2>4 DEF TaskStep
<1>4. LogBy(r)'
  BY <1>1, <1>2, <1>3 DEF LogBy, HoldsRow, requestVars
<1>5. \A q \in Request \ { r } : LogBy(q)'
  BY <1>2 DEF LogsAreAllowed, LogBy, HoldsRow, requestVars
<1>6. CASE TaskCommit(r)
  <2> DEFINE log == EngineLog(plan[r].status, "sent")
  <2>1. plan[r].status \in { "CAPTURED", "SETTLEMENT_PENDING" }
    BY <1>1, <1>6 DEF TaskCommit, LogBy
  <2>2. log \in Seq(LogEntry) /\ Allowed(log) /\ EndsAt(log, "COMPLETED")
    BY <2>1, EngineLogAllowed DEF Outcome
  <2>3. /\ status' = [ status EXCEPT ![target[r]] = "COMPLETED" ]
        /\ history' = [ history EXCEPT ![target[r]] = @ \o log ]
    BY <1>6 DEF TaskCommit, EngineStatus
  <2> HIDE DEF log
  <2>4. QED
    BY <1>1, <1>4, <1>5, <2>2, <2>3, AppendKeepsLogs DEF LogsAreAllowed
<1>7. CASE ~TaskCommit(r)
  <2>1. UNCHANGED << status, history >>
    BY <1>7 DEF TaskStep, TaskLoad, TaskPlan, TaskReturn, TaskTransfer,
                TaskRetry, TaskAck, TaskCrash, databaseVars
  <2>2. QED
    BY <1>4, <1>5, <2>1 DEF LogsAreAllowed
<1>8. QED
  BY <1>6, <1>7

\* Every step keeps the logs allowed.
LEMMA NextKeepsLogs ==
  ASSUME IInv, ReceiptsFollowCharges, LogsAreAllowed, [Next]_vars
  PROVE  LogsAreAllowed'
<1>1. ASSUME NEW r \in Request,
             \/ Begin(r) \/ RequestStep(r) \/ TaskStep(r)
             \/ Crash(r) \/ TaskCrash(r)
      PROVE  LogsAreAllowed'
  BY <1>1, BeginningsKeepLogs, CapturesKeepLogs, InlineKeepsLogs,
     CommitKeepsLogs, OverwritesKeepLogs, TasksKeepLogs DEF RequestStep
<1>2. ASSUME NEW w \in Wallet, AddWallet(w) PROVE LogsAreAllowed'
  BY <1>2 DEF AddWallet, LogsAreAllowed, LogBy, HoldsRow, databaseVars,
              requestVars, taskVars
<1>3. CASE UNCHANGED vars
  BY <1>3 DEF vars, LogsAreAllowed, LogBy, HoldsRow, databaseVars,
              requestVars, taskVars
<1>4. QED
  BY <1>1, <1>2, <1>3 DEF Next

\* Logs are allowed in every reachable state.
THEOREM LogsHold == Spec => []LogsAreAllowed
<1>1. Init => LogsAreAllowed
  BY DEF Init, LogsAreAllowed, LogBy, HoldsRow, Allowed
<1>2. IInv /\ ReceiptsFollowCharges /\ LogsAreAllowed /\ [Next]_vars
        => LogsAreAllowed'
  BY NextKeepsLogs
<1>3. QED
  BY <1>1, <1>2, InvariantHolds, ReceiptsHold, PTL DEF Spec

\* Refunds, deferrals and the engine, which never ask the table, log only
\* transitions it allows.
THEOREM HistoriesAreAllowed == Spec => []LoggedTransitionsAllowed
<1>1. LogsAreAllowed => LoggedTransitionsAllowed
  BY DEF LogsAreAllowed, Allowed, LoggedTransitionsAllowed
<1>2. QED
  BY <1>1, LogsHold, PTL

\* Whatever sessions overwrite each other, the history ends at the status,
\* but for what an IPN has captured.
THEOREM HistoriesEndAtStatus == Spec => []HistoryEndsAtStatusUnlessIPN
<1>1. LogsAreAllowed => HistoryEndsAtStatusUnlessIPN
  BY DEF LogsAreAllowed, EndsAt, HistoryEndsAtStatusUnlessIPN
<1>2. QED
  BY <1>1, LogsHold, PTL

\* Composing the table keeps its transitions and adds those by two steps.
LEMMA ComposeExtends ==
  ASSUME NEW R, NEW s \in Status
  PROVE  /\ \A to \in R[s] : to \in Compose(R)[s]
         /\ \A u \in R[s] : \A to \in R[u] : to \in Compose(R)[s]
BY DEF Compose

\* A path of one or two allowed transitions is an allowed path.
LEMMA ShortPaths ==
  ASSUME NEW s \in Status
  PROVE  /\ \A to \in AllowedTransitions[s] : to \in AllowedPaths[s]
         /\ \A u \in AllowedTransitions[s] :
              \A to \in AllowedTransitions[u] : to \in AllowedPaths[s]
<1> DEFINE C1 == Compose(AllowedTransitions)
           C2 == Compose(C1)
           C3 == Compose(C2)
<1>1. AllowedPaths[s] = Compose(C3)[s]
  BY DEF AllowedPaths
<1>2. /\ \A to \in AllowedTransitions[s] : to \in C1[s]
      /\ \A u \in AllowedTransitions[s] :
           \A to \in AllowedTransitions[u] : to \in C1[s]
  BY ComposeExtends
<1> HIDE DEF C1
<1>3. \A to \in C1[s] : to \in C2[s]
  BY ComposeExtends
<1> HIDE DEF C2
<1>4. \A to \in C2[s] : to \in C3[s]
  BY ComposeExtends
<1> HIDE DEF C3
<1>5. \A to \in C3[s] : to \in Compose(C3)[s]
  BY ComposeExtends
<1>6. QED
  BY <1>1, <1>2, <1>3, <1>4, <1>5

\* The paths of captures, cancels, refunds and settlements.
LEMMA PathsOfWrites ==
  /\ \A to \in CapturedStatus : to \in AllowedPaths["AUTHORIZED"]
  /\ \A from \in { "CAPTURED", "SETTLEMENT_PENDING" } :
       "COMPLETED" \in AllowedPaths[from]
  /\ \A from \in Status, to \in Status :
       AssertTransition(from, to) => to \in AllowedPaths[from]
<1>1. /\ "CAPTURED" \in AllowedTransitions["AUTHORIZED"]
      /\ { "SETTLEMENT_PENDING", "COMPLETED" } \subseteq AllowedTransitions["CAPTURED"]
      /\ "COMPLETED" \in AllowedTransitions["SETTLEMENT_PENDING"]
  BY DEF AllowedTransitions, Status
<1>2. { "AUTHORIZED", "CAPTURED", "SETTLEMENT_PENDING" } \subseteq Status
  BY DEF Status
<1>3. \A to \in CapturedStatus : to \in AllowedPaths["AUTHORIZED"]
  BY <1>1, <1>2, ShortPaths DEF CapturedStatus
<1>4. \A from \in { "CAPTURED", "SETTLEMENT_PENDING" } :
        "COMPLETED" \in AllowedPaths[from]
  BY <1>1, <1>2, ShortPaths
<1>5. ASSUME NEW from \in Status, NEW to \in Status, AssertTransition(from, to)
      PROVE  to \in AllowedPaths[from]
  <2>1. from # "NONE"
    BY DEF Status
  <2>2. to \in AllowedTransitions[from]
    BY <1>5, <2>1 DEF AssertTransition
  <2>3. QED
    BY <2>2, ShortPaths
<1>6. QED
  BY <1>3, <1>4, <1>5

\* A write that logs the status it replaces follows the table's paths.
LEMMA AppendFollowsPaths ==
  ASSUME IInv, NEW t \in Request, NEW to, NEW log \in Seq(LogEntry),
         log # << >>,
         status' = [ status EXCEPT ![t] = to ],
         history' = [ history EXCEPT ![t] = @ \o log ],
         status[t] # "NONE" /\ log[1][1] = status[t] => to \in AllowedPaths[status[t]],
         NEW u \in Request, status[u] # "NONE",
         Len(history'[u]) > Len(history[u]),
         history'[u][Len(history[u]) + 1][1] = status[u]
  PROVE  status'[u] \in AllowedPaths[status[u]]
<1>1. /\ history \in [ Request -> Seq(LogEntry) ]
      /\ status \in [ Request -> OptionalStatus ]
  BY DEF IInv, TypeOK
<1>2. u = t
  <2>1. Len(history[u]) \in Nat
    BY <1>1
  <2>2. u # t => history'[u] = history[u]
    BY <1>1
  <2>3. QED
    BY <2>1, <2>2
<1>3. history'[t] = history[t] \o log /\ status'[t] = to
  BY <1>1
<1>4. history'[t][Len(history[t]) + 1] = log[1]
  BY <1>1, <1>3, LogsJoin
<1>5. QED
  BY <1>2, <1>3, <1>4

\* A commit breaks the life cycle only when the status it was decided on is
\* stale (the guards of complete_signature, cancel_payment, refund_payment and
\* the engine).
THEOREM LifecycleBreaksOnlyWhenStale == Spec => OnlyStaleWritesBreakLifecycle
<1> DEFINE Follows ==
      \A t \in Request :
        LET n == Len(history[t]) IN
        /\ status[t] # "NONE"
        /\ Len(history'[t]) > n
        /\ history'[t][n + 1][1] = status[t]
        => status'[t] \in AllowedPaths[status[t]]
<1>1. ASSUME IInv, LogsAreAllowed, [Next]_vars PROVE Follows
  <2> SUFFICES ASSUME NEW u \in Request, status[u] # "NONE",
                      Len(history'[u]) > Len(history[u]),
                      history'[u][Len(history[u]) + 1][1] = status[u]
               PROVE  status'[u] \in AllowedPaths[status[u]]
    OBVIOUS
  <2>1. history' # history
    <3>1. history[u] \in Seq(LogEntry)
      BY <1>1 DEF IInv, TypeOK
    <3>2. QED
      BY <3>1
  <2>2. PICK r \in Request : \/ Commit(r) \/ CancelWrite(r) \/ RefundWrite(r)
                             \/ TaskCommit(r)
    <3>1. ASSUME NEW r \in Request, Begin(r) PROVE FALSE
      BY <2>1, <3>1 DEF Begin, BeginCreate, SignLoad, CancelLoad, RefundLoad,
                        Load, WebhookLoad, MoyasarLoad, Notify, databaseVars
    <3>2. ASSUME NEW r \in Request, RequestStep(r)
          PROVE  Commit(r) \/ CancelWrite(r) \/ RefundWrite(r)
      BY <2>1, <3>2 DEF RequestStep, LookupAlternate, Insert, Charge,
                        SignWrite, Settle, Defer, RefundGateway,
                        RefundRefused, WebhookWrite, databaseVars
    <3>3. ASSUME NEW r \in Request, TaskStep(r) PROVE TaskCommit(r)
      BY <2>1, <3>3 DEF TaskStep, TaskLoad, TaskPlan, TaskReturn,
                        TaskTransfer, TaskRetry, TaskAck, databaseVars
    <3>4. ASSUME NEW r \in Request, Crash(r) \/ TaskCrash(r) PROVE FALSE
      BY <2>1, <3>4 DEF Crash, TaskCrash, databaseVars
    <3>5. ASSUME NEW w \in Wallet, AddWallet(w) PROVE FALSE
      BY <2>1, <3>5 DEF AddWallet, databaseVars
    <3>6. ~ UNCHANGED vars
      BY <2>1 DEF vars, databaseVars
    <3>7. QED
      BY <1>1, <3>1, <3>2, <3>3, <3>4, <3>5, <3>6 DEF Next
  <2>3. /\ target[r] \in Request /\ LogBy(r)
        /\ work[r] \in Work /\ loaded[r] \in Loaded
        /\ \A t \in Request : status[t] # "NONE" => status[t] \in Status
    BY <1>1 DEF IInv, TypeOK, LogsAreAllowed, OptionalStatus
  <2>4. CASE Commit(r)
    <3>1. /\ work[r].log \in Seq(LogEntry) /\ work[r].log # << >>
          /\ \/ work[r].log[1][1] = "NONE"
             \/ /\ work[r].log[1][1] = "AUTHORIZED"
                /\ work[r].status \in CapturedStatus
      BY <2>3, <2>4 DEF Commit, LogBy, HoldsRow, EndsAt, Work
    <3>2. /\ status' = [ status EXCEPT ![target[r]] = work[r].status ]
          /\ history' = [ history EXCEPT ![target[r]] = @ \o work[r].log ]
      BY <2>4 DEF Commit
    <3>3. status[target[r]] # "NONE" /\ work[r].log[1][1] = status[target[r]]
            => work[r].status \in AllowedPaths[status[target[r]]]
      BY <3>1, PathsOfWrites
    <3>4. QED
      BY <1>1, <2>3, <3>1, <3>2, <3>3, AppendFollowsPaths
  <2>5. ASSUME NEW to \in { "CANCELLED", "REFUNDED" },
               AssertTransition(loaded[r].status, to),
               Overwrite(r, to, << << loaded[r].status, to >> >>)
        PROVE  status'[u] \in AllowedPaths[status[u]]
    <3> DEFINE log == << << loaded[r].status, to >> >>
    <3>1. /\ log \in Seq(LogEntry) /\ log # << >>
          /\ log[1][1] = loaded[r].status
      BY <2>3 DEF LogEntry, Loaded, Status
    <3>2. /\ status' = [ status EXCEPT ![target[r]] = to ]
          /\ history' = [ history EXCEPT ![target[r]] = @ \o log ]
      BY <2>5 DEF Overwrite
    <3>3. to \in Status
      BY DEF Status
    <3> HIDE DEF log
    <3>4. status[target[r]] # "NONE" /\ log[1][1] = status[target[r]]
            => to \in AllowedPaths[status[target[r]]]
      BY <2>3, <2>5, <3>1, <3>3, PathsOfWrites
    <3>5. QED
      BY <1>1, <2>3, <3>1, <3>2, <3>4, AppendFollowsPaths
  <2>6. CASE CancelWrite(r)
    BY <2>3, <2>5, <2>6 DEF CancelWrite, LogBy
  <2>7. CASE RefundWrite(r)
    BY <2>3, <2>5, <2>7, AllowedSteps DEF RefundWrite, LogBy
  <2>8. CASE TaskCommit(r)
    <3> DEFINE log == EngineLog(plan[r].status, "sent")
    <3>1. plan[r].status \in { "CAPTURED", "SETTLEMENT_PENDING" }
      BY <2>3, <2>8 DEF TaskCommit, LogBy
    <3>2. /\ log \in Seq(LogEntry) /\ log # << >>
          /\ log[1][1] = plan[r].status
      BY <3>1, EngineLogAllowed DEF Outcome
    <3>3. /\ status' = [ status EXCEPT ![target[r]] = "COMPLETED" ]
          /\ history' = [ history EXCEPT ![target[r]] = @ \o log ]
      BY <2>8 DEF TaskCommit, EngineStatus
    <3> HIDE DEF log
    <3>4. status[target[r]] # "NONE" /\ log[1][1] = status[target[r]]
            => "COMPLETED" \in AllowedPaths[status[target[r]]]
      BY <3>1, <3>2, PathsOfWrites
    <3>5. QED
      BY <1>1, <2>3, <3>2, <3>3, <3>4, AppendFollowsPaths
  <2>9. QED
    BY <2>2, <2>4, <2>6, <2>7, <2>8
<1>2. IInv /\ LogsAreAllowed /\ [Next]_vars => [Follows]_vars
  BY <1>1
<1>3. [][Follows]_vars => OnlyStaleWritesBreakLifecycle
  BY DEF OnlyStaleWritesBreakLifecycle
<1> HIDE DEF Follows
<1>4. QED
  BY <1>2, <1>3, InvariantHolds, LogsHold, PTL DEF Spec

-----------------------------------------------------------------------------
(* How often a payment is transferred *)

\* What is known of the transfers of payment t.
Counted(t) ==
  IsFiniteSet(Outstanding(t)) /\ sent[t] + TransfersToCome(t) <= 1 + faults

\* The ways in which a step of r may change what is known of payment t's
\* transfers: none is added; a fault allows one more; the request that settles
\* the payment transfers, or leaves it to its task; a task makes its transfer.
NoneAdded(t, r) ==
  /\ sent'[t] = sent[t]
  /\ Outstanding(t)' \subseteq Outstanding(t)
  /\ Uncaptured(t)' => Uncaptured(t)

FaultAllows(t, r) ==
  /\ faults' = faults + 1
  /\ sent'[t] = sent[t]
  /\ \/ Outstanding(t)' \subseteq Outstanding(t)
     \/ /\ Outstanding(t)' \subseteq Outstanding(t) \cup { r }
        /\ Uncaptured(t)' => Uncaptured(t)

SettlesOnce(t, r) ==
  /\ Uncaptured(t) /\ ~Uncaptured(t)'
  /\ \/ sent'[t] = sent[t]
     \/ sent'[t] = sent[t] + 1 /\ Outstanding(t)' \subseteq Outstanding(t)
  /\ Outstanding(t)' \subseteq Outstanding(t) \cup { r }

TaskTransfers(t, r) ==
  /\ sent'[t] = sent[t] + 1
  /\ r \in Outstanding(t) /\ Outstanding(t)' \subseteq Outstanding(t) \ { r }
  /\ Uncaptured(t)' => Uncaptured(t)

\* Each of them keeps the count.
LEMMA CountKept ==
  ASSUME TypeOK, NEW t \in Request, NEW r, Counted(t),
         faults' \in Nat, faults' >= faults,
         \/ NoneAdded(t, r) \/ FaultAllows(t, r) \/ SettlesOnce(t, r)
         \/ TaskTransfers(t, r)
  PROVE  Counted(t)'
<1> DEFINE before == Outstanding(t)
           after  == Outstanding(t)'
           share(b) == IF b THEN 1 ELSE 0
<1>1. /\ sent[t] \in Nat /\ faults \in Nat /\ MaxFaults \in Nat
      /\ IsFiniteSet(before)
  BY PaymentsAssumption DEF TypeOK, Counted
<1>2. sent[t] + Cardinality(before) + share(Uncaptured(t)) <= 1 + faults
  BY <1>1, FS_CardinalityType DEF Counted, TransfersToCome
<1> HIDE DEF before, after
<1>3. /\ Cardinality(before) \in Nat
      /\ IsFiniteSet(before \cup { r }) /\ IsFiniteSet(before \ { r })
      /\ Cardinality(before \cup { r }) <= Cardinality(before) + 1
      /\ r \in before => Cardinality(before \ { r }) = Cardinality(before) - 1
  BY <1>1, FS_CardinalityType, FS_AddElement, FS_RemoveElement
<1>4. after \subseteq before \cup { r }
  BY DEF before, after, NoneAdded, FaultAllows, SettlesOnce, TaskTransfers
<1>5. IsFiniteSet(after) /\ Cardinality(after) \in Nat
  BY <1>3, <1>4, FS_Subset, FS_CardinalityType
<1>6. Cardinality(after) <= Cardinality(before) + 1
  BY <1>3, <1>4, <1>5, FS_Subset, FS_CardinalityType
<1>7. after \subseteq before => Cardinality(after) <= Cardinality(before)
  BY <1>1, FS_Subset
<1>8. r \in before /\ after \subseteq before \ { r }
        => Cardinality(after) <= Cardinality(before) - 1
  BY <1>3, FS_Subset
<1>9. sent'[t] + Cardinality(after) + share(Uncaptured(t)') <= 1 + faults'
  <2>1. CASE NoneAdded(t, r)
    BY <1>1, <1>2, <1>3, <1>5, <1>7, <2>1 DEF NoneAdded, before, after
  <2>2. CASE FaultAllows(t, r)
    BY <1>1, <1>2, <1>3, <1>5, <1>6, <1>7, <2>2 DEF FaultAllows, before, after
  <2>3. CASE SettlesOnce(t, r)
    BY <1>1, <1>2, <1>3, <1>5, <1>6, <1>7, <2>3 DEF SettlesOnce, before, after
  <2>4. CASE TaskTransfers(t, r)
    BY <1>1, <1>2, <1>3, <1>5, <1>8, <2>4 DEF TaskTransfers, before, after
  <2>5. QED
    BY <2>1, <2>2, <2>3, <2>4
<1>10. sent'[t] \in Nat
  BY <1>1 DEF NoneAdded, FaultAllows, SettlesOnce, TaskTransfers
<1>11. QED
  BY <1>5, <1>9, <1>10 DEF Counted, TransfersToCome, after

\* Faults are only added up.
LEMMA FaultsAddUp ==
  ASSUME TypeOK, [Next]_vars
  PROVE  faults' \in Nat /\ faults' >= faults
<1>1. faults \in Nat
  BY PaymentsAssumption DEF TypeOK
<1>2. ASSUME NEW r \in Request, Begin(r) PROVE faults' = faults
  BY <1>2 DEF Begin, BeginCreate, SignLoad, CancelLoad, RefundLoad, Load,
              WebhookLoad, MoyasarLoad, Notify
<1>3. ASSUME NEW r \in Request, RequestStep(r)
      PROVE  faults' \in { faults, faults + 1 }
  BY <1>3 DEF RequestStep, LookupAlternate, Insert, Charge, SignWrite,
              Settle, Defer, Publish, Commit, CancelWrite, RefundGateway,
              RefundRefused, RefundWrite, WebhookWrite, Overwrite
<1>4. ASSUME NEW r \in Request, TaskStep(r) PROVE faults' = faults
  BY <1>4 DEF TaskStep, TaskLoad, TaskPlan, TaskReturn, TaskTransfer,
              TaskRetry, TaskCommit, TaskAck
<1>5. ASSUME NEW r \in Request, Crash(r) \/ TaskCrash(r)
      PROVE  faults' = faults + 1
  BY <1>5 DEF Crash, TaskCrash
<1>6. ASSUME NEW w \in Wallet, AddWallet(w) PROVE faults' = faults
  BY <1>6 DEF AddWallet
<1>7. CASE UNCHANGED vars
  BY <1>1, <1>7 DEF vars
<1>8. QED
  BY <1>1, <1>2, <1>3, <1>4, <1>5, <1>6, <1>7 DEF Next

\* A step of r that makes no transfer and enqueues none adds none, unless r was
\* about to commit a receipt.
LEMMA SessionAddsNone ==
  ASSUME IInv, NEW r \in Request, pc[r] # "commit",
         UNCHANGED << receipt, sent, task >>,
         task[r] # "none" => target'[r] = target[r],
         \A q \in Request \ { r } :
           pc'[q] = pc[q] /\ work'[q] = work[q] /\ target'[q] = target[q]
  PROVE  \A t \in Request : NoneAdded(t, r)
BY DEF NoneAdded, Outstanding, Uncaptured

\* The settling request owns the row of a payment that has no receipt.
LEMMA SettlerFindsUncaptured ==
  ASSUME IInv, ReceiptsFollowCharges, NEW r \in Request, pc[r] = "settle"
  PROVE  Uncaptured(target[r]) /\ work[r].receipt
BY DEF IInv, OneOwnerPerRow, OwnsRow, HoldsRow, ReceiptsFollowCharges,
       ReceiptBy, Uncaptured

\* Settle makes one transfer at most, the one of the request itself.
LEMMA SettleCounts ==
  ASSUME IInv, ReceiptsFollowCharges, NEW r \in Request, Settle(r)
  PROVE  \A u \in Request : NoneAdded(u, r) \/ SettlesOnce(u, r)
<1>1. PICK t \in Request : t = target[r]
  BY DEF IInv, TypeOK
<1>2. /\ pc \in [ Request -> PC ] /\ work \in [ Request -> Work ]
      /\ sent \in [ Request -> Nat ] /\ pc[r] = "settle"
      /\ UNCHANGED << receipt, task, target >>
      /\ \A q \in Request \ { r } : pc'[q] = pc[q] /\ work'[q] = work[q]
      /\ pc'[r] = "commit"
      /\ work'[r].receipt = work[r].receipt
  BY DEF IInv, TypeOK, Settle, Settled, databaseVars, taskVars
<1>3. Uncaptured(t) /\ ~Uncaptured(t)'
  BY <1>1, <1>2, SettlerFindsUncaptured DEF Uncaptured
<1>4. \A u \in Request : /\ Outstanding(u)' = Outstanding(u)
                         /\ Uncaptured(u)' => Uncaptured(u)
  BY <1>2 DEF Outstanding, Uncaptured
<1>5. /\ sent'[t] \in { sent[t], sent[t] + 1 }
      /\ \A u \in Request \ { t } : sent'[u] = sent[u]
  BY <1>1, <1>2 DEF Settle
<1>6. SettlesOnce(t, r)
  BY <1>3, <1>4, <1>5 DEF SettlesOnce
<1>7. QED
  BY <1>4, <1>5, <1>6 DEF NoneAdded

\* Defer leaves the transfer to one task, or to none if it cannot be published.
LEMMA DeferCounts ==
  ASSUME IInv, ReceiptsFollowCharges, NEW r \in Request, Defer(r)
  PROVE  \A u \in Request : NoneAdded(u, r) \/ SettlesOnce(u, r)
<1>1. PICK t \in Request : t = target[r]
  BY DEF IInv, TypeOK
<1>2. /\ pc \in [ Request -> PC ] /\ work \in [ Request -> Work ]
      /\ task \in [ Request -> TaskState ] /\ pc[r] = "settle"
      /\ UNCHANGED << receipt, sent, target >>
      /\ \A q \in Request \ { r } :
           pc'[q] = pc[q] /\ work'[q] = work[q] /\ task'[q] = task[q]
      /\ pc'[r] = "commit"
      /\ work'[r].receipt = work[r].receipt
  BY DEF IInv, TypeOK, Defer, Publish, Deferred, Settled, databaseVars,
         outsideVars
<1>3. Uncaptured(t) /\ ~Uncaptured(t)'
  BY <1>1, <1>2, SettlerFindsUncaptured DEF Uncaptured
<1>4. Outstanding(t)' \subseteq Outstanding(t) \cup { r }
  BY <1>2 DEF Outstanding
<1>5. SettlesOnce(t, r)
  BY <1>2, <1>3, <1>4 DEF SettlesOnce
<1>6. \A u \in Request \ { t } : /\ Outstanding(u)' = Outstanding(u)
                                 /\ Uncaptured(u)' => Uncaptured(u)
  BY <1>1, <1>2 DEF Outstanding, Uncaptured
<1>7. QED
  BY <1>2, <1>5, <1>6 DEF NoneAdded

\* The commit only shows the receipt its session had flushed.
LEMMA CommitCounts ==
  ASSUME IInv, NEW r \in Request, Commit(r)
  PROVE  \A t \in Request : NoneAdded(t, r)
<1>1. /\ pc \in [ Request -> PC ] /\ work \in [ Request -> Work ]
      /\ receipt \in [ Request -> BOOLEAN ] /\ target[r] \in Request
      /\ UNCHANGED << task, target, sent >>
      /\ \A q \in Request \ { r } : pc'[q] = pc[q] /\ work'[q] = work[q]
  BY DEF IInv, TypeOK, Commit, taskVars, outsideVars
<1>2. /\ \A u \in Request : receipt[u] => receipt'[u]
      /\ work[r].receipt => receipt'[target[r]]
  BY <1>1 DEF Commit
<1>3. QED
  BY <1>1, <1>2 DEF NoneAdded, Outstanding, Uncaptured

\* A task transfers once each time it is taken from the queue.
LEMMA TasksCount ==
  ASSUME IInv, NEW r \in Request, TaskStep(r)
  PROVE  \A u \in Request : NoneAdded(u, r) \/ TaskTransfers(u, r)
<1>1. PICK t \in Request : t = target[r]
  BY DEF IInv, TypeOK
<1>2. /\ task \in [ Request -> TaskState ] /\ sent \in [ Request -> Nat ]
      /\ UNCHANGED << requestVars, receipt >>
      /\ \A q \in Request \ { r } : task'[q] = task[q]
  <2>1. task \in [ Request -> TaskState ] /\ sent \in [ Request -> Nat ]
    BY DEF IInv, TypeOK
  <2>2. UNCHANGED << requestVars, receipt >>
    BY DEF TaskStep, TaskLoad, TaskPlan, TaskReturn, TaskTransfer, TaskRetry,
           TaskCommit, TaskAck, databaseVars
  <2>3. \A q \in Request \ { r } : task'[q] = task[q]
    BY <2>1 DEF TaskStep, TaskLoad, TaskPlan, TaskReturn, TaskTransfer,
                TaskRetry, TaskCommit, TaskAck
  <2>4. QED
    BY <2>1, <2>2, <2>3
<1>3. \A u \in Request : Uncaptured(u)' => Uncaptured(u)
  BY <1>2 DEF Uncaptured, requestVars
<1>4. CASE TaskTransfer(r)
  <2>1. /\ task[r] = "planned" /\ task'[r] = "transferred"
        /\ sent'[t] = sent[t] + 1
        /\ \A u \in Request \ { t } : sent'[u] = sent[u]
    BY <1>1, <1>2, <1>4 DEF TaskTransfer
  <2>2. r \in Outstanding(t) /\ Outstanding(t)' \subseteq Outstanding(t) \ { r }
    BY <1>1, <1>2, <2>1 DEF Outstanding, requestVars
  <2>3. \A u \in Request : Outstanding(u)' \subseteq Outstanding(u)
    BY <1>2, <2>1 DEF Outstanding, requestVars
  <2>4. QED
    BY <1>3, <2>1, <2>2, <2>3 DEF NoneAdded, TaskTransfers
<1>5. CASE ~TaskTransfer(r)
  <2>1. sent' = sent
    BY <1>5 DEF TaskStep, TaskLoad, TaskPlan, TaskReturn, TaskRetry,
                TaskCommit, TaskAck, outsideVars
  <2>2. task'[r] \in { "queued", "loaded", "planned" }
          => task[r] \in { "queued", "loaded", "planned" }
    BY <1>2, <1>5 DEF TaskStep, TaskLoad, TaskPlan, TaskReturn, TaskRetry,
                      TaskRaises, TaskCommit, TaskAck
  <2>3. \A u \in Request : Outstanding(u)' \subseteq Outstanding(u)
    BY <1>2, <2>2 DEF Outstanding, requestVars
  <2>4. QED
    BY <1>3, <2>1, <2>3 DEF NoneAdded
<1>6. QED
  BY <1>4, <1>5

\* A crash may give the capture back to do, or the task's transfer.
LEMMA CrashesCount ==
  ASSUME IInv, NEW r \in Request, Crash(r) \/ TaskCrash(r)
  PROVE  \A t \in Request : FaultAllows(t, r)
<1>1. task \in [ Request -> TaskState ]
  BY DEF IInv, TypeOK
<1>2. CASE Crash(r)
  BY <1>2 DEF Crash, FaultAllows, Outstanding, taskVars, outsideVars
<1>3. CASE TaskCrash(r)
  <2>1. /\ UNCHANGED << receipt, requestVars, sent >> /\ faults' = faults + 1
        /\ \A q \in Request \ { r } : task'[q] = task[q]
    BY <1>1, <1>3 DEF TaskCrash, databaseVars, outsideVars
  <2>2. QED
    BY <2>1 DEF FaultAllows, Outstanding, Uncaptured, requestVars
<1>4. QED
  BY <1>2, <1>3

\* Every step changes the count in one of these ways.
LEMMA StepsCount ==
  ASSUME IInv, ReceiptsFollowCharges, [Next]_vars
  PROVE  \E r : \A t \in Request :
           \/ NoneAdded(t, r) \/ FaultAllows(t, r) \/ SettlesOnce(t, r)
           \/ TaskTransfers(t, r)
<1>1. /\ pc \in [ Request -> PC ] /\ work \in [ Request -> Work ]
      /\ target \in [ Request -> Request ]
  BY DEF IInv, TypeOK
<1>2. ASSUME NEW r \in Request, Begin(r) PROVE \A t \in Request : NoneAdded(t, r)
  <2>1. /\ pc[r] = "idle" /\ task[r] = "none"
        /\ UNCHANGED << receipt, sent, task >>
    BY <1>2 DEF Begin, BeginCreate, SignLoad, CancelLoad, RefundLoad, Load,
                WebhookLoad, MoyasarLoad, Notify, IInv, KeysNameCreators,
                databaseVars, taskVars, outsideVars
  <2>2. \A q \in Request \ { r } :
           pc'[q] = pc[q] /\ work'[q] = work[q] /\ target'[q] = target[q]
    BY <1>1, <1>2 DEF Begin, BeginCreate, SignLoad, CancelLoad, RefundLoad,
                      Load, WebhookLoad, MoyasarLoad, Notify
  <2>3. QED
    BY <2>1, <2>2, SessionAddsNone
<1>3. ASSUME NEW r \in Request,
             \/ LookupAlternate(r) \/ Insert(r) \/ Charge(r) \/ SignWrite(r)
             \/ CancelWrite(r) \/ RefundGateway(r) \/ RefundRefused(r)
             \/ RefundWrite(r) \/ WebhookWrite(r)
      PROVE  \A t \in Request : NoneAdded(t, r)
  <2>1. pc[r] # "commit" /\ UNCHANGED << receipt, sent, task, target >>
    BY <1>3
       DEF LookupAlternate, Insert, Charge, SignWrite, CancelWrite,
           RefundGateway, RefundRefused, RefundWrite, WebhookWrite, Overwrite,
           databaseVars, taskVars, outsideVars
  <2>2. \A q \in Request \ { r } : pc'[q] = pc[q] /\ work'[q] = work[q]
    BY <1>1, <1>3
       DEF LookupAlternate, Insert, Charge, SignWrite, CancelWrite,
           RefundGateway, RefundRefused, RefundWrite, WebhookWrite, Overwrite
  <2>3. QED
    BY <2>1, <2>2, SessionAddsNone
<1>4. ASSUME NEW r \in Request, RequestStep(r)
      PROVE  \A t \in Request : NoneAdded(t, r) \/ SettlesOnce(t, r)
  BY <1>3, <1>4, SettleCounts, DeferCounts, CommitCounts DEF RequestStep
<1>5. ASSUME NEW w \in Wallet, AddWallet(w)
      PROVE  \A t \in Request : NoneAdded(t, w)
  BY <1>5 DEF AddWallet, NoneAdded, Outstanding, Uncaptured, databaseVars,
              requestVars, taskVars, outsideVars
<1>6. CASE UNCHANGED vars
  BY <1>6 DEF vars, NoneAdded, Outstanding, Uncaptured, databaseVars,
              requestVars, taskVars, outsideVars
<1>7. QED
  BY <1>2, <1>4, <1>5, <1>6, TasksCount, CrashesCount DEF Next

\* Transfers stay counted.
LEMMA NextKeepsCount ==
  ASSUME IInv, ReceiptsFollowCharges, TransfersCounted, [Next]_vars
  PROVE  TransfersCounted'
<1>1. TypeOK /\ faults' \in Nat /\ faults' >= faults
  BY FaultsAddUp DEF IInv
<1>2. \A t \in Request : Counted(t)'
  BY <1>1, StepsCount, CountKept DEF TransfersCounted, Counted
<1>3. QED
  BY <1>2 DEF TransfersCounted, Counted

\* The count of transfers holds in every reachable state, faults included.
THEOREM CountHolds == Spec => []TransfersCounted
<1>1. Init => TransfersCounted
  <2> SUFFICES ASSUME Init PROVE TransfersCounted
    OBVIOUS
  <2>1. \A t \in Request : Outstanding(t) = {}
    BY DEF Init, Outstanding
  <2>2. \A t \in Request : TransfersToCome(t) \in { 0, 1 }
    BY <2>1, FS_EmptySet DEF TransfersToCome
  <2>3. /\ faults = 0
        /\ \A t \in Request : sent[t] = 0
    BY DEF Init
  <2>4. QED
    BY <2>1, <2>2, <2>3, FS_EmptySet DEF TransfersCounted
<1>2. IInv /\ ReceiptsFollowCharges /\ TransfersCounted /\ [Next]_vars
        => TransfersCounted'
  BY NextKeepsCount
<1>3. QED
  BY <1>1, <1>2, InvariantHolds, ReceiptsHold, PTL DEF Spec

\* A payment is transferred at most once, and once more for each fault: for
\* any interleaving of signatures, webhooks, inline runs of the engine, retries
\* and redeliveries (_try_settle and settle_transaction).
THEOREM TransfersBounded == Spec => []TransfersWithinFaults
<1>1. IInv /\ TransfersCounted => TransfersWithinFaults
  <2> SUFFICES ASSUME IInv, TransfersCounted, NEW t \in Request
               PROVE  sent[t] <= 1 + faults
    BY DEF TransfersWithinFaults
  <2>1. sent[t] \in Nat /\ faults \in Nat
    BY PaymentsAssumption DEF IInv, TypeOK
  <2>2. IsFiniteSet(Outstanding(t)) /\ sent[t] + TransfersToCome(t) <= 1 + faults
    BY DEF TransfersCounted
  <2>3. TransfersToCome(t) \in Nat
    BY <2>2, FS_CardinalityType DEF TransfersToCome
  <2>4. QED
    BY <2>1, <2>2, <2>3
<1>2. QED
  BY <1>1, InvariantHolds, CountHolds, PTL

\* Where nothing fails, no payment is paid out twice, however its requests
\* and tasks interleave (the engine, in the request and in the task).
THEOREM OneTransfer ==
  ASSUME MaxFaults = 0 PROVE Spec => []AtMostOneTransfer
<1>1. IInv /\ TransfersWithinFaults => AtMostOneTransfer
  BY DEF IInv, TypeOK, TransfersWithinFaults, AtMostOneTransfer
<1>2. QED
  BY <1>1, InvariantHolds, TransfersBounded, PTL

-----------------------------------------------------------------------------
(* The wallets a payment is paid to, and its row names *)

\* What a wallet was registered for, it stays registered for.
LEMMA NamesKept ==
  ASSUME NEW row, NEW w, Names(row, w), registered \subseteq registered'
  PROVE  Names(row, w)'
BY DEF Names

\* A row the engine writes names the wallet it was first written for, and the
\* engine pays no other than a wallet that is registered and valid.
LEMMA EngineNames ==
  ASSUME NEW existing, NEW p, NEW w \in registered \cup { Null },
         NEW quoted \in BOOLEAN, Names(existing, p)
  PROVE  LET o == EngineOutcome(existing, w, quoted) IN
         /\ Names(EngineSettlement(existing, o), EnginePayee(existing, p, w, o))
         /\ o = "sent" => w \in registered \cap ValidAddress
<1> DEFINE o == EngineOutcome(existing, w, quoted)
<1>1. Null \notin SettlementStatus
  BY PaymentsAssumption
<1>2. o \in WritesSettlement => w # Null
  BY DEF EngineOutcome, WritesSettlement
<1>3. o = "sent" => w \in ValidAddress
  BY DEF EngineOutcome
<1>4. CASE o \in WritesSettlement
  <2>1. EngineSettlement(existing, o) # Null
    BY <1>1, <1>4 DEF EngineSettlement, WritesSettlement, SettlementStatus
  <2>2. EnginePayee(existing, p, w, o) \in registered
    BY <1>2, <1>4 DEF EnginePayee, Names
  <2>3. QED
    BY <1>2, <1>3, <1>4, <2>1, <2>2 DEF Names
<1>5. CASE o \notin WritesSettlement
  <2>1. EngineSettlement(existing, o) = existing
    BY <1>5 DEF EngineSettlement, WritesSettlement
  <2>2. EnginePayee(existing, p, w, o) = p
    BY <1>5 DEF EnginePayee
  <2>3. o # "sent"
    BY <1>5 DEF WritesSettlement
  <2>4. QED
    BY <2>1, <2>2, <2>3
<1>6. QED
  BY <1>4, <1>5

\* A step of r that changes no settlement row, transfer or plan keeps them
\* registered if what r has flushed names a registered wallet.
LEMMA SessionKeepsWallets ==
  ASSUME IInv, WalletsRegistered, NEW r \in Request,
         UNCHANGED << settlement, payee, wallet, registered, sent, sentTo,
                      plan >>,
         \A q \in Request :
           task'[q] # task[q] => task'[q] \notin { "planned", "transferred" },
         task[r] # "none" => target'[r] = target[r],
         \A q \in Request \ { r } :
           pc'[q] = pc[q] /\ work'[q] = work[q] /\ target'[q] = target[q],
         pc'[r] \in HoldsKey => Names(work'[r].settlement, work'[r].payee)
  PROVE  WalletsRegistered'
<1>1. \A t \in Request :
        /\ Names(settlement[t], payee[t])'
        /\ sent'[t] > 0 => sentTo'[t] \in registered' \cap ValidAddress
  BY DEF WalletsRegistered, Names
<1>2. \A q \in Request :
        pc'[q] \in HoldsKey => Names(work[q].settlement, work[q].payee)'
  BY DEF WalletsRegistered, Names
<1>3. ASSUME NEW q \in Request, task'[q] \in { "planned", "transferred" }
      PROVE  /\ plan'[q].wallet \in registered'
             /\ plan'[q].settlement # Null => settlement'[target'[q]] # Null
  <2>1. task[q] = task'[q] /\ target'[q] = target[q]
    BY <1>3
  <2>2. QED
    BY <1>3, <2>1 DEF WalletsRegistered
<1>4. QED
  BY <1>1, <1>2, <1>3 DEF WalletsRegistered

\* A request that begins has flushed nothing.
LEMMA BeginningsKeepWallets ==
  ASSUME IInv, WalletsRegistered, NEW r \in Request, Begin(r)
  PROVE  WalletsRegistered'
<1>1. /\ pc \in [ Request -> PC ] /\ work \in [ Request -> Work ]
      /\ target \in [ Request -> Request ]
  BY DEF IInv, TypeOK
<1>2. /\ UNCHANGED << settlement, payee, wallet, registered, sent, sentTo,
                      plan, task >>
      /\ task[r] = "none" /\ pc'[r] \notin HoldsKey
  <2>1. UNCHANGED << settlement, payee, wallet, registered, sent, sentTo,
                     plan, task >>
    BY DEF Begin, BeginCreate, SignLoad, CancelLoad, RefundLoad, Load,
           WebhookLoad, MoyasarLoad, Notify, databaseVars, walletVars,
           taskVars, outsideVars
  <2>2. pc[r] = "idle" /\ pc'[r] \notin HoldsKey
    BY <1>1 DEF Begin, BeginCreate, SignLoad, CancelLoad, RefundLoad, Load,
                WebhookLoad, MoyasarLoad, Notify, HoldsKey
  <2>3. QED
    BY <2>1, <2>2 DEF IInv, KeysNameCreators
<1>3. \A q \in Request \ { r } :
         pc'[q] = pc[q] /\ work'[q] = work[q] /\ target'[q] = target[q]
  BY <1>1 DEF Begin, BeginCreate, SignLoad, CancelLoad, RefundLoad, Load,
              WebhookLoad, MoyasarLoad, Notify
<1>4. QED
  BY <1>2, <1>3, SessionKeepsWallets

\* A new payment has no settlement row, and a signature takes over the one it
\* finds.
LEMMA FlushesKeepWallets ==
  ASSUME IInv, WalletsRegistered, NEW r \in Request,
         \/ LookupAlternate(r) \/ Insert(r) \/ Charge(r) \/ SignWrite(r)
         \/ CancelWrite(r) \/ RefundGateway(r) \/ RefundRefused(r)
         \/ RefundWrite(r) \/ WebhookWrite(r)
  PROVE  WalletsRegistered'
<1>1. /\ pc \in [ Request -> PC ] /\ work \in [ Request -> Work ]
      /\ target \in [ Request -> Request ]
  BY DEF IInv, TypeOK
<1>2. UNCHANGED << settlement, payee, wallet, registered, sent, sentTo, plan,
                   task, target >>
  BY DEF LookupAlternate, Insert, Charge, SignWrite, CancelWrite,
         RefundGateway, RefundRefused, RefundWrite, WebhookWrite, Overwrite,
         databaseVars, walletVars, taskVars, outsideVars
<1>3. \A q \in Request \ { r } : pc'[q] = pc[q] /\ work'[q] = work[q]
  BY <1>1 DEF LookupAlternate, Insert, Charge, SignWrite, CancelWrite,
              RefundGateway, RefundRefused, RefundWrite, WebhookWrite, Overwrite
<1>4. pc'[r] \in HoldsKey => Names(work'[r].settlement, work'[r].payee)
  <2>1. CASE Insert(r)
    <3>1. pc'[r] \in HoldsKey =>
            work'[r] = [ NoWork EXCEPT !.status = "PROCESSING",
                                       !.log = << << "NONE", "PROCESSING" >> >> ]
      BY <1>1, <2>1 DEF Insert, HoldsKey
    <3>2. QED
      BY <3>1 DEF NoWork, Names
  <2>2. CASE Charge(r)
    <3>1. PICK o \in ChargeOutcome :
            /\ pc[r] = "inserted"
            /\ work' = [ work EXCEPT ![r] = Answered(@, ChargeStatus(o)) ]
      BY <2>2 DEF Charge
    <3>2. /\ work'[r].settlement = work[r].settlement
          /\ work'[r].payee = work[r].payee
      BY <1>1, <3>1 DEF Answered, Work
    <3>3. QED
      BY <3>1, <3>2 DEF WalletsRegistered, HoldsKey
  <2>3. CASE SignWrite(r)
    <3>1. pc'[r] \in HoldsKey => /\ work'[r].settlement = settlement[target[r]]
                                 /\ work'[r].payee = payee[target[r]]
      BY <1>1, <2>3 DEF SignWrite, HoldsKey
    <3>2. QED
      BY <1>1, <3>1 DEF WalletsRegistered
  <2>4. CASE \/ LookupAlternate(r) \/ CancelWrite(r) \/ RefundGateway(r)
             \/ RefundRefused(r) \/ RefundWrite(r) \/ WebhookWrite(r)
    <3>1. pc'[r] \notin HoldsKey
      BY <1>1, <2>4 DEF LookupAlternate, CancelWrite, RefundGateway,
                        RefundRefused, RefundWrite, WebhookWrite, Overwrite,
                        HoldsKey
    <3>2. QED
      BY <3>1
  <2>5. QED
    BY <2>1, <2>2, <2>3, <2>4
<1>5. QED
  BY <1>2, <1>3, <1>4, SessionKeepsWallets

\* The engine in a request writes the row for the primary wallet, and pays it.
LEMMA InlineKeepsWallets ==
  ASSUME IInv, WalletsRegistered, NEW r \in Request, Settle(r) \/ Defer(r)
  PROVE  WalletsRegistered'
<1> DEFINE o == InlineOutcome(r)
<1>1. /\ pc \in [ Request -> PC ] /\ work \in [ Request -> Work ]
      /\ task \in [ Request -> TaskState ]
      /\ sent \in [ Request -> Nat ] /\ sentTo \in [ Request -> Wallet \cup { Null } ]
      /\ target \in [ Request -> Request ]
  BY DEF IInv, TypeOK
<1>2. /\ pc[r] = "settle" /\ pc'[r] = "commit"
      /\ UNCHANGED << settlement, payee, wallet, registered, plan, target >>
      /\ \A q \in Request \ { r } : pc'[q] = pc[q] /\ work'[q] = work[q]
  BY <1>1 DEF Settle, Defer, databaseVars, walletVars, taskVars
<1>3. \A q \in Request :
        task'[q] # task[q] => task'[q] \notin { "planned", "transferred" }
  BY <1>1 DEF Settle, Defer, Publish, taskVars
<1>4. /\ work'[r].settlement = EngineSettlement(work[r].settlement, o)
      /\ work'[r].payee = EnginePayee(work[r].settlement, work[r].payee, wallet, o)
  <2>1. CASE Settle(r)
    BY <1>1, <2>1 DEF Settle, Settled
  <2>2. CASE Defer(r)
    <3>1. work'[r] = Deferred(work[r], o)
      BY <1>1, <2>2 DEF Defer
    <3>2. QED
      BY <3>1 DEF Deferred, Settled
  <2>3. QED
    BY <2>1, <2>2
<1>5. /\ Names(work'[r].settlement, work'[r].payee)
      /\ o = "sent" => wallet \in registered \cap ValidAddress
  <2>1. /\ Names(work[r].settlement, work[r].payee)
        /\ wallet \in registered \cup { Null }
    BY <1>2 DEF WalletsRegistered, HoldsKey
  <2>2. QED
    BY <1>4, <2>1, EngineNames DEF InlineOutcome
<1>6. \A t \in Request :
        sent'[t] > 0 => sentTo'[t] \in registered \cap ValidAddress
  <2>1. CASE UNCHANGED << sent, sentTo >>
    BY <2>1 DEF WalletsRegistered
  <2>2. CASE o = "sent" /\ sentTo' = [ sentTo EXCEPT ![target[r]] = wallet ]
             /\ \A t \in Request \ { target[r] } : sent'[t] = sent[t]
    BY <1>1, <1>5, <2>2 DEF WalletsRegistered
  <2>3. QED
    BY <1>1, <2>1, <2>2 DEF Settle, Defer, outsideVars
<1>7. \A q \in Request :
        pc'[q] \in HoldsKey => Names(work[q].settlement, work[q].payee)'
  BY <1>2, <1>5 DEF WalletsRegistered, Names
<1>8. \A t \in Request : Names(settlement[t], payee[t])'
  BY <1>2 DEF WalletsRegistered, Names
<1>9. \A q \in Request : task'[q] \in { "planned", "transferred" } =>
        /\ plan'[q].wallet \in registered'
        /\ plan'[q].settlement # Null => settlement'[target'[q]] # Null
  BY <1>2, <1>3 DEF WalletsRegistered
<1>10. QED
  BY <1>2, <1>6, <1>7, <1>8, <1>9 DEF WalletsRegistered

\* A commit writes the row of its session; no task has read that of a payment
\* that had no receipt.
LEMMA CommitKeepsWallets ==
  ASSUME IInv, ReceiptsFollowCharges, WalletsRegistered, NEW r \in Request,
         Commit(r)
  PROVE  WalletsRegistered'
<1>1. PICK t \in Request : t = target[r]
  BY DEF IInv, TypeOK
<1>2. /\ pc \in [ Request -> PC ] /\ work \in [ Request -> Work ]
      /\ settlement \in [ Request -> SettlementStatus \cup { Null } ]
      /\ payee \in [ Request -> Wallet \cup { Null } ]
      /\ target \in [ Request -> Request ]
      /\ pc[r] = "commit" /\ ~receipt[t]
  BY <1>1 DEF IInv, TypeOK, Commit, ReceiptsFollowCharges, ReceiptBy, HoldsRow
<1>3. /\ settlement' = [ settlement EXCEPT ![t] = work[r].settlement ]
      /\ payee' = [ payee EXCEPT ![t] = work[r].payee ]
      /\ UNCHANGED << wallet, registered, target, task, plan, sent, sentTo >>
      /\ pc'[r] = "done"
      /\ \A q \in Request \ { r } : pc'[q] = pc[q] /\ work'[q] = work[q]
  BY <1>1, <1>2 DEF Commit, walletVars, taskVars, outsideVars
<1>4. \A u \in Request : Names(settlement[u], payee[u])'
  BY <1>2, <1>3 DEF WalletsRegistered, Names, HoldsKey
<1>5. \A q \in Request :
        pc'[q] \in HoldsKey => Names(work[q].settlement, work[q].payee)'
  BY <1>3 DEF WalletsRegistered, Names, HoldsKey
<1>6. \A q \in Request : task[q] \in { "planned", "transferred" } => target[q] # t
  BY <1>2 DEF ReceiptsFollowCharges, ReceiptForTask
<1>7. \A q \in Request : task'[q] \in { "planned", "transferred" } =>
        /\ plan'[q].wallet \in registered'
        /\ plan'[q].settlement # Null => settlement'[target'[q]] # Null
  BY <1>2, <1>3, <1>6 DEF WalletsRegistered
<1>8. QED
  BY <1>3, <1>4, <1>5, <1>7 DEF WalletsRegistered

\* A task pays the wallet it has read, and names it if it inserts the row.
LEMMA TasksKeepWallets ==
  ASSUME IInv, WalletsRegistered, NEW r \in Request, TaskStep(r) \/ TaskCrash(r)
  PROVE  WalletsRegistered'
<1>1. PICK t \in Request : t = target[r]
  BY DEF IInv, TypeOK
<1>2. /\ task \in [ Request -> TaskState ] /\ plan \in [ Request -> Plan ]
      /\ sent \in [ Request -> Nat ]
      /\ sentTo \in [ Request -> Wallet \cup { Null } ]
      /\ settlement \in [ Request -> SettlementStatus \cup { Null } ]
      /\ payee \in [ Request -> Wallet \cup { Null } ]
      /\ target \in [ Request -> Request ]
  BY DEF IInv, TypeOK
<1>3. /\ UNCHANGED << requestVars, wallet, registered >>
      /\ \A q \in Request \ { r } : task'[q] = task[q] /\ plan'[q] = plan[q]
  <2>1. UNCHANGED << requestVars, wallet, registered >>
    BY DEF TaskStep, TaskLoad, TaskPlan, TaskReturn, TaskTransfer, TaskRetry,
           TaskCommit, TaskAck, TaskCrash, walletVars
  <2>2. CASE TaskStep(r)
    <3>1. \E next : task' = [ task EXCEPT ![r] = next ]
      BY <2>2 DEF TaskStep, TaskLoad, TaskPlan, TaskReturn, TaskTransfer,
                  TaskRetry, TaskCommit, TaskAck
    <3>2. plan' = plan \/ \E p : plan' = [ plan EXCEPT ![r] = p ]
      BY <2>2 DEF TaskStep, TaskLoad, TaskPlan, TaskReturn, TaskTransfer,
                  TaskRetry, TaskCommit, TaskAck
    <3>3. \A q \in Request \ { r } : task'[q] = task[q] /\ plan'[q] = plan[q]
      BY <1>2, <3>1, <3>2
    <3>4. QED
      BY <2>1, <3>3
  <2>3. CASE TaskCrash(r)
    <3>1. \A q \in Request \ { r } : task'[q] = task[q] /\ plan'[q] = plan[q]
      BY <1>2, <2>3 DEF TaskCrash
    <3>2. QED
      BY <2>1, <3>1
  <2>4. QED
    BY <2>2, <2>3
<1>4. \A q \in Request :
        pc'[q] \in HoldsKey => Names(work[q].settlement, work[q].payee)'
  BY <1>3 DEF WalletsRegistered, Names, requestVars
<1>5. /\ \A u \in Request :
           /\ Names(settlement[u], payee[u])'
           /\ sent'[u] > 0 => sentTo'[u] \in registered \cap ValidAddress
      /\ \A u \in Request : settlement[u] # Null => settlement'[u] # Null
      /\ task'[r] \in { "planned", "transferred" } =>
           /\ plan'[r].wallet \in registered
           /\ plan'[r].settlement # Null => settlement'[t] # Null
  <2>1. CASE TaskPlan(r)
    <3>1. /\ UNCHANGED << settlement, payee, sent, sentTo >>
          /\ plan'[r].wallet = wallet /\ wallet # Null
          /\ plan'[r].settlement = settlement[t]
      BY <1>1, <1>2, <2>1 DEF TaskPlan, Plan, databaseVars, outsideVars
    <3>2. QED
      BY <1>3, <3>1 DEF WalletsRegistered, Names
  <2>2. CASE TaskTransfer(r)
    <3>1. /\ UNCHANGED << settlement, payee, plan >> /\ task[r] = "planned"
          /\ TaskOutcome(r) = "sent"
          /\ sentTo' = [ sentTo EXCEPT ![t] = plan[r].wallet ]
          /\ \A u \in Request \ { t } : sent'[u] = sent[u]
      BY <1>1, <1>2, <2>2 DEF TaskTransfer, Destination, databaseVars
    <3>2. /\ plan[r].wallet \in registered
          /\ plan[r].settlement # Null => settlement[t] # Null
      BY <1>1, <3>1 DEF WalletsRegistered
    <3>3. plan[r].wallet \in ValidAddress
      BY <3>1 DEF TaskOutcome, EngineOutcome
    <3>4. QED
      BY <1>2, <1>3, <3>1, <3>2, <3>3 DEF WalletsRegistered, Names
  <2>3. CASE TaskCommit(r)
    <3>1. /\ task[r] = "transferred" /\ task'[r] = "committed"
          /\ settlement' = [ settlement EXCEPT ![t] = "COMPLETED" ]
          /\ payee' = [ payee EXCEPT ![t] =
                          IF plan[r].settlement = Null THEN plan[r].wallet ELSE @ ]
          /\ UNCHANGED << sent, sentTo >>
      BY <1>1, <1>2, <2>3 DEF TaskCommit, EngineSettlement, EnginePayee,
                              WritesSettlement, outsideVars
    <3>2. /\ plan[r].wallet \in registered
          /\ plan[r].settlement # Null => settlement[t] # Null
      BY <1>1, <3>1 DEF WalletsRegistered
    <3>3. payee'[t] \in registered
      BY <1>2, <3>1, <3>2 DEF WalletsRegistered, Names
    <3>4. Null # "COMPLETED"
      BY PaymentsAssumption DEF SettlementStatus
    <3>5. QED
      BY <1>2, <1>3, <3>1, <3>3, <3>4 DEF WalletsRegistered, Names
  <2>4. CASE \/ TaskLoad(r) \/ TaskReturn(r) \/ TaskRetry(r) \/ TaskAck(r)
             \/ TaskCrash(r)
    <3>1. UNCHANGED << settlement, payee, sent, sentTo >>
      BY <2>4 DEF TaskLoad, TaskReturn, TaskRetry, TaskAck, TaskCrash,
                  databaseVars, outsideVars
    <3>2. task'[r] \notin { "planned", "transferred" }
      BY <1>2, <2>4 DEF TaskLoad, TaskReturn, TaskRetry, TaskAck, TaskCrash
    <3>3. QED
      BY <1>3, <3>1, <3>2 DEF WalletsRegistered, Names
  <2>5. QED
    BY <2>1, <2>2, <2>3, <2>4 DEF TaskStep
<1>6. ASSUME NEW q \in Request, task'[q] \in { "planned", "transferred" }
      PROVE  /\ plan'[q].wallet \in registered'
             /\ plan'[q].settlement # Null => settlement'[target'[q]] # Null
  <2>1. CASE q = r
    BY <1>1, <1>3, <1>5, <1>6, <2>1 DEF requestVars
  <2>2. CASE q # r
    BY <1>2, <1>3, <1>5, <1>6, <2>2 DEF WalletsRegistered, requestVars
  <2>3. QED
    BY <2>1, <2>2
<1>7. QED
  BY <1>3, <1>4, <1>5, <1>6 DEF WalletsRegistered

\* Every step keeps the wallets registered.
LEMMA NextKeepsWallets ==
  ASSUME IInv, ReceiptsFollowCharges, WalletsRegistered, [Next]_vars
  PROVE  WalletsRegistered'
<1>1. ASSUME NEW r \in Request, RequestStep(r) PROVE WalletsRegistered'
  BY <1>1, FlushesKeepWallets, InlineKeepsWallets, CommitKeepsWallets
     DEF RequestStep
<1>2. ASSUME NEW r \in Request, Crash(r) PROVE WalletsRegistered'
  <2>1. /\ pc \in [ Request -> PC ] /\ work \in [ Request -> Work ]
    BY DEF IInv, TypeOK
  <2>2. /\ UNCHANGED << settlement, payee, wallet, registered, sent, sentTo,
                        plan, task, target >>
        /\ pc'[r] \notin HoldsKey
        /\ \A q \in Request \ { r } : pc'[q] = pc[q] /\ work'[q] = work[q]
    BY <1>2, <2>1 DEF Crash, databaseVars, walletVars, taskVars, outsideVars,
                      HoldsKey
  <2>3. QED
    BY <2>2, SessionKeepsWallets
<1>3. ASSUME NEW w \in Wallet, AddWallet(w) PROVE WalletsRegistered'
  BY <1>3 DEF AddWallet, WalletsRegistered, Names, databaseVars, requestVars,
              taskVars, outsideVars
<1>4. CASE UNCHANGED vars
  BY <1>4 DEF vars, WalletsRegistered, Names, databaseVars, walletVars,
              requestVars, taskVars, outsideVars
<1>5. QED
  BY <1>1, <1>2, <1>3, <1>4, BeginningsKeepWallets, TasksKeepWallets DEF Next

\* Every wallet that is read, flushed, committed or paid was registered before.
THEOREM WalletsHold == Spec => []WalletsRegistered
<1>1. Init => WalletsRegistered
  BY DEF Init, WalletsRegistered, Names, HoldsKey
<1>2. IInv /\ ReceiptsFollowCharges /\ WalletsRegistered /\ [Next]_vars
        => WalletsRegistered'
  BY NextKeepsWallets
<1>3. QED
  BY <1>1, <1>2, InvariantHolds, ReceiptsHold, PTL DEF Spec

-----------------------------------------------------------------------------
(* The wallet a settlement row names, and the wallet that was paid *)

\* A run of the engine that raises leaves a row for a wallet that is refused.
LEMMA RaisingNames ==
  ASSUME NEW existing, NEW p, NEW w, NEW quoted \in BOOLEAN, NEW paid,
         existing # "COMPLETED", NamesPaid(existing, p, paid),
         EngineOutcome(existing, w, quoted) # "sent"
  PROVE  LET o == EngineOutcome(existing, w, quoted) IN
         NamesPaid(EngineSettlement(existing, o), EnginePayee(existing, p, w, o),
                   paid)
<1> DEFINE o == EngineOutcome(existing, w, quoted)
<1>1. o \in WritesSettlement => w \notin ValidAddress
  BY WalletAssumption DEF EngineOutcome, WritesSettlement
<1>2. CASE o \in WritesSettlement
  BY <1>1, <1>2 DEF EnginePayee, NamesPaid
<1>3. CASE o \notin WritesSettlement
  <2>1. EngineSettlement(existing, o) = existing
    BY <1>3 DEF EngineSettlement, WritesSettlement
  <2>2. EnginePayee(existing, p, w, o) = p
    BY <1>3 DEF EnginePayee
  <2>3. QED
    BY <2>1, <2>2
<1>4. QED
  BY <1>2, <1>3

\* A step of r that changes no settlement row, destination or plan keeps the
\* payees on record if what r has flushed is.
LEMMA SessionKeepsPayees ==
  ASSUME IInv, PayeesOnRecord, NEW r \in Request,
         UNCHANGED << settlement, payee, sentTo, plan >>,
         \A q \in Request :
           task'[q] # task[q] => task'[q] \notin { "planned", "transferred" },
         task[r] # "none" => target'[r] = target[r],
         \A q \in Request \ { r } :
           pc'[q] = pc[q] /\ work'[q] = work[q] /\ target'[q] = target[q],
         pc'[r] \in HoldsKey =>
           NamesPaid(work'[r].settlement, work'[r].payee, sentTo[target'[r]])
  PROVE  PayeesOnRecord'
<1>1. \A t \in Request : NamesPaid(settlement[t], payee[t], sentTo[t])'
  BY DEF PayeesOnRecord, NamesPaid
<1>2. \A q \in Request : pc'[q] \in HoldsKey =>
        NamesPaid(work[q].settlement, work[q].payee, sentTo[target[q]])'
  BY DEF PayeesOnRecord, NamesPaid
<1>3. ASSUME NEW q \in Request, task'[q] \in { "planned", "transferred" }
      PROVE  /\ plan'[q].settlement # Null => payee'[target'[q]] \notin ValidAddress
             /\ task'[q] = "transferred" =>
                  /\ sentTo'[target'[q]] = plan'[q].wallet
                  /\ plan'[q].settlement = Null => settlement'[target'[q]] = Null
  <2>1. task[q] = task'[q] /\ target'[q] = target[q]
    BY <1>3
  <2>2. QED
    BY <1>3, <2>1 DEF PayeesOnRecord
<1>4. QED
  BY <1>1, <1>2, <1>3 DEF PayeesOnRecord

\* A request that begins has flushed nothing.
LEMMA BeginningsKeepPayees ==
  ASSUME IInv, PayeesOnRecord, NEW r \in Request, Begin(r)
  PROVE  PayeesOnRecord'
<1>1. /\ pc \in [ Request -> PC ] /\ work \in [ Request -> Work ]
      /\ target \in [ Request -> Request ]
  BY DEF IInv, TypeOK
<1>2. /\ UNCHANGED << settlement, payee, sentTo, plan, task >>
      /\ task[r] = "none" /\ pc'[r] \notin HoldsKey
  <2>1. UNCHANGED << settlement, payee, sentTo, plan, task >>
    BY DEF Begin, BeginCreate, SignLoad, CancelLoad, RefundLoad, Load,
           WebhookLoad, MoyasarLoad, Notify, databaseVars, taskVars, outsideVars
  <2>2. pc[r] = "idle" /\ pc'[r] \notin HoldsKey
    BY <1>1 DEF Begin, BeginCreate, SignLoad, CancelLoad, RefundLoad, Load,
                WebhookLoad, MoyasarLoad, Notify, HoldsKey
  <2>3. QED
    BY <2>1, <2>2 DEF IInv, KeysNameCreators
<1>3. \A q \in Request \ { r } :
         pc'[q] = pc[q] /\ work'[q] = work[q] /\ target'[q] = target[q]
  BY <1>1 DEF Begin, BeginCreate, SignLoad, CancelLoad, RefundLoad, Load,
              WebhookLoad, MoyasarLoad, Notify
<1>4. QED
  BY <1>2, <1>3, SessionKeepsPayees

\* A signature flushes the row it finds; the other flushes leave the row alone.
LEMMA FlushesKeepPayees ==
  ASSUME IInv, PayeesOnRecord, NEW r \in Request,
         \/ LookupAlternate(r) \/ Insert(r) \/ Charge(r) \/ SignWrite(r)
         \/ CancelWrite(r) \/ RefundGateway(r) \/ RefundRefused(r)
         \/ RefundWrite(r) \/ WebhookWrite(r) \/ Crash(r)
  PROVE  PayeesOnRecord'
<1>1. /\ pc \in [ Request -> PC ] /\ work \in [ Request -> Work ]
      /\ target \in [ Request -> Request ]
  BY DEF IInv, TypeOK
<1>2. UNCHANGED << settlement, payee, sentTo, plan, task, target >>
  BY DEF LookupAlternate, Insert, Charge, SignWrite, CancelWrite,
         RefundGateway, RefundRefused, RefundWrite, WebhookWrite, Overwrite,
         Crash, databaseVars, taskVars, outsideVars
<1>3. \A q \in Request \ { r } : pc'[q] = pc[q] /\ work'[q] = work[q]
  BY <1>1 DEF LookupAlternate, Insert, Charge, SignWrite, CancelWrite,
              RefundGateway, RefundRefused, RefundWrite, WebhookWrite,
              Overwrite, Crash
<1>4. pc'[r] \in HoldsKey =>
        NamesPaid(work'[r].settlement, work'[r].payee, sentTo[target[r]])
  <2>1. CASE Insert(r)
    <3>1. pc'[r] \in HoldsKey =>
            work'[r] = [ NoWork EXCEPT !.status = "PROCESSING",
                                       !.log = << << "NONE", "PROCESSING" >> >> ]
      BY <1>1, <2>1 DEF Insert, HoldsKey
    <3>2. QED
      BY <3>1 DEF NoWork, NamesPaid
  <2>2. CASE Charge(r)
    <3>1. PICK o \in ChargeOutcome :
            /\ pc[r] = "inserted"
            /\ work' = [ work EXCEPT ![r] = Answered(@, ChargeStatus(o)) ]
      BY <2>2 DEF Charge
    <3>2. /\ work'[r].settlement = work[r].settlement
          /\ work'[r].payee = work[r].payee
      BY <1>1, <3>1 DEF Answered, Work
    <3>3. QED
      BY <3>1, <3>2 DEF PayeesOnRecord, HoldsKey
  <2>3. CASE SignWrite(r)
    <3>1. pc'[r] \in HoldsKey => /\ work'[r].settlement = settlement[target[r]]
                                 /\ work'[r].payee = payee[target[r]]
      BY <1>1, <2>3 DEF SignWrite, HoldsKey
    <3>2. QED
      BY <1>1, <3>1 DEF PayeesOnRecord
  <2>4. CASE \/ LookupAlternate(r) \/ CancelWrite(r) \/ RefundGateway(r)
             \/ RefundRefused(r) \/ RefundWrite(r) \/ WebhookWrite(r)
             \/ Crash(r)
    <3>1. pc'[r] \notin HoldsKey
      BY <1>1, <2>4 DEF LookupAlternate, CancelWrite, RefundGateway,
                        RefundRefused, RefundWrite, WebhookWrite, Overwrite,
                        Crash, HoldsKey
    <3>2. QED
      BY <3>1
  <2>5. QED
    BY <2>1, <2>2, <2>3, <2>4
<1>5. QED
  BY <1>2, <1>3, <1>4, SessionKeepsPayees

\* A transfer for payment t, whose row names no wallet that could be paid, by
\* the owner of the row: nobody else has flushed or transferred anything of t.
LEMMA TransferKeepsOthers ==
  ASSUME IInv, PayeesOnRecord, NEW r \in Request, NEW t \in Request,
         t = target[r], NEW w,
         \A q \in Request \ { r } : target[q] = t =>
           pc[q] \notin HoldsRow /\ task[q] # "transferred",
         settlement[t] # Null => payee[t] \notin ValidAddress,
         sentTo' = [ sentTo EXCEPT ![t] = w ],
         UNCHANGED << settlement, payee, plan, target >>,
         \A q \in Request \ { r } :
           pc'[q] = pc[q] /\ work'[q] = work[q] /\ task'[q] = task[q]
  PROVE  /\ sentTo'[t] = w
         /\ \A u \in Request : NamesPaid(settlement[u], payee[u], sentTo[u])'
         /\ \A q \in Request \ { r } :
              /\ pc'[q] \in HoldsKey =>
                   NamesPaid(work[q].settlement, work[q].payee, sentTo[target[q]])'
              /\ task'[q] \in { "planned", "transferred" } =>
                   (plan'[q].settlement # Null
                      => payee'[target'[q]] \notin ValidAddress)
              /\ task'[q] = "transferred" =>
                   /\ sentTo'[target'[q]] = plan'[q].wallet
                   /\ plan'[q].settlement = Null => settlement'[target'[q]] = Null
<1>1. /\ sentTo \in [ Request -> Wallet \cup { Null } ]
      /\ target \in [ Request -> Request ]
  BY DEF IInv, TypeOK
<1>2. sentTo'[t] = w /\ \A u \in Request \ { t } : sentTo'[u] = sentTo[u]
  BY <1>1
<1>3. \A u \in Request : NamesPaid(settlement[u], payee[u], sentTo[u])'
  BY <1>2 DEF PayeesOnRecord, NamesPaid
<1>4. ASSUME NEW q \in Request \ { r }, pc'[q] \in HoldsKey
      PROVE  NamesPaid(work[q].settlement, work[q].payee, sentTo[target[q]])'
  <2>1. CASE target[q] = t
    <3>1. pc[q] = "inserted"
      BY <1>4, <2>1 DEF HoldsKey, HoldsRow
    <3>2. work[q].settlement = Null
      BY <3>1 DEF IInv, PayoutsOnRecord
    <3>3. QED
      BY <3>2 DEF NamesPaid
  <2>2. CASE target[q] # t
    BY <1>1, <1>2, <1>4, <2>2 DEF PayeesOnRecord, NamesPaid
  <2>3. QED
    BY <2>1, <2>2
<1>5. ASSUME NEW q \in Request \ { r }
      PROVE  /\ task'[q] \in { "planned", "transferred" } =>
                  (plan'[q].settlement # Null
                     => payee'[target'[q]] \notin ValidAddress)
             /\ task'[q] = "transferred" =>
                  /\ sentTo'[target'[q]] = plan'[q].wallet
                  /\ plan'[q].settlement = Null => settlement'[target'[q]] = Null
  BY <1>1, <1>2, <1>5 DEF PayeesOnRecord
<1>6. QED
  BY <1>2, <1>3, <1>4, <1>5

\* The engine in a request leaves a row for the wallet it pays, or for one that
\* an attempt before it, or this one, found refused.
LEMMA InlineKeepsPayees ==
  ASSUME IInv, PayeesOnRecord, NEW r \in Request, Settle(r) \/ Defer(r)
  PROVE  PayeesOnRecord'
<1> DEFINE o == InlineOutcome(r)
           row == work[r].settlement
<1>1. PICK t \in Request : t = target[r]
  BY DEF IInv, TypeOK
<1>2. /\ pc \in [ Request -> PC ] /\ work \in [ Request -> Work ]
      /\ task \in [ Request -> TaskState ]
      /\ sentTo \in [ Request -> Wallet \cup { Null } ]
  BY DEF IInv, TypeOK
<1>3. /\ pc[r] = "settle" /\ pc'[r] = "commit"
      /\ UNCHANGED << settlement, payee, plan, target >>
      /\ \A q \in Request \ { r } :
           pc'[q] = pc[q] /\ work'[q] = work[q] /\ task'[q] = task[q]
  BY <1>2 DEF Settle, Defer, Publish, databaseVars, taskVars
<1>4. \A q \in Request :
        task'[q] # task[q] => task'[q] \notin { "planned", "transferred" }
  BY <1>2 DEF Settle, Defer, Publish, taskVars
<1>5. /\ work'[r].settlement = EngineSettlement(row, o)
      /\ work'[r].payee = EnginePayee(row, work[r].payee, wallet, o)
  <2>1. CASE Settle(r)
    BY <1>2, <2>1 DEF Settle, Settled
  <2>2. CASE Defer(r)
    <3>1. work'[r] = Deferred(work[r], o)
      BY <1>2, <2>2 DEF Defer
    <3>2. QED
      BY <3>1 DEF Deferred, Settled
  <2>3. QED
    BY <2>1, <2>2
<1>6. /\ NamesPaid(row, work[r].payee, sentTo[t])
      /\ o = "already" <=> row = "COMPLETED"
  <2>1. NamesPaid(row, work[r].payee, sentTo[t])
    BY <1>1, <1>3 DEF PayeesOnRecord, HoldsKey
  <2>2. QED
    BY <2>1, EngineAlready DEF InlineOutcome
<1>7. CASE o # "sent"
  <2>1. sentTo' = sentTo
    BY <1>7 DEF Settle, Defer, outsideVars
  <2>2. NamesPaid(work'[r].settlement, work'[r].payee, sentTo[t])
    <3>1. CASE o = "already"
      BY <1>5, <1>6, <3>1 DEF EngineSettlement, EnginePayee, WritesSettlement
    <3>2. CASE o # "already"
      BY <1>5, <1>6, <1>7, <3>2, RaisingNames DEF InlineOutcome
    <3>3. QED
      BY <3>1, <3>2
  <2>3. QED
    BY <1>1, <1>3, <1>4, <2>1, <2>2, SessionKeepsPayees
<1>8. CASE o = "sent"
  <2>1. sentTo' = [ sentTo EXCEPT ![t] = wallet ]
    BY <1>1, <1>8 DEF Settle, Defer
  <2>2. row # "COMPLETED" /\ settlement[t] # "COMPLETED"
    BY <1>1, <1>3, <1>6, <1>8 DEF IInv, PayoutsOnRecord, HoldsRow
  <2>3. settlement[t] # Null => payee[t] \notin ValidAddress
    BY <2>2 DEF PayeesOnRecord, NamesPaid
  <2>4. \A q \in Request \ { r } : target[q] = t =>
          pc[q] \notin HoldsRow /\ task[q] # "transferred"
    BY <1>1, <1>3 DEF IInv, OneOwnerPerRow, OwnsRow, HoldsRow
  <2>5. /\ sentTo'[t] = wallet
        /\ \A u \in Request : NamesPaid(settlement[u], payee[u], sentTo[u])'
        /\ \A q \in Request \ { r } :
             /\ pc'[q] \in HoldsKey =>
                  NamesPaid(work[q].settlement, work[q].payee, sentTo[target[q]])'
             /\ task'[q] \in { "planned", "transferred" } =>
                  (plan'[q].settlement # Null
                     => payee'[target'[q]] \notin ValidAddress)
             /\ task'[q] = "transferred" =>
                  /\ sentTo'[target'[q]] = plan'[q].wallet
                  /\ plan'[q].settlement = Null => settlement'[target'[q]] = Null
    BY <1>1, <1>3, <2>1, <2>3, <2>4, TransferKeepsOthers
  <2>6. NamesPaid(work[r].settlement, work[r].payee, sentTo[target[r]])'
    <3>1. row = Null => work'[r].payee = wallet
      BY <1>5, <1>8 DEF EnginePayee, WritesSettlement
    <3>2. row # Null => work'[r].payee \notin ValidAddress
      BY <1>5, <1>6, <2>2 DEF EnginePayee, NamesPaid
    <3>3. work'[r].settlement = "COMPLETED"
      BY <1>5, <1>8 DEF EngineSettlement
    <3>4. sentTo'[target'[r]] = wallet
      BY <1>1, <1>3, <2>5
    <3>5. QED
      BY <3>1, <3>2, <3>3, <3>4 DEF NamesPaid
  <2>7. /\ task'[r] \in { "planned", "transferred" } =>
             (plan'[r].settlement # Null
                => payee'[target'[r]] \notin ValidAddress)
        /\ task'[r] # "transferred"
    <3>1. task[r] # "transferred"
      BY <1>3 DEF IInv, OneOwnerPerRow, HoldsRow
    <3>2. QED
      BY <1>3, <1>4, <3>1 DEF PayeesOnRecord
  <2>8. QED
    BY <2>5, <2>6, <2>7 DEF PayeesOnRecord
<1>9. QED
  BY <1>7, <1>8

\* A commit shows the row of its session; no task has read, or written, that of
\* a payment that had no receipt.
LEMMA CommitKeepsPayees ==
  ASSUME IInv, ReceiptsFollowCharges, PayeesOnRecord, NEW r \in Request,
         Commit(r)
  PROVE  PayeesOnRecord'
<1>1. PICK t \in Request : t = target[r]
  BY DEF IInv, TypeOK
<1>2. /\ pc \in [ Request -> PC ] /\ work \in [ Request -> Work ]
      /\ settlement \in [ Request -> SettlementStatus \cup { Null } ]
      /\ payee \in [ Request -> Wallet \cup { Null } ]
      /\ target \in [ Request -> Request ]
      /\ pc[r] = "commit" /\ ~receipt[t]
  BY <1>1 DEF IInv, TypeOK, Commit, ReceiptsFollowCharges, ReceiptBy, HoldsRow
<1>3. /\ settlement' = [ settlement EXCEPT ![t] = work[r].settlement ]
      /\ payee' = [ payee EXCEPT ![t] = work[r].payee ]
      /\ UNCHANGED << target, task, plan, sentTo >>
      /\ pc'[r] = "done"
      /\ \A q \in Request \ { r } : pc'[q] = pc[q] /\ work'[q] = work[q]
  BY <1>1, <1>2 DEF Commit, taskVars, outsideVars
<1>4. \A u \in Request : NamesPaid(settlement[u], payee[u], sentTo[u])'
  <2>1. NamesPaid(work[r].settlement, work[r].payee, sentTo[t])
    BY <1>1, <1>2 DEF PayeesOnRecord, HoldsKey
  <2>2. QED
    BY <1>2, <1>3, <2>1 DEF PayeesOnRecord, NamesPaid
<1>5. \A q \in Request : pc'[q] \in HoldsKey =>
        NamesPaid(work[q].settlement, work[q].payee, sentTo[target[q]])'
  BY <1>3 DEF PayeesOnRecord, NamesPaid, HoldsKey
<1>6. \A q \in Request : task[q] \in { "planned", "transferred" } => target[q] # t
  BY <1>2 DEF ReceiptsFollowCharges, ReceiptForTask
<1>7. ASSUME NEW q \in Request, task'[q] \in { "planned", "transferred" }
      PROVE  /\ plan'[q].settlement # Null => payee'[target'[q]] \notin ValidAddress
             /\ task'[q] = "transferred" =>
                  /\ sentTo'[target'[q]] = plan'[q].wallet
                  /\ plan'[q].settlement = Null => settlement'[target'[q]] = Null
  BY <1>2, <1>3, <1>6, <1>7 DEF PayeesOnRecord
<1>8. QED
  BY <1>4, <1>5, <1>7 DEF PayeesOnRecord

\* A task pays the wallet of its plan, and names it where it found no row.
LEMMA TasksKeepPayees ==
  ASSUME IInv, WalletsRegistered, PayeesOnRecord, NEW r \in Request,
         TaskStep(r) \/ TaskCrash(r)
  PROVE  PayeesOnRecord'
<1>1. PICK t \in Request : t = target[r]
  BY DEF IInv, TypeOK
<1>2. /\ task \in [ Request -> TaskState ] /\ plan \in [ Request -> Plan ]
      /\ sentTo \in [ Request -> Wallet \cup { Null } ]
      /\ settlement \in [ Request -> SettlementStatus \cup { Null } ]
      /\ payee \in [ Request -> Wallet \cup { Null } ]
      /\ target \in [ Request -> Request ]
  BY DEF IInv, TypeOK
<1>3. CASE TaskPlan(r)
  <2>1. /\ UNCHANGED << settlement, payee, sentTo, requestVars >>
        /\ settlement[t] # "COMPLETED"
        /\ task' = [ task EXCEPT ![r] = "planned" ]
        /\ \A q \in Request \ { r } : plan'[q] = plan[q]
        /\ plan'[r].settlement = settlement[t]
    BY <1>1, <1>2, <1>3 DEF TaskPlan, Plan, databaseVars, outsideVars
  <2>2. plan'[r].settlement # Null => payee[t] \notin ValidAddress
    BY <2>1 DEF PayeesOnRecord, NamesPaid
  <2>3. QED
    BY <1>1, <1>2, <2>1, <2>2 DEF PayeesOnRecord, NamesPaid, requestVars
<1>4. CASE TaskTransfer(r)
  <2>1. /\ task[r] = "planned" /\ RowFree(t)
        /\ TaskOutcome(r) = "sent" /\ ~SettlementConflict(r)
        /\ sentTo' = [ sentTo EXCEPT ![t] = plan[r].wallet ]
        /\ task' = [ task EXCEPT ![r] = "transferred" ]
        /\ UNCHANGED << settlement, payee, plan, requestVars >>
    BY <1>1, <1>4 DEF TaskTransfer, Destination, databaseVars
  <2>2. /\ plan[r].settlement = Null => settlement[t] = Null
        /\ plan[r].settlement # Null => payee[t] \notin ValidAddress
    BY <1>1, <2>1 DEF SettlementConflict, PayeesOnRecord
  <2>3. pc[r] \notin HoldsRow
    BY <1>1, <2>1 DEF RowFree
  <2>4. /\ sentTo'[t] = plan[r].wallet
        /\ \A u \in Request : NamesPaid(settlement[u], payee[u], sentTo[u])'
        /\ \A q \in Request \ { r } :
             /\ pc'[q] \in HoldsKey =>
                  NamesPaid(work[q].settlement, work[q].payee, sentTo[target[q]])'
             /\ task'[q] \in { "planned", "transferred" } =>
                  (plan'[q].settlement # Null
                     => payee'[target'[q]] \notin ValidAddress)
             /\ task'[q] = "transferred" =>
                  /\ sentTo'[target'[q]] = plan'[q].wallet
                  /\ plan'[q].settlement = Null => settlement'[target'[q]] = Null
    <3>1. \A q \in Request \ { r } : target[q] = t =>
            pc[q] \notin HoldsRow /\ task[q] # "transferred"
      BY <2>1 DEF RowFree
    <3>2. /\ UNCHANGED << settlement, payee, plan, target >>
          /\ \A q \in Request \ { r } :
               pc'[q] = pc[q] /\ work'[q] = work[q] /\ task'[q] = task[q]
      BY <1>2, <2>1 DEF requestVars
    <3>3. QED
      BY <1>1, <2>1, <2>2, <3>1, <3>2, TransferKeepsOthers
  <2>5. pc'[r] \in HoldsKey =>
          NamesPaid(work[r].settlement, work[r].payee, sentTo[target[r]])'
    <3>1. pc'[r] \in HoldsKey => pc[r] = "inserted" /\ work' = work
      BY <2>1, <2>3 DEF requestVars, HoldsKey, HoldsRow
    <3>2. QED
      BY <3>1 DEF IInv, PayoutsOnRecord, NamesPaid
  <2>6. QED
    BY <1>1, <1>2, <2>1, <2>2, <2>4, <2>5 DEF PayeesOnRecord, requestVars
<1>5. CASE TaskCommit(r)
  <2>1. /\ task[r] = "transferred"
        /\ settlement' = [ settlement EXCEPT ![t] = "COMPLETED" ]
        /\ payee' = [ payee EXCEPT ![t] =
                        IF plan[r].settlement = Null THEN plan[r].wallet ELSE @ ]
        /\ task' = [ task EXCEPT ![r] = "committed" ]
        /\ \A q \in Request \ { r } : plan'[q] = plan[q]
        /\ UNCHANGED << sentTo, requestVars >>
    BY <1>1, <1>2, <1>5 DEF TaskCommit, EngineSettlement, EnginePayee,
                            WritesSettlement, outsideVars
  <2>2. /\ sentTo[t] = plan[r].wallet
        /\ plan[r].settlement = Null => settlement[t] = Null
        /\ plan[r].settlement # Null => payee[t] \notin ValidAddress
    BY <1>1, <2>1 DEF PayeesOnRecord
  <2>3. payee'[t] = sentTo[t] \/ payee'[t] \notin ValidAddress
    BY <1>2, <2>1, <2>2
  <2>4. \A u \in Request : NamesPaid(settlement[u], payee[u], sentTo[u])'
    BY <1>2, <2>1, <2>3 DEF PayeesOnRecord, NamesPaid
  <2>5. \A q \in Request : pc'[q] \in HoldsKey =>
          NamesPaid(work[q].settlement, work[q].payee, sentTo[target[q]])'
    BY <2>1 DEF PayeesOnRecord, NamesPaid, requestVars
  <2>6. ASSUME NEW q \in Request \ { r }, task'[q] \in { "planned", "transferred" }
        PROVE  /\ plan'[q].settlement # Null
                    => payee'[target'[q]] \notin ValidAddress
               /\ task'[q] = "transferred" =>
                    /\ sentTo'[target'[q]] = plan'[q].wallet
                    /\ plan'[q].settlement = Null
                         => settlement'[target'[q]] = Null
    <3>1. task[q] = task'[q] /\ plan'[q] = plan[q] /\ target'[q] = target[q]
      BY <1>2, <2>1 DEF requestVars
    <3>2. CASE target[q] = t
      <4>1. task[q] # "transferred"
        BY <1>1, <2>1, <3>2 DEF IInv, OneOwnerPerRow, OwnsRow
      <4>2. plan[q].settlement # Null => payee'[t] \notin ValidAddress
        <5>1. plan[q].settlement # Null => settlement[t] # Null
          BY <2>6, <3>1, <3>2 DEF WalletsRegistered
        <5>2. plan[q].settlement # Null => payee'[t] = payee[t]
          BY <1>2, <2>1, <2>2, <5>1
        <5>3. QED
          BY <2>6, <3>1, <3>2, <5>2 DEF PayeesOnRecord
      <4>3. QED
        BY <3>1, <3>2, <4>1, <4>2
    <3>3. CASE target[q] # t
      BY <1>2, <2>1, <2>6, <3>1, <3>3 DEF PayeesOnRecord
    <3>4. QED
      BY <3>2, <3>3
  <2>7. task'[r] = "committed"
    BY <1>2, <2>1
  <2>8. QED
    BY <2>4, <2>5, <2>6, <2>7 DEF PayeesOnRecord
<1>6. CASE \/ TaskLoad(r) \/ TaskReturn(r) \/ TaskRetry(r) \/ TaskAck(r)
           \/ TaskCrash(r)
  <2>1. UNCHANGED << settlement, payee, sentTo, requestVars >>
    BY <1>6 DEF TaskLoad, TaskReturn, TaskRetry, TaskAck, TaskCrash,
                databaseVars, outsideVars
  <2>2. /\ task'[r] \notin { "planned", "transferred" }
        /\ \A q \in Request \ { r } : task'[q] = task[q]
    BY <1>2, <1>6 DEF TaskLoad, TaskReturn, TaskRetry, TaskAck, TaskCrash
  <2>3. plan' = plan \/ \E p : plan' = [ plan EXCEPT ![r] = p ]
    BY <1>6 DEF TaskLoad, TaskReturn, TaskRetry, TaskAck, TaskCrash
  <2>4. \A q \in Request \ { r } : plan'[q] = plan[q]
    BY <1>2, <2>3
  <2>5. QED
    BY <2>1, <2>2, <2>4 DEF PayeesOnRecord, NamesPaid, requestVars
<1>7. QED
  BY <1>3, <1>4, <1>5, <1>6 DEF TaskStep

\* Every step keeps the payees on record.
LEMMA NextKeepsPayees ==
  ASSUME IInv, ReceiptsFollowCharges, WalletsRegistered, PayeesOnRecord,
         [Next]_vars
  PROVE  PayeesOnRecord'
<1>1. ASSUME NEW r \in Request, RequestStep(r) \/ Crash(r) PROVE PayeesOnRecord'
  BY <1>1, FlushesKeepPayees, InlineKeepsPayees, CommitKeepsPayees
     DEF RequestStep
<1>2. ASSUME NEW w \in Wallet, AddWallet(w) PROVE PayeesOnRecord'
  BY <1>2 DEF AddWallet, PayeesOnRecord, NamesPaid, databaseVars, requestVars,
              taskVars, outsideVars
<1>3. CASE UNCHANGED vars
  BY <1>3 DEF vars, PayeesOnRecord, NamesPaid, databaseVars, requestVars,
              taskVars, outsideVars
<1>4. QED
  BY <1>1, <1>2, <1>3, BeginningsKeepPayees, TasksKeepPayees DEF Next

\* Rows name the wallet that was paid, or one that is refused, in every
\* reachable state.
THEOREM PayeesHold == Spec => []PayeesOnRecord
<1>1. Init => PayeesOnRecord
  BY DEF Init, PayeesOnRecord, NamesPaid, HoldsKey
<1>2. IInv /\ ReceiptsFollowCharges /\ WalletsRegistered /\ PayeesOnRecord
        /\ [Next]_vars => PayeesOnRecord'
  BY NextKeepsPayees
<1>3. QED
  BY <1>1, <1>2, InvariantHolds, ReceiptsHold, WalletsHold, PTL DEF Spec

\* Money goes to valid wallets of the merchant, and a completed row that names
\* another wallet than the one that was paid names one that was refused (the
\* engine, in the request and in the task, whatever either read before).
THEOREM PaidAtNamedWallet == Spec => []PayeesAccountedFor
<1>1. WalletsRegistered /\ PayeesOnRecord => PayeesAccountedFor
  <2> SUFFICES ASSUME WalletsRegistered, PayeesOnRecord, NEW t \in Request
               PROVE  /\ sent[t] > 0 => sentTo[t] \in registered \cap ValidAddress
                      /\ settlement[t] # Null => payee[t] \in registered
                      /\ settlement[t] = "COMPLETED" /\ payee[t] # sentTo[t]
                           => payee[t] \notin ValidAddress
    BY DEF PayeesAccountedFor
  <2>1. Null # "COMPLETED"
    BY PaymentsAssumption DEF SettlementStatus
  <2>2. QED
    BY <2>1 DEF WalletsRegistered, Names, PayeesOnRecord, NamesPaid
<1>2. QED
  BY <1>1, WalletsHold, PayeesHold, PTL

\* While every wallet of the merchant is one its provider accepts, or there is
\* one wallet only, a completed settlement names the wallet that was paid: it
\* takes a refused wallet, replaced by another, for the row to be wrong.
THEOREM PaidWalletIsNamed ==
  Spec => []( registered \subseteq ValidAddress
                \/ (\A v, w \in registered : v = w)
              => SettlementNamesPaidWallet )
<1>1. IInv /\ PayeesAccountedFor
        => ( registered \subseteq ValidAddress
               \/ (\A v, w \in registered : v = w)
             => SettlementNamesPaidWallet )
  <2> SUFFICES ASSUME IInv, PayeesAccountedFor,
                      \/ registered \subseteq ValidAddress
                      \/ \A v, w \in registered : v = w,
                      NEW t \in Request, settlement[t] = "COMPLETED"
               PROVE  payee[t] = sentTo[t]
    BY DEF SettlementNamesPaidWallet
  <2>1. sent[t] > 0
    BY DEF IInv, CompletedMeansPaidOut
  <2>2. settlement[t] # Null
    BY PaymentsAssumption DEF SettlementStatus
  <2>3. QED
    BY <2>1, <2>2 DEF PayeesAccountedFor
<1>2. QED
  BY <1>1, InvariantHolds, PaidAtNamedWallet, PTL

-----------------------------------------------------------------------------
(* How often a card is charged *)

\* A step crashes one request at most, and that is a fault.
LEMMA CrashesAddUp ==
  ASSUME TypeOK, [Next]_vars
  PROVE  \/ faults' >= faults /\ Crashed' \subseteq Crashed
         \/ /\ faults' = faults + 1
            /\ \E r \in Request : Crashed' \subseteq Crashed \cup { r }
<1>1. faults' >= faults /\ pc \in [ Request -> PC ]
  BY FaultsAddUp DEF TypeOK
<1>2. ASSUME NEW r \in Request, Crash(r)
      PROVE  faults' = faults + 1 /\ Crashed' \subseteq Crashed \cup { r }
  BY <1>1, <1>2 DEF Crash, Crashed
<1>3. ASSUME NEW r \in Request, RequestStep(r) PROVE Crashed' \subseteq Crashed
  <2>1. \E next \in PC \ { "crashed" } : pc' = [ pc EXCEPT ![r] = next ]
    BY <1>3 DEF RequestStep, LookupAlternate, Insert, Charge, SignWrite,
                Settle, Defer, Commit, CancelWrite, RefundGateway,
                RefundRefused, RefundWrite, WebhookWrite, Overwrite, PC, Running
  <2>2. QED
    BY <1>1, <2>1 DEF Crashed
<1>4. ASSUME NEW r \in Request, Begin(r) PROVE Crashed' \subseteq Crashed
  BY <1>1, <1>4 DEF Begin, BeginCreate, SignLoad, CancelLoad, RefundLoad, Load,
                    WebhookLoad, MoyasarLoad, Notify, Crashed
<1>5. ASSUME UNCHANGED pc PROVE Crashed' \subseteq Crashed
  BY <1>5 DEF Crashed
<1>6. ASSUME NEW r \in Request, TaskStep(r) \/ TaskCrash(r) PROVE UNCHANGED pc
  BY <1>6 DEF TaskStep, TaskLoad, TaskPlan, TaskReturn, TaskTransfer,
              TaskRetry, TaskCommit, TaskAck, TaskCrash, requestVars
<1>7. ASSUME NEW w \in Wallet, AddWallet(w) PROVE UNCHANGED pc
  BY <1>7 DEF AddWallet, requestVars
<1>8. UNCHANGED vars => UNCHANGED pc
  BY DEF vars, requestVars
<1>9. QED
  BY <1>1, <1>2, <1>3, <1>4, <1>5, <1>6, <1>7, <1>8 DEF Next

\* With one more element, a set that is no larger than n is at most n + 1.
LEMMA OneMore ==
  ASSUME NEW S, NEW T, NEW x, NEW n \in Nat, IsFiniteSet(S), Cardinality(S) <= n,
         T \subseteq S \cup { x }
  PROVE  IsFiniteSet(T) /\ Cardinality(T) <= n + 1
<1>1. /\ IsFiniteSet(S \cup { x }) /\ Cardinality(S) \in Nat
      /\ Cardinality(S \cup { x }) \in Nat
      /\ Cardinality(S \cup { x }) <= Cardinality(S) + 1
  BY FS_AddElement, FS_CardinalityType
<1>2. /\ IsFiniteSet(T) /\ Cardinality(T) \in Nat
      /\ Cardinality(T) <= Cardinality(S \cup { x })
  BY <1>1, FS_Subset, FS_CardinalityType
<1>3. QED
  BY <1>1, <1>2

\* The crashed requests are counted by the faults in every reachable state.
THEOREM CrashesHold == Spec => []CrashesCounted
<1>1. Init => CrashesCounted
  <2>1. Init => Crashed = {} /\ faults = 0
    BY DEF Init, Crashed
  <2>2. QED
    BY <2>1, FS_EmptySet DEF CrashesCounted
<1>2. TypeOK /\ CrashesCounted /\ [Next]_vars => CrashesCounted'
  <2> SUFFICES ASSUME TypeOK, CrashesCounted, [Next]_vars PROVE CrashesCounted'
    OBVIOUS
  <2>1. /\ IsFiniteSet(Crashed) /\ Cardinality(Crashed) <= faults
        /\ Cardinality(Crashed) \in Nat /\ faults \in Nat /\ faults' \in Nat
    BY FS_CardinalityType, FaultsAddUp, PaymentsAssumption
    DEF CrashesCounted, TypeOK
  <2>2. CASE faults' >= faults /\ Crashed' \subseteq Crashed
    <3>1. /\ IsFiniteSet(Crashed') /\ Cardinality(Crashed') \in Nat
          /\ Cardinality(Crashed') <= Cardinality(Crashed)
      BY <2>1, <2>2, FS_Subset, FS_CardinalityType
    <3>2. QED
      BY <2>1, <2>2, <3>1 DEF CrashesCounted
  <2>3. ASSUME NEW r \in Request, faults' = faults + 1,
               Crashed' \subseteq Crashed \cup { r }
        PROVE  CrashesCounted'
    BY <2>1, <2>3, OneMore DEF CrashesCounted
  <2>4. QED
    BY <2>2, <2>3, CrashesAddUp
<1>3. QED
  BY <1>1, <1>2, TypeCorrect, PTL DEF Spec

\* The requests charged for one idempotency key.
ChargedFor(p) == { r \in Request : Charged(r) /\ key[r] = p }

ChargesWithinFaults ==
  \A p \in Reference : /\ IsFiniteSet(ChargedFor(p))
                       /\ Cardinality(ChargedFor(p)) <= 1 + faults

\* A key is charged once, and once more for each fault, however many requests
\* come with it (create_payment: the insert is flushed before the charge).
THEOREM ChargesBounded == Spec => []ChargesWithinFaults
<1>1. TypeOK /\ CrashesCounted /\ ChargedTwiceOnlyAfterCrash
        => ChargesWithinFaults
  <2> SUFFICES ASSUME TypeOK, CrashesCounted, ChargedTwiceOnlyAfterCrash,
                      NEW p \in Reference
               PROVE  /\ IsFiniteSet(ChargedFor(p))
                      /\ Cardinality(ChargedFor(p)) <= 1 + faults
    BY DEF ChargesWithinFaults
  <2>1. /\ IsFiniteSet(Crashed) /\ Cardinality(Crashed) <= faults
        /\ Cardinality(Crashed) \in Nat /\ faults \in Nat
    BY FS_CardinalityType, PaymentsAssumption DEF CrashesCounted, TypeOK
  <2>2. PICK r : ChargedFor(p) \subseteq Crashed \cup { r }
    <3>1. CASE \E r \in ChargedFor(p) : r \notin Crashed
      <4>1. PICK r \in ChargedFor(p) : r \notin Crashed
        BY <3>1
      <4>2. \A q \in ChargedFor(p) : q # r => q \in Crashed
        BY <4>1 DEF ChargedFor, Crashed, ChargedTwiceOnlyAfterCrash
      <4>3. QED
        BY <4>2
    <3>2. CASE ChargedFor(p) \subseteq Crashed
      BY <3>2
    <3>3. QED
      BY <3>1, <3>2
  <2>3. IsFiniteSet(ChargedFor(p)) /\ Cardinality(ChargedFor(p)) <= faults + 1
    BY <2>1, <2>2, OneMore
  <2>4. QED
    BY <2>1, <2>3
<1>2. QED
  BY <1>1, TypeCorrect, CrashesHold, ChargesAreSerialised, PTL

\* Where nothing fails, no two requests with one key are both charged.
THEOREM OneCharge ==
  ASSUME MaxFaults = 0 PROVE Spec => []AtMostOneCharge
<1>1. IInv /\ CrashesCounted /\ ChargedTwiceOnlyAfterCrash => AtMostOneCharge
  <2> SUFFICES ASSUME IInv, CrashesCounted, ChargedTwiceOnlyAfterCrash
               PROVE  AtMostOneCharge
    OBVIOUS
  <2>1. IsFiniteSet(Crashed) /\ Cardinality(Crashed) = 0
    BY FS_CardinalityType DEF IInv, TypeOK, CrashesCounted
  <2>2. Crashed = {}
    BY <2>1, FS_EmptySet
  <2>3. QED
    BY <2>2 DEF Crashed, ChargedTwiceOnlyAfterCrash, AtMostOneCharge
<1>2. QED
  BY <1>1, InvariantHolds, CrashesHold, ChargesAreSerialised, PTL

-----------------------------------------------------------------------------
(* How long requests and tasks go on *)

\* How many more steps a request may take.
StepsLeft(r) ==
  CASE pc[r] = "idle"                 -> 6
    [] pc[r] = "lookup_alternate"     -> 5
    [] pc[r] = "insert"               -> 4
    [] pc[r] \in { "inserted", "sign" } -> 3
    [] pc[r] \in { "settle", "refund" } -> 2
    [] pc[r] \in { "commit", "cancel", "refunded", "webhook" } -> 1
    [] OTHER                          -> 0

\* How many more steps a task may take in its present run ...
RunLeft(r) ==
  CASE task[r] = "none"        -> 6
    [] task[r] = "queued"      -> 5
    [] task[r] = "loaded"      -> 4
    [] task[r] = "planned"     -> 3
    [] task[r] = "transferred" -> 2
    [] task[r] = "committed"   -> 1
    [] OTHER                   -> 0

\* ... and in all the runs its retries and the redeliveries of its message give
\* it.
TaskLeft(r) ==
  6 * (MaxRetries - tries[r]) + 6 * (MaxFaults - faults) + RunLeft(r)

\* Nothing gives a request or a task more to do, and each of its own steps
\* leaves less.
RequestAdvances(r) ==
  /\ StepsLeft(r)' <= StepsLeft(r)
  /\ RequestStep(r) => StepsLeft(r)' < StepsLeft(r)

TaskAdvances(r) ==
  /\ TaskLeft(r)' <= TaskLeft(r)
  /\ TaskStep(r) => TaskLeft(r)' < TaskLeft(r)

\* Each step of a request leaves it less, and the others where they are.
LEMMA RequestStepsAdvance ==
  ASSUME TypeOK, NEW r \in Request, RequestStep(r)
  PROVE  /\ StepsLeft(r)' < StepsLeft(r)
         /\ \A q \in Request \ { r } : pc'[q] = pc[q]
<1>0. pc \in [ Request -> PC ]
  BY DEF TypeOK
<1>1. CASE LookupAlternate(r)
  BY <1>0, <1>1 DEF LookupAlternate, StepsLeft
<1>2. CASE Insert(r)
  BY <1>0, <1>2 DEF Insert, StepsLeft
<1>3. CASE Charge(r)
  BY <1>0, <1>3 DEF Charge, StepsLeft
<1>4. CASE SignWrite(r)
  BY <1>0, <1>4 DEF SignWrite, StepsLeft
<1>5. CASE Settle(r) \/ Defer(r)
  BY <1>0, <1>5 DEF Settle, Defer, StepsLeft
<1>6. CASE Commit(r)
  BY <1>0, <1>6 DEF Commit, StepsLeft
<1>7. CASE CancelWrite(r) \/ RefundWrite(r)
  BY <1>0, <1>7 DEF CancelWrite, RefundWrite, Overwrite, StepsLeft
<1>8. CASE RefundGateway(r) \/ RefundRefused(r)
  BY <1>0, <1>8 DEF RefundGateway, RefundRefused, StepsLeft
<1>9. CASE WebhookWrite(r)
  BY <1>0, <1>9 DEF WebhookWrite, StepsLeft
<1>10. QED
  BY <1>1, <1>2, <1>3, <1>4, <1>5, <1>6, <1>7, <1>8, <1>9 DEF RequestStep

\* So do its arrival and its crash.
LEMMA BeginningsAdvance ==
  ASSUME TypeOK, NEW r \in Request, Begin(r) \/ Crash(r)
  PROVE  /\ StepsLeft(r)' < StepsLeft(r)
         /\ \A q \in Request \ { r } : pc'[q] = pc[q]
<1>1. \E next \in PC \ { "idle" } :
        /\ pc' = [ pc EXCEPT ![r] = next ]
        /\ pc[r] = "idle" \/ (pc[r] \in Running /\ next = "crashed")
  BY DEF Begin, BeginCreate, SignLoad, CancelLoad, RefundLoad, Load,
         WebhookLoad, MoyasarLoad, Notify, Crash, PC, Running
<1>2. PICK next \in PC \ { "idle" } :
        /\ pc' = [ pc EXCEPT ![r] = next ]
        /\ pc[r] = "idle" \/ (pc[r] \in Running /\ next = "crashed")
  BY <1>1
<1>3. pc \in [ Request -> PC ]
  BY DEF TypeOK
<1>4. pc'[r] = next /\ \A q \in Request \ { r } : pc'[q] = pc[q]
  BY <1>2, <1>3
<1>5. CASE pc[r] = "idle"
  BY <1>2, <1>4, <1>5 DEF StepsLeft
<1>6. CASE pc[r] \in Running /\ next = "crashed"
  BY <1>4, <1>6 DEF StepsLeft, Running
<1>7. QED
  BY <1>2, <1>4, <1>5, <1>6

\* No request goes on for ever: none of its steps returns to a point it has
\* left, and no other step takes it back (every handler of PaymentService, each
\* of which awaits a bounded number of times).
THEOREM RequestsAdvance ==
  Spec => [][\A r \in Request : RequestAdvances(r)]_vars
<1> DEFINE Advance == \A r \in Request : RequestAdvances(r)
<1>1. TypeOK /\ [Next]_vars => [Advance]_vars
  <2> SUFFICES ASSUME TypeOK, Next, NEW q \in Request PROVE RequestAdvances(q)
    OBVIOUS
  <2>1. StepsLeft(q) \in Nat
    BY DEF StepsLeft
  <2>2. ASSUME pc'[q] = pc[q] PROVE StepsLeft(q)' <= StepsLeft(q)
    BY <2>1, <2>2 DEF StepsLeft
  <2>3. RequestStep(q) => RequestAdvances(q)
    BY <2>1, RequestStepsAdvance DEF RequestAdvances, StepsLeft
  <2>4. ASSUME NEW r \in Request, Begin(r) \/ RequestStep(r) \/ Crash(r)
        PROVE  StepsLeft(q)' <= StepsLeft(q)
    <3>1. CASE q = r
      BY <2>1, <2>4, <3>1, BeginningsAdvance, RequestStepsAdvance DEF StepsLeft
    <3>2. CASE q # r
      BY <2>2, <2>4, <3>2, BeginningsAdvance, RequestStepsAdvance
    <3>3. QED
      BY <3>1, <3>2
  <2>5. ASSUME NEW r \in Request, TaskStep(r) \/ TaskCrash(r) PROVE UNCHANGED pc
    BY <2>5 DEF TaskStep, TaskLoad, TaskPlan, TaskReturn, TaskTransfer,
                TaskRetry, TaskCommit, TaskAck, TaskCrash, requestVars
  <2>6. ASSUME NEW w \in Wallet, AddWallet(w) PROVE UNCHANGED pc
    BY <2>6 DEF AddWallet, requestVars
  <2>7. StepsLeft(q)' <= StepsLeft(q)
    BY <2>2, <2>4, <2>5, <2>6 DEF Next
  <2>8. QED
    BY <2>3, <2>7 DEF RequestAdvances
<1> HIDE DEF Advance
<1>2. Spec => [][Advance]_vars
  BY <1>1, TypeCorrect, PTL DEF Spec
<1>3. QED
  BY <1>2 DEF Advance


\* Before it commits, no request has enqueued a task.
LEMMA NextKeepsFollowing ==
  ASSUME TypeOK, TasksFollowCommits, [Next]_vars
  PROVE  TasksFollowCommits'
<1>1. pc \in [ Request -> PC ] /\ task \in [ Request -> TaskState ]
  BY DEF TypeOK
<1>2. ASSUME NEW r \in Request, UNCHANGED task,
             \A q \in Request \ { r } : pc'[q] = pc[q],
             \/ pc'[r] \in { "commit", "done", "crashed" }
             \/ pc[r] \notin { "commit", "done", "crashed" }
      PROVE  TasksFollowCommits'
  BY <1>2 DEF TasksFollowCommits
<1>3. ASSUME NEW r \in Request, Begin(r) PROVE TasksFollowCommits'
  <2>1. UNCHANGED task /\ pc[r] = "idle" /\ \E next : pc' = [ pc EXCEPT ![r] = next ]
    BY <1>3 DEF Begin, BeginCreate, SignLoad, CancelLoad, RefundLoad, Load,
                WebhookLoad, MoyasarLoad, Notify, taskVars
  <2>2. QED
    BY <1>1, <1>2, <2>1
<1>4. ASSUME NEW r \in Request, RequestStep(r), ~Defer(r)
      PROVE  TasksFollowCommits'
  <2>1. UNCHANGED task
    BY <1>4 DEF RequestStep, LookupAlternate, Insert, Charge, SignWrite,
                Settle, Commit, CancelWrite, RefundGateway, RefundRefused,
                RefundWrite, WebhookWrite, Overwrite, taskVars
  <2>2. \/ pc[r] # "commit" /\ pc[r] \in Running
        \/ pc'[r] = "done"
    BY <1>1, <1>4 DEF RequestStep, LookupAlternate, Insert, Charge, SignWrite,
                Settle, Commit, CancelWrite, RefundGateway, RefundRefused,
                RefundWrite, WebhookWrite, Overwrite, Running
  <2>3. QED
    BY <1>2, <1>4, <2>1, <2>2, RequestStepsAdvance DEF Running
<1>5. ASSUME NEW r \in Request, Defer(r) PROVE TasksFollowCommits'
  <2>1. /\ pc' = [ pc EXCEPT ![r] = "commit" ]
        /\ \E next : task' = [ task EXCEPT ![r] = next ]
    BY <1>5 DEF Defer, Publish
  <2>2. QED
    BY <1>1, <2>1 DEF TasksFollowCommits
<1>6. ASSUME NEW r \in Request, Crash(r) PROVE TasksFollowCommits'
  BY <1>1, <1>6 DEF Crash, TasksFollowCommits, taskVars
<1>7. ASSUME NEW r \in Request, TaskStep(r) \/ TaskCrash(r)
      PROVE  TasksFollowCommits'
  <2>1. /\ UNCHANGED pc /\ task[r] # "none"
        /\ \E next : task' = [ task EXCEPT ![r] = next ]
    BY <1>7 DEF TaskStep, TaskLoad, TaskPlan, TaskReturn, TaskTransfer,
                TaskRetry, TaskRaises, TaskCommit, TaskAck, TaskCrash,
                TaskRunning, requestVars
  <2>2. QED
    BY <1>1, <2>1 DEF TasksFollowCommits
<1>8. ASSUME NEW w \in Wallet, AddWallet(w) PROVE TasksFollowCommits'
  BY <1>8 DEF AddWallet, TasksFollowCommits, requestVars, taskVars
<1>9. CASE UNCHANGED vars
  BY <1>9 DEF TasksFollowCommits, vars, requestVars, taskVars
<1>10. QED
  BY <1>3, <1>4, <1>5, <1>6, <1>7, <1>8, <1>9 DEF Next

\* So a task has no steps before its request's last one.
THEOREM FollowingHolds == Spec => []TasksFollowCommits
<1>1. Init => TasksFollowCommits
  BY DEF Init, TasksFollowCommits
<1>2. TypeOK /\ TasksFollowCommits /\ [Next]_vars => TasksFollowCommits'
  BY NextKeepsFollowing
<1>3. QED
  BY <1>1, <1>2, TypeCorrect, PTL DEF Spec

\* A change of a task that its run, its retries or a fault accounts for.
LEMMA TaskLeftDrops ==
  ASSUME TypeOK, TypeOK', NEW r \in Request,
         RunLeft(r)' \in Nat, RunLeft(r) \in Nat,
         \/ /\ tries'[r] = tries[r] /\ faults' = faults
            /\ RunLeft(r)' < RunLeft(r)
         \/ /\ tries'[r] = tries[r] + 1 /\ faults' = faults
            /\ RunLeft(r)' < RunLeft(r) + 6
         \/ /\ tries'[r] = tries[r] /\ faults' = faults + 1
            /\ RunLeft(r)' < RunLeft(r) + 6
  PROVE  TaskLeft(r)' < TaskLeft(r)
<1>1. /\ tries[r] \in Nat /\ tries'[r] \in Nat /\ faults \in Nat /\ faults' \in Nat
      /\ MaxRetries \in Nat /\ MaxFaults \in Nat
  BY PaymentsAssumption DEF TypeOK
<1>2. QED
  BY <1>1 DEF TaskLeft

\* A run has at most six steps left, the publication of its task included.
LEMMA RunLeftType ==
  ASSUME NEW r \in Request
  PROVE  RunLeft(r) \in 0..6 /\ RunLeft(r)' \in 0..6
BY DEF RunLeft

\* Each step of a task, and each crash, leaves it less.
LEMMA TaskStepsAdvance ==
  ASSUME TypeOK, TypeOK', NEW r \in Request, TaskStep(r) \/ TaskCrash(r)
  PROVE  /\ TaskLeft(r)' < TaskLeft(r)
         /\ \A q \in Request \ { r } : task'[q] = task[q] /\ tries'[q] = tries[q]
         /\ faults' >= faults
<1>1. /\ task \in [ Request -> TaskState ] /\ tries \in [ Request -> 0..MaxRetries ]
      /\ faults \in Nat /\ RunLeft(r) \in 0..6 /\ RunLeft(r)' \in 0..6
      /\ MaxRetries \in Nat
  BY RunLeftType, PaymentsAssumption DEF TypeOK
<1>2. CASE TaskLoad(r) \/ TaskPlan(r) \/ TaskReturn(r) \/ TaskTransfer(r)
           \/ TaskCommit(r) \/ TaskAck(r)
  <2>1. UNCHANGED << tries, faults >>
    BY <1>2 DEF TaskLoad, TaskPlan, TaskReturn, TaskTransfer, TaskCommit, TaskAck
  <2>2. \E from, to :
          /\ task[r] = from /\ task' = [ task EXCEPT ![r] = to ]
          /\ << from, to >> \in { << "queued", "loaded" >>, << "loaded", "planned" >>,
               << "loaded", "done" >>, << "planned", "transferred" >>,
               << "transferred", "committed" >>, << "committed", "done" >> }
    BY <1>2 DEF TaskLoad, TaskPlan, TaskReturn, TaskTransfer, TaskCommit, TaskAck
  <2>3. /\ RunLeft(r)' < RunLeft(r)
        /\ \A q \in Request \ { r } : task'[q] = task[q]
    BY <1>1, <2>2 DEF RunLeft
  <2>4. QED
    BY <1>1, <2>1, <2>3, TaskLeftDrops
<1>3. CASE TaskRetry(r)
  <2>1. /\ RunLeft(r) >= 3 /\ faults' = faults
        /\ \A q \in Request \ { r } : task'[q] = task[q] /\ tries'[q] = tries[q]
    BY <1>1, <1>3 DEF TaskRetry, TaskRaises, RunLeft
  <2>2. CASE MayRetry(r)
    <3>1. tries'[r] = tries[r] + 1 /\ RunLeft(r)' = 5
      BY <1>1, <1>3, <2>2 DEF TaskRetry, RunLeft
    <3>2. QED
      BY <1>1, <2>1, <3>1, TaskLeftDrops
  <2>3. CASE ~MayRetry(r)
    <3>1. tries'[r] = tries[r] /\ RunLeft(r)' = 0
      BY <1>1, <1>3, <2>3 DEF TaskRetry, RunLeft
    <3>2. QED
      BY <1>1, <2>1, <3>1, TaskLeftDrops
  <2>4. QED
    BY <2>2, <2>3
<1>4. CASE TaskCrash(r)
  <2>1. /\ RunLeft(r) >= 1 /\ RunLeft(r)' <= 5 /\ faults' = faults + 1
        /\ tries' = tries
        /\ \A q \in Request \ { r } : task'[q] = task[q]
    BY <1>1, <1>4 DEF TaskCrash, TaskRunning, RunLeft
  <2>2. QED
    BY <1>1, <2>1, TaskLeftDrops
<1>5. QED
  BY <1>2, <1>3, <1>4 DEF TaskStep

\* No task goes on for ever: it takes at most five steps, and six more for
\* each retry and each fault of the system (settle_transaction, retried by
\* Celery max_retries times and redelivered when a worker dies).
THEOREM TasksAdvance ==
  Spec => [][\A r \in Request : TaskAdvances(r)]_vars
<1> DEFINE Advance == \A r \in Request : TaskAdvances(r)
<1>1. TypeOK /\ TypeOK' /\ TasksFollowCommits /\ [Next]_vars => [Advance]_vars
  <2> SUFFICES ASSUME TypeOK, TypeOK', TasksFollowCommits, Next,
                      NEW q \in Request
               PROVE  TaskAdvances(q)
    OBVIOUS
  <2>1. /\ tries[q] \in Nat /\ tries'[q] \in Nat
        /\ faults \in Nat /\ faults' \in Nat
        /\ MaxRetries \in Nat /\ MaxFaults \in Nat
        /\ RunLeft(q) \in Nat /\ RunLeft(q)' \in Nat
    <3>1. RunLeft(q) \in Nat /\ RunLeft(q)' \in Nat
      BY RunLeftType
    <3>2. QED
      BY <3>1, PaymentsAssumption DEF TypeOK
  <2>2. TaskLeft(q) \in Int /\ TaskLeft(q)' \in Int
    BY <2>1 DEF TaskLeft
  <2>3. faults' >= faults
    BY FaultsAddUp
  <2>4. ASSUME task'[q] = task[q], tries'[q] = tries[q]
        PROVE  TaskLeft(q)' <= TaskLeft(q)
    <3>1. RunLeft(q)' = RunLeft(q)
      BY <2>4 DEF RunLeft
    <3>2. QED
      BY <2>1, <2>3, <2>4, <3>1 DEF TaskLeft
  <2>5. ASSUME NEW r \in Request, TaskStep(r) \/ TaskCrash(r)
        PROVE  /\ TaskLeft(q)' <= TaskLeft(q)
               /\ q = r => TaskLeft(q)' < TaskLeft(q)
    BY <2>2, <2>4, <2>5, TaskStepsAdvance
  <2>6. ASSUME NEW r \in Request, Defer(r) PROVE TaskLeft(q)' <= TaskLeft(q)
    <3>1. /\ task[r] = "none" /\ tries' = tries
          /\ \E next \in { "queued", "unpublished" } :
               task' = [ task EXCEPT ![r] = next ]
      BY <2>6 DEF Defer, Publish, TasksFollowCommits
    <3>2. task \in [ Request -> TaskState ]
      BY DEF TypeOK
    <3>3. CASE q = r
      <4>1. RunLeft(q)' < RunLeft(q)
        BY <3>1, <3>2, <3>3 DEF RunLeft
      <4>2. QED
        BY <2>1, <2>3, <3>1, <4>1 DEF TaskLeft
    <3>4. CASE q # r
      BY <2>4, <3>1, <3>2, <3>4
    <3>5. QED
      BY <3>3, <3>4
  <2>7. ASSUME NEW r \in Request,
               Begin(r) \/ (RequestStep(r) /\ ~Defer(r)) \/ Crash(r)
        PROVE  UNCHANGED << task, tries >>
    BY <2>7 DEF Begin, BeginCreate, SignLoad, CancelLoad, RefundLoad, Load,
                WebhookLoad, MoyasarLoad, Notify, RequestStep, LookupAlternate,
                Insert, Charge, SignWrite, Settle, Commit, CancelWrite,
                RefundGateway, RefundRefused, RefundWrite, WebhookWrite,
                Overwrite, Crash, taskVars
  <2>8. ASSUME NEW w \in Wallet, AddWallet(w) PROVE UNCHANGED << task, tries >>
    BY <2>8 DEF AddWallet, taskVars
  <2>9. TaskLeft(q)' <= TaskLeft(q)
    BY <2>4, <2>5, <2>6, <2>7, <2>8 DEF Next
  <2>10. QED
    BY <2>5, <2>9 DEF TaskAdvances
<1> HIDE DEF Advance
<1>2. Spec => [][Advance]_vars
  BY <1>1, TypeCorrect, FollowingHolds, PTL DEF Spec
<1>3. QED
  BY <1>2 DEF Advance

-----------------------------------------------------------------------------

\* The whole invariant of the run holds in every reachable state.
THEOREM PaymentInvariantHolds == Spec => []PaymentInv
<1>1. IInv /\ ReceiptsFollowCharges /\ PendingIsUnsettled /\ LogsAreAllowed
        /\ TransfersCounted /\ WalletsRegistered /\ PayeesOnRecord
        /\ CrashesCounted /\ TasksFollowCommits
        => PaymentInv
  BY DEF PaymentInv
<1>2. QED
  BY <1>1, InvariantHolds, ReceiptsHold, PendingHolds, LogsHold, CountHolds,
     WalletsHold, PayeesHold, CrashesHold, FollowingHolds, PTL

=============================================================================
