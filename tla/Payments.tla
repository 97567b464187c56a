------------------------------ MODULE Payments ------------------------------
(***************************************************************************)
(* PaymentService (app/services/payment_service.py), the settlement engine *)
(* it runs inline, and the Celery task that retries a settlement           *)
(* (app/tasks/settlement_tasks.py), over one PostgreSQL database.          *)
(*                                                                         *)
(* Every API request is one database session (get_db_session): what it     *)
(* flushes is invisible until it commits, and an exception, or the death   *)
(* of the process, rolls it back.  PostgreSQL runs at READ COMMITTED: a    *)
(* SELECT sees the last committed row and locks nothing, an UPDATE waits   *)
(* for the row's lock and then overwrites the columns it sets, and an      *)
(* INSERT of a unique key waits for a concurrent insert of the same key    *)
(* and fails if that one commits.  No statement uses FOR UPDATE or a       *)
(* version column.  A loaded object is never refreshed within its session  *)
(* (identity map, expire_on_commit=False).                                 *)
(*                                                                         *)
(* A payment (a transactions row) is named by the request that inserts it. *)
(* Each request runs once, so Request bounds the number of requests.  A    *)
(* request that a guard refuses, or that only reads, changes nothing and   *)
(* is not a step.  One merchant owns every payment of the model.           *)
(***************************************************************************)
EXTENDS SettlementEngine, Naturals

CONSTANTS
  Request,     \* API requests; also the names of the payments they create
  Reference,   \* idempotency keys and merchant references
  Unquoted,    \* references of payments in a currency with no exchange rate
  MaxRetries,  \* max_retries of the Celery task
  MaxFaults    \* bound on crashes and failed publications in a behaviour

ASSUME PaymentsAssumption ==
  /\ Unquoted \subseteq Reference
  /\ Null \notin Reference \cup SettlementStatus
  /\ MaxRetries \in Nat
  /\ MaxFaults \in Nat

VARIABLES
  \* The database, as committed.
  status,      \* transactions.status; "NONE" when there is no row
  receipt,     \* whether the payment has a receipts row
  settlement,  \* status of its crypto_settlements row
  payee,       \* the wallet that row names
  history,     \* its transaction_status_logs, as <<from_status, to_status>>
  wallet,      \* the merchant's primary wallet
  registered,  \* the wallets registered so far
  \* The API requests and their sessions.
  pc,          \* where the request is
  key,         \* idempotency_key, the merchant_reference it stores
  alternate,   \* the merchant_reference of the payload
  target,      \* the payment it works on
  loaded,      \* what it read of the payment
  work,        \* what it has flushed and not committed
  \* The settlement tasks, named by the request that enqueued them.
  task, tries, plan,
  \* What happened outside: at the gateway, at the wallet, and faults.
  charge,      \* outcome of the request's charge
  sent,        \* number of transfers made for a payment
  sentTo,      \* the wallet of the last one
  faults

databaseVars == << status, receipt, settlement, payee, history >>
walletVars   == << wallet, registered >>
requestVars  == << pc, key, alternate, target, loaded, work >>
taskVars     == << task, tries, plan >>
outsideVars  == << charge, sent, sentTo >>

vars == << databaseVars, walletVars, requestVars, taskVars, outsideVars,
           faults >>

-----------------------------------------------------------------------------
(* Types *)

OptionalStatus == Status \cup { "NONE" }
LogEntry       == OptionalStatus \X Status

ChargeOutcome == { "declined", "invoiced", "signature", "captured" }

\* Where a request can be: before its first step, between two steps, over.
Running ==
  { "lookup_alternate", "insert", "inserted", "sign", "settle", "commit",
    "cancel", "refund", "refunded", "webhook" }
PC == Running \cup { "idle", "done", "crashed" }

TaskRunning == { "loaded", "planned", "transferred", "committed" }
TaskState ==
  TaskRunning \cup
  { "none", "queued", "done", "exhausted", "lost", "unpublished" }

Loaded == [ status : OptionalStatus, receipt : BOOLEAN ]
Work   == [ status : OptionalStatus, log : Seq(LogEntry), receipt : BOOLEAN,
            settlement : SettlementStatus \cup { Null },
            payee : Wallet \cup { Null } ]
Plan   == [ status : OptionalStatus,
            settlement : SettlementStatus \cup { Null },
            wallet : Wallet \cup { Null } ]

NothingLoaded == [ status |-> "NONE", receipt |-> FALSE ]
NoWork        == [ status |-> "NONE", log |-> << >>, receipt |-> FALSE,
                   settlement |-> Null, payee |-> Null ]
NoPlan        == [ status |-> "NONE", settlement |-> Null, wallet |-> Null ]

TypeOK ==
  /\ status \in [ Request -> OptionalStatus ]
  /\ receipt \in [ Request -> BOOLEAN ]
  /\ settlement \in [ Request -> SettlementStatus \cup { Null } ]
  /\ payee \in [ Request -> Wallet \cup { Null } ]
  /\ history \in [ Request -> Seq(LogEntry) ]
  /\ wallet \in Wallet \cup { Null }
  /\ registered \in SUBSET Wallet
  /\ pc \in [ Request -> PC ]
  /\ key \in [ Request -> Reference \cup { Null } ]
  /\ alternate \in [ Request -> Reference \cup { Null } ]
  /\ target \in [ Request -> Request ]
  /\ loaded \in [ Request -> Loaded ]
  /\ work \in [ Request -> Work ]
  /\ task \in [ Request -> TaskState ]
  /\ tries \in [ Request -> 0..MaxRetries ]
  /\ plan \in [ Request -> Plan ]
  /\ charge \in [ Request -> ChargeOutcome \cup { "none" } ]
  /\ sent \in [ Request -> Nat ]
  /\ sentTo \in [ Request -> Wallet \cup { Null } ]
  /\ faults \in 0..MaxFaults

Init ==
  /\ status     = [ t \in Request |-> "NONE" ]
  /\ receipt    = [ t \in Request |-> FALSE ]
  /\ settlement = [ t \in Request |-> Null ]
  /\ payee      = [ t \in Request |-> Null ]
  /\ history    = [ t \in Request |-> << >> ]
  /\ wallet     = Null
  /\ registered = {}
  /\ pc         = [ r \in Request |-> "idle" ]
  /\ key        = [ r \in Request |-> Null ]
  /\ alternate  = [ r \in Request |-> Null ]
  /\ target     = [ r \in Request |-> r ]
  /\ loaded     = [ r \in Request |-> NothingLoaded ]
  /\ work       = [ r \in Request |-> NoWork ]
  /\ task       = [ r \in Request |-> "none" ]
  /\ tries      = [ r \in Request |-> 0 ]
  /\ plan       = [ r \in Request |-> NoPlan ]
  /\ charge     = [ r \in Request |-> "none" ]
  /\ sent       = [ t \in Request |-> 0 ]
  /\ sentTo     = [ t \in Request |-> Null ]
  /\ faults     = 0

-----------------------------------------------------------------------------
(* What the database decides *)

\* The committed row of payment t is stored under reference p.
Stored(t, p) == status[t] # "NONE" /\ key[t] = p

\* The points at which a request has flushed a new payment, or an update of an
\* existing one, and holds its key and its row until it commits or rolls back.
HoldsKey == { "inserted", "settle", "commit" }

HoldsRowForEver == { "settle", "commit", "done" }
HoldsRow        == { "settle", "commit" }

KeyFreeIgnored(p) == TRUE

\* No other session is inserting a payment under reference p.
KeyFree(p) == \A r \in Request : pc[r] \in HoldsKey => key[r] # p

RowFreeOfRequests(t) == \A r \in Request : target[r] = t => pc[r] \notin HoldsRow

\* No session has an uncommitted update of payment t's row.
RowFree(t) ==
  \A r \in Request :
    target[r] = t => pc[r] \notin HoldsRow /\ task[r] # "transferred"

\* Request r, until now idle, has loaded payment t and goes on at `next`.
Load(r, t, next) ==
  /\ pc[r] = "idle"
  /\ pc' = [ pc EXCEPT ![r] = next ]
  /\ target' = [ target EXCEPT ![r] = t ]
  /\ loaded' = [ loaded EXCEPT ![r] =
                   [ status |-> status[t], receipt |-> receipt[t] ] ]
  /\ UNCHANGED << databaseVars, walletVars, key, alternate, work, taskVars,
                  outsideVars, faults >>

-----------------------------------------------------------------------------
(* create_payment *)

(* The request looks its key up and finds no payment. *)
BeginCreate(r, k, m) ==
  /\ pc[r] = "idle"
  /\ ~ \E t \in Request : Stored(t, k)
  /\ key' = [ key EXCEPT ![r] = k ]
  /\ alternate' = [ alternate EXCEPT ![r] = m ]
  /\ pc' = [ pc EXCEPT ![r] = IF m = k THEN "insert" ELSE "lookup_alternate" ]
  /\ UNCHANGED << databaseVars, walletVars, target, loaded, work, taskVars,
                  outsideVars, faults >>

(* With a key of its own, it then looks for the merchant's reference, and  *)
(* answers with the payment stored under it if there is one.               *)
LookupAlternate(r) ==
  /\ pc[r] = "lookup_alternate"
  /\ pc' = [ pc EXCEPT ![r] =
               IF \E t \in Request : Stored(t, alternate[r])
               THEN "done" ELSE "insert" ]
  /\ UNCHANGED << databaseVars, walletVars, key, alternate, target, loaded,
                  work, taskVars, outsideVars, faults >>

(* INSERT of the payment as PROCESSING, flushed before the gateway is      *)
(* called.  The unique constraint on (merchant_id, merchant_reference)     *)
(* makes it wait for a concurrent insert, and refuses it (409) when a      *)
(* payment was committed under the key since the lookup.                   *)
Insert(r) ==
  /\ pc[r] = "insert"
  /\ KeyFree(key[r])
  /\ IF \E t \in Request : Stored(t, key[r])
     THEN /\ pc' = [ pc EXCEPT ![r] = "done" ]
          /\ UNCHANGED work
     ELSE /\ pc' = [ pc EXCEPT ![r] = "inserted" ]
          /\ work' = [ work EXCEPT ![r] =
                         [ NoWork EXCEPT !.status = "PROCESSING",
                                         !.log = << << "NONE", "PROCESSING" >> >> ] ]
  /\ alternate' = [ alternate EXCEPT ![r] = Null ]
  /\ UNCHANGED << databaseVars, walletVars, key, target, loaded,
                  taskVars, outsideVars, faults >>

ChargeStatusOfInvoice(outcome) ==
  CASE outcome \in { "captured", "invoiced" } -> "CAPTURED"
    [] outcome = "signature"                  -> "AUTHORIZED"
    [] OTHER                                  -> "FAILED"

\* The status a charge outcome leads to.  "invoiced" is NOWPayments: the
\* customer has yet to pay a hosted invoice, and charge() reports no success.
\* "captured" covers a pre-authorisation without signature: the service does
\* not look at the gateway's status.
ChargeStatus(outcome) ==
  CASE outcome = "captured"  -> "CAPTURED"
    [] outcome = "signature" -> "AUTHORIZED"
    [] OTHER                 -> "FAILED"

\* The session's writes after the gateway answered.
Answered(w, to) ==
  [ w EXCEPT !.status = to,
             !.log = Append(@, << "PROCESSING", to >>),
             !.receipt = (to = "CAPTURED") ]

(* await gateway.charge(...), and what the service writes of the result.   *)
Charge(r) ==
  \E outcome \in ChargeOutcome :
    LET to == ChargeStatus(outcome) IN
    /\ pc[r] = "inserted"
    /\ charge' = [ charge EXCEPT ![r] = outcome ]
    /\ work' = [ work EXCEPT ![r] = Answered(@, to) ]
    /\ pc' = [ pc EXCEPT ![r] = IF to = "CAPTURED" THEN "settle" ELSE "commit" ]
    /\ UNCHANGED << databaseVars, walletVars, key, alternate, target, loaded,
                    taskVars, sent, sentTo, faults >>

-----------------------------------------------------------------------------
(* complete_signature *)

SignLoad(r, t) ==
  /\ status[t] = "AUTHORIZED"
  /\ Load(r, t, "sign")

ReceiptConflictIgnored(r) == FALSE

\* receipts.transaction_id is unique.
ReceiptConflict(r) == receipt[target[r]] /\ ~loaded[r].receipt

(* The capture is flushed, which takes the row, and then the receipt: a    *)
(* second receipt for the payment is refused and the request rolls back.   *)
SignWrite(r) ==
  LET t == target[r] IN
  /\ pc[r] = "sign"
  /\ RowFree(t)
  /\ IF ReceiptConflict(r)
     THEN /\ pc' = [ pc EXCEPT ![r] = "done" ]
          /\ UNCHANGED work
     ELSE /\ pc' = [ pc EXCEPT ![r] = "settle" ]
          /\ work' = [ work EXCEPT ![r] =
                         [ status |-> "CAPTURED",
                           log |-> << << loaded[r].status, "CAPTURED" >> >>,
                           receipt |-> TRUE,
                           settlement |-> settlement[t],
                           payee |-> payee[t] ] ]
  /\ loaded' = [ loaded EXCEPT ![r] = NothingLoaded ]
  /\ UNCHANGED << databaseVars, walletVars, key, alternate, target, taskVars,
                  outsideVars, faults >>

-----------------------------------------------------------------------------
(* _try_settle, and the end of a request that wrote a payment *)

InlineOutcome(r) ==
  EngineOutcome(work[r].settlement, wallet, key[target[r]] \notin Unquoted)

\* The session's writes after the engine ran in it.
Settled(w, outcome) ==
  [ status     |-> EngineStatus(w.status, outcome),
    log        |-> w.log \o EngineLog(w.status, outcome),
    receipt    |-> w.receipt,
    settlement |-> EngineSettlement(w.settlement, outcome),
    payee      |-> EnginePayee(w.settlement, w.payee, wallet, outcome) ]

DeferredUnderReview(w, outcome) ==
  [ Settled(w, outcome) EXCEPT
      !.log = Append(@, << "CAPTURED", "SETTLEMENT_PENDING" >>) ]

DeferredUnlogged(w, outcome) ==
  [ Settled(w, outcome) EXCEPT !.status = "SETTLEMENT_PENDING" ]

\* ... and after its exception was caught: whatever the engine had flushed
\* stays, and the payment waits for the task.
Deferred(w, outcome) ==
  [ Settled(w, outcome) EXCEPT
      !.status = "SETTLEMENT_PENDING",
      !.log = Append(@, << "CAPTURED", "SETTLEMENT_PENDING" >>) ]

(* The engine pays the merchant in the request's own transaction.          *)
Settle(r) ==
  LET t == target[r] IN
  /\ pc[r] = "settle"
  /\ InlineOutcome(r) \in { "sent", "already" }
  /\ work' = [ work EXCEPT ![r] = Settled(@, InlineOutcome(r)) ]
  /\ IF InlineOutcome(r) = "sent"
     THEN /\ sent' = [ sent EXCEPT ![t] = @ + 1 ]
          /\ sentTo' = [ sentTo EXCEPT ![t] = wallet ]
     ELSE UNCHANGED << sent, sentTo >>
  /\ pc' = [ pc EXCEPT ![r] = "commit" ]
  /\ UNCHANGED << databaseVars, walletVars, key, alternate, target, loaded,
                  taskVars, charge, faults >>

PublishNothing(r) == UNCHANGED << task, faults >>

\* settle_transaction.delay(); a broker that is down is only logged.
Publish(r) ==
  \/ /\ task' = [ task EXCEPT ![r] = "queued" ]
     /\ UNCHANGED faults
  \/ /\ faults < MaxFaults
     /\ faults' = faults + 1
     /\ task' = [ task EXCEPT ![r] = "unpublished" ]

(* The engine raised: the task is published before the request commits.    *)
Defer(r) ==
  /\ pc[r] = "settle"
  /\ InlineOutcome(r) \notin { "sent", "already" }
  /\ work' = [ work EXCEPT ![r] = Deferred(@, InlineOutcome(r)) ]
  /\ Publish(r)
  /\ pc' = [ pc EXCEPT ![r] = "commit" ]
  /\ UNCHANGED << databaseVars, walletVars, key, alternate, target, loaded,
                  tries, plan, outsideVars >>

(* session.commit(), explicit or of get_db_session.                        *)
Commit(r) ==
  LET t == target[r] IN
  /\ pc[r] = "commit"
  /\ status'     = [ status EXCEPT ![t] = work[r].status ]
  /\ receipt'    = [ receipt EXCEPT ![t] = @ \/ work[r].receipt ]
  /\ settlement' = [ settlement EXCEPT ![t] = work[r].settlement ]
  /\ payee'      = [ payee EXCEPT ![t] = work[r].payee ]
  /\ history'    = [ history EXCEPT ![t] = @ \o work[r].log ]
  /\ pc'         = [ pc EXCEPT ![r] = "done" ]
  /\ work'       = [ work EXCEPT ![r] = NoWork ]
  /\ UNCHANGED << walletVars, key, alternate, target, loaded, taskVars,
                  outsideVars, faults >>

-----------------------------------------------------------------------------
(* cancel_payment, refund_payment and handle_nowpayments_webhook.  Each    *)
(* loads the payment, decides on what it loaded, and then writes; the      *)
(* write and the commit are one step, as nothing outside the database      *)
(* happens between them.                                                   *)

\* Request r overwrites its payment's status, adds the log rows, commits.
Overwrite(r, to, log) ==
  LET t == target[r] IN
  /\ RowFree(t)
  /\ status' = [ status EXCEPT ![t] = to ]
  /\ history' = [ history EXCEPT ![t] = @ \o log ]
  /\ pc' = [ pc EXCEPT ![r] = "done" ]
  /\ loaded' = [ loaded EXCEPT ![r] = NothingLoaded ]
  /\ UNCHANGED << receipt, settlement, payee, walletVars, key, alternate,
                  target, work, taskVars, outsideVars, faults >>

CancelLoad(r, t) ==
  /\ AssertTransition(status[t], "CANCELLED")
  /\ Load(r, t, "cancel")

CancelWrite(r) ==
  /\ pc[r] = "cancel"
  /\ Overwrite(r, "CANCELLED", << << loaded[r].status, "CANCELLED" >> >>)

RefundableOnceAuthorized ==
  { "AUTHORIZED", "CAPTURED", "SUCCESS", "SETTLEMENT_COMPLETE",
    "SETTLEMENT_PENDING", "COMPLETED" }

Refundable ==
  { "CAPTURED", "SUCCESS", "SETTLEMENT_COMPLETE", "SETTLEMENT_PENDING",
    "COMPLETED" }

RefundLoad(r, t) ==
  /\ status[t] \in Refundable
  /\ Load(r, t, "refund")

(* await gateway.refund(...).  The sandbox accepts every refund,           *)
(* NOWPayments refuses every one; a declined charge may be of a gateway    *)
(* that left no reference to refund.                                       *)
RefundGateway(r) ==
  /\ pc[r] = "refund"
  /\ charge[target[r]] # "invoiced"
  /\ pc' = [ pc EXCEPT ![r] = "refunded" ]
  /\ UNCHANGED << databaseVars, walletVars, key, alternate, target, loaded,
                  work, taskVars, outsideVars, faults >>

RefundRefused(r) ==
  /\ pc[r] = "refund"
  /\ charge[target[r]] \in { "invoiced", "declined" }
  /\ pc' = [ pc EXCEPT ![r] = "done" ]
  /\ loaded' = [ loaded EXCEPT ![r] = NothingLoaded ]
  /\ UNCHANGED << databaseVars, walletVars, key, alternate, target, work,
                  taskVars, outsideVars, faults >>

RefundWrite(r) ==
  /\ pc[r] = "refunded"
  /\ Overwrite(r, "REFUNDED", << << loaded[r].status, "REFUNDED" >> >>)

\* What an IPN makes of the status it finds; it leaves any other alone.
IPNStatus(s, success) ==
  CASE success /\ s \in { "FAILED", "PROCESSING", "PENDING" } -> "CAPTURED"
    [] ~success /\ s \in { "PROCESSING", "PENDING" }          -> "FAILED"
    [] OTHER                                                  -> s

\* What a Moyasar webhook makes of it.
MoyasarStatus(s, success) ==
  CASE success /\ s = "FAILED"                        -> "CAPTURED"
    [] ~success /\ s \in { "PROCESSING", "PENDING" } -> "FAILED"
    [] OTHER                                         -> s

\* A webhook that gives payment t another status.
Notify(r, t, to) ==
  /\ to # status[t]
  /\ pc[r] = "idle"
  /\ pc' = [ pc EXCEPT ![r] = "webhook" ]
  /\ target' = [ target EXCEPT ![r] = t ]
  /\ work' = [ work EXCEPT ![r] = [ NoWork EXCEPT !.status = to ] ]
  /\ UNCHANGED << databaseVars, walletVars, key, alternate, loaded, taskVars,
                  outsideVars, faults >>

(* NOWPayments reports on an invoice.  It names the payment by order_id,   *)
(* the reference the invoice was made for, whichever payment is stored     *)
(* under it now.                                                           *)
WebhookLoad(r, t, success) ==
  /\ \E i \in Request : charge[i] = "invoiced" /\ Stored(t, key[i])
  /\ Notify(r, t, IPNStatus(status[t], success))

(* Moyasar reports on a charge it answered without success, because it was *)
(* refused or because the customer had yet to confirm it.  It names the    *)
(* payment by the gateway's own reference.                                 *)
MoyasarLoad(r, t, success) ==
  /\ charge[t] = "declined"
  /\ Notify(r, t, MoyasarStatus(status[t], success))

(* No status log, no receipts row and no settlement.                       *)
WebhookWrite(r) ==
  LET t == target[r] IN
  /\ pc[r] = "webhook"
  /\ RowFree(t)
  /\ status' = [ status EXCEPT ![t] = work[r].status ]
  /\ pc' = [ pc EXCEPT ![r] = "done" ]
  /\ work' = [ work EXCEPT ![r] = NoWork ]
  /\ UNCHANGED << receipt, settlement, payee, history, walletVars, key,
                  alternate, target, loaded, taskVars, outsideVars, faults >>

-----------------------------------------------------------------------------
(* MerchantService.add_wallet with is_primary: the wallet replaces the     *)
(* primary one.  wallet address+network is unique.                         *)

AddWallet(w) ==
  /\ w \notin registered
  /\ registered' = registered \cup { w }
  /\ wallet' = w
  /\ UNCHANGED << databaseVars, requestVars, taskVars, outsideVars, faults >>

-----------------------------------------------------------------------------
(* The Celery task: _settle in a session of its own *)

TaskOutcome(r) ==
  EngineOutcome(plan[r].settlement, plan[r].wallet,
                key[target[r]] \notin Unquoted)

(* The engine loads the payment and finds it eligible.                     *)
TaskLoad(r) ==
  /\ task[r] = "queued"
  /\ status[target[r]] \in Eligible
  /\ task' = [ task EXCEPT ![r] = "loaded" ]
  /\ plan' = [ plan EXCEPT ![r] = [ NoPlan EXCEPT !.status = status[target[r]] ] ]
  /\ UNCHANGED << databaseVars, walletVars, requestVars, tries, outsideVars,
                  faults >>

(* It reads the settlement row, then the primary wallet.                   *)
TaskPlan(r) ==
  /\ task[r] = "loaded"
  /\ settlement[target[r]] # "COMPLETED"
  /\ wallet # Null
  /\ task' = [ task EXCEPT ![r] = "planned" ]
  /\ plan' = [ plan EXCEPT ![r] =
                 [ @ EXCEPT !.settlement = settlement[target[r]],
                            !.wallet = wallet ] ]
  /\ UNCHANGED << databaseVars, walletVars, requestVars, tries, outsideVars,
                  faults >>

(* The settlement is completed already: there is nothing to commit.        *)
TaskReturn(r) ==
  /\ task[r] = "loaded"
  /\ settlement[target[r]] = "COMPLETED"
  /\ task' = [ task EXCEPT ![r] = "done" ]
  /\ plan' = [ plan EXCEPT ![r] = NoPlan ]
  /\ UNCHANGED << databaseVars, walletVars, requestVars, tries, outsideVars,
                  faults >>

SettlementConflictAlways(r) == settlement[target[r]] # Null

\* crypto_settlements.transaction_id is unique: the row the task inserts,
\* having found none, was committed by another session meanwhile.
SettlementConflict(r) ==
  plan[r].settlement = Null /\ settlement[target[r]] # Null

DestinationNow(r) == wallet

\* The transfer goes to the wallet the engine has read, though the merchant may
\* have replaced it since.
Destination(r) == plan[r].wallet

(* SETTLEMENT_PROCESSING is flushed, which takes the row, then the         *)
(* settlement row; then the wallet provider transfers.                     *)
TaskTransfer(r) ==
  LET t == target[r] IN
  /\ task[r] = "planned"
  /\ RowFree(t)
  /\ TaskOutcome(r) = "sent"
  /\ ~SettlementConflict(r)
  /\ sent' = [ sent EXCEPT ![t] = @ + 1 ]
  /\ sentTo' = [ sentTo EXCEPT ![t] = Destination(r) ]
  /\ task' = [ task EXCEPT ![r] = "transferred" ]
  /\ UNCHANGED << databaseVars, walletVars, requestVars, tries, plan, charge,
                  faults >>

\* Where prepare_and_settle raises: the payment is missing or not eligible,
\* there is no wallet, or the transfer step fails in one of its ways.
TaskRaises(r) ==
  \/ task[r] = "queued" /\ status[target[r]] \notin Eligible
  \/ task[r] = "loaded" /\ settlement[target[r]] # "COMPLETED" /\ wallet = Null
  \/ /\ task[r] = "planned"
     /\ RowFree(target[r])
     /\ TaskOutcome(r) # "sent" \/ SettlementConflict(r)

MayRetryOnceMore(r) == tries[r] =< MaxRetries

\* self.retry() publishes the task again, or raises.
MayRetry(r) == tries[r] < MaxRetries

(* The session is rolled back and the task retried, until its retries are  *)
(* used up.                                                                *)
TaskRetry(r) ==
  /\ TaskRaises(r)
  /\ IF MayRetry(r)
     THEN /\ task' = [ task EXCEPT ![r] = "queued" ]
          /\ tries' = [ tries EXCEPT ![r] = @ + 1 ]
     ELSE /\ task' = [ task EXCEPT ![r] = "exhausted" ]
          /\ UNCHANGED tries
  /\ plan' = [ plan EXCEPT ![r] = NoPlan ]
  /\ UNCHANGED << databaseVars, walletVars, requestVars, outsideVars, faults >>

(* _settle commits.                                                        *)
TaskCommit(r) ==
  LET t == target[r]
      p == plan[r]
  IN
  /\ task[r] = "transferred"
  /\ status' = [ status EXCEPT ![t] = EngineStatus(p.status, "sent") ]
  /\ history' = [ history EXCEPT ![t] = @ \o EngineLog(p.status, "sent") ]
  /\ settlement' = [ settlement EXCEPT ![t] =
                       EngineSettlement(p.settlement, "sent") ]
  /\ payee' = [ payee EXCEPT ![t] =
                  EnginePayee(p.settlement, @, p.wallet, "sent") ]
  /\ task' = [ task EXCEPT ![r] = "committed" ]
  /\ plan' = [ plan EXCEPT ![r] = NoPlan ]
  /\ UNCHANGED << receipt, walletVars, requestVars, tries, outsideVars, faults >>

(* task_acks_late: the message is acknowledged once the task has returned. *)
TaskAck(r) ==
  /\ task[r] = "committed"
  /\ task' = [ task EXCEPT ![r] = "done" ]
  /\ UNCHANGED << databaseVars, walletVars, requestVars, tries, plan,
                  outsideVars, faults >>

-----------------------------------------------------------------------------
(* Faults *)

(* The request's process dies, its database connection does, or an         *)
(* exception nobody catches rolls its session back: the gateway adapters   *)
(* catch network errors only, and a charge also raises where the answer is *)
(* no JSON (nowpayments.py:93, moyasar.py:84), with or without a charge    *)
(* made.                                                                   *)
Crash(r) ==
  /\ pc[r] \in Running
  /\ faults < MaxFaults
  /\ faults' = faults + 1
  /\ pc' = [ pc EXCEPT ![r] = "crashed" ]
  /\ work' = [ work EXCEPT ![r] = NoWork ]
  /\ loaded' = [ loaded EXCEPT ![r] = NothingLoaded ]
  /\ UNCHANGED << databaseVars, walletVars, key, alternate, target, taskVars,
                  outsideVars >>

(* The worker dies with the message unacknowledged.  The broker delivers   *)
(* it again; when only the child process died, Celery acknowledges it and  *)
(* the task is lost (task_reject_on_worker_lost is not set).               *)
TaskCrash(r) ==
  /\ task[r] \in TaskRunning
  /\ faults < MaxFaults
  /\ faults' = faults + 1
  /\ \E next \in { "queued", "lost" } : task' = [ task EXCEPT ![r] = next ]
  /\ plan' = [ plan EXCEPT ![r] = NoPlan ]
  /\ UNCHANGED << databaseVars, walletVars, requestVars, tries, outsideVars >>

-----------------------------------------------------------------------------

(* A step of a request or a task that has begun.                           *)
RequestStep(r) ==
  \/ LookupAlternate(r) \/ Insert(r) \/ Charge(r)
  \/ SignWrite(r) \/ Settle(r) \/ Defer(r) \/ Commit(r)
  \/ CancelWrite(r)
  \/ RefundGateway(r) \/ RefundRefused(r) \/ RefundWrite(r)
  \/ WebhookWrite(r)

TaskStep(r) ==
  \/ TaskLoad(r) \/ TaskPlan(r) \/ TaskReturn(r) \/ TaskTransfer(r)
  \/ TaskRetry(r) \/ TaskCommit(r) \/ TaskAck(r)

(* A request arrives.                                                      *)
Begin(r) ==
  \/ \E k, m \in Reference : BeginCreate(r, k, m)
  \/ \E t \in Request :
       \/ SignLoad(r, t) \/ CancelLoad(r, t) \/ RefundLoad(r, t)
       \/ \E success \in BOOLEAN :
            WebhookLoad(r, t, success) \/ MoyasarLoad(r, t, success)

Next ==
  \/ \E r \in Request :
       \/ Begin(r) \/ RequestStep(r) \/ TaskStep(r)
       \/ Crash(r) \/ TaskCrash(r)
  \/ \E w \in Wallet : AddWallet(w)

Spec == Init /\ [][Next]_vars

(* The event loop resumes every request whose await is over, PostgreSQL    *)
(* grants a lock that is free, and the workers keep consuming the queue.   *)
(* Nobody has to send a request or register a wallet, and nothing crashes  *)
(* by obligation.                                                          *)
Fairness ==
  \A r \in Request : WF_vars(RequestStep(r)) /\ WF_vars(TaskStep(r))

FairSpec == Spec /\ Fairness

=============================================================================
