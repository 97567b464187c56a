------------------------- MODULE PaymentProperties -------------------------
(***************************************************************************)
(* What Payments has to satisfy, and what the repository's documents say   *)
(* of it that the code does not satisfy.                                   *)
(***************************************************************************)
EXTENDS Payments

-----------------------------------------------------------------------------
(* Charges *)

\* A charge the gateway accepted (or an invoice the customer can pay).
Charged(r) == charge[r] \in { "invoiced", "signature", "captured" }

\* Two requests with the same idempotency key are never both charged.
\* (create_payment; schemas/payment.py: "same key returns existing result
\* instead of double-charging".)
AtMostOneCharge ==
  \A r1, r2 \in Request :
    r1 # r2 /\ Charged(r1) /\ Charged(r2) => key[r1] # key[r2]

\* ... unless one of them died, or was rolled back, between its charge and its
\* commit (pc is "crashed" after both): concurrent requests with one key are
\* serialised by the unique constraint, because create_payment flushes the
\* INSERT before it calls the gateway.
ChargedTwiceOnlyAfterCrash ==
  \A r1, r2 \in Request :
    r1 # r2 /\ Charged(r1) /\ Charged(r2) /\ key[r1] = key[r2]
      => "crashed" \in { pc[r1], pc[r2] }

-----------------------------------------------------------------------------
(* Statuses and their history *)

\* No other session ever sees a payment in a transient status: PROCESSING,
\* SETTLEMENT_PROCESSING and MANUAL_REVIEW are overwritten or rolled back
\* before the commit.  (In particular a settlement that failed is left as
\* SETTLEMENT_PENDING, never as MANUAL_REVIEW.)
OnlySettledStatusesCommitted ==
  \A t \in Request :
    status[t] \in { "NONE", "AUTHORIZED", "CAPTURED", "FAILED", "CANCELLED",
                    "REFUNDED", "SETTLEMENT_PENDING", "COMPLETED" }

\* Every row of transaction_status_logs is a transition of the table, those
\* of refund_payment and of the engine included, which never ask it.
LoggedTransitionsAllowed ==
  \A t \in Request : \A i \in DOMAIN history[t] :
    AssertTransition(history[t][i][1], history[t][i][2])

\* The last row of a payment's history leads to the status it has.
\* (docs/DATABASE.md: "Append-only payment status history".)
HistoryEndsAtStatus ==
  \A t \in Request :
    status[t] # "NONE" => /\ history[t] # << >>
                          /\ history[t][Len(history[t])][2] = status[t]

\* It does for every payment but those a webhook captured, whatever sessions
\* overwrote each other.
HistoryEndsAtStatusUnlessIPN ==
  \A t \in Request :
    status[t] \notin { "NONE", "CAPTURED" } =>
      /\ history[t] # << >>
      /\ history[t][Len(history[t])][2] = status[t]

\* A session that logs as from_status the status it really replaces moves the
\* payment along a path of ALLOWED_TRANSITIONS: a commit breaks the life cycle
\* only when the status it was decided on is stale.
OnlyStaleWritesBreakLifecycle ==
  [][ \A t \in Request :
        LET n == Len(history[t]) IN
        /\ status[t] # "NONE"
        /\ Len(history'[t]) > n
        /\ history'[t][n + 1][1] = status[t]
        => status'[t] \in AllowedPaths[status[t]] ]_vars

\* A cancelled or refunded payment stays so: the table allows no transition
\* from either status.  (payments/state_machine.py, ALLOWED_TRANSITIONS.)
FinalStatusesStay ==
  [][ \A t \in Request :
        status[t] \in { "CANCELLED", "REFUNDED" } => status'[t] = status[t] ]_vars

-----------------------------------------------------------------------------
(* Settlement *)

\* A payment shown as completed has a completed settlement, and a settlement
\* is completed only after a transfer was made for the payment.
CompletedMeansPaidOut ==
  \A t \in Request :
    /\ status[t] = "COMPLETED" => settlement[t] = "COMPLETED"
    /\ settlement[t] = "COMPLETED" => sent[t] > 0

\* The merchant is only ever paid for a payment whose own charge the gateway
\* accepted as a card payment.
OnlyChargedPaymentsPaidOut ==
  \A t \in Request : sent[t] > 0 => charge[t] \in { "signature", "captured" }

\* A payment on its way to the merchant has its receipt, and a receipt is
\* given only for an accepted charge.
SettledPaymentsHaveReceipts ==
  \A t \in Request :
    /\ status[t] \in { "SETTLEMENT_PENDING", "COMPLETED" } => receipt[t]
    /\ receipt[t] => charge[t] \in { "signature", "captured" }

\* A payment committed as SETTLEMENT_PENDING has a task that will still try
\* it, or one that used up its retries, died with its worker or could not be
\* published: _try_settle never defers a settlement to nobody.
PendingHasTask ==
  \A t \in Request :
    status[t] = "SETTLEMENT_PENDING" =>
      \E r \in Request :
        /\ target[r] = t
        /\ task[r] \in TaskRunning \cup
                       { "queued", "exhausted", "lost", "unpublished" }

\* At most one transfer per payment, where nothing fails ...
AtMostOneTransfer == \A t \in Request : sent[t] =< 1

\* ... and at most one more for every crash: a retry, a redelivered message, a
\* second signature or an IPN never adds a transfer by itself, because only the
\* session that gives the receipt enqueues a task, and it enqueues one.
TransfersWithinFaults == \A t \in Request : sent[t] =< 1 + faults

\* Money goes to wallets the merchant has registered and their provider
\* accepts, and a settlement row names a registered one from its insert on.  A
\* completed settlement that names another wallet than the one that was paid
\* names one its provider refuses, left by a failed attempt: whatever wallet is
\* replaced while sessions and tasks are under way, and whatever they read
\* before, a row never names a valid wallet in place of another.
PayeesAccountedFor ==
  \A t \in Request :
    /\ sent[t] > 0 => sentTo[t] \in registered \cap ValidAddress
    /\ settlement[t] # Null => payee[t] \in registered
    /\ settlement[t] = "COMPLETED" /\ payee[t] # sentTo[t]
         => payee[t] \notin ValidAddress

\* The wallet on a completed settlement is the wallet that was paid.
\* (docs/DATABASE.md: merchant_wallets receives crypto_settlements.)
SettlementNamesPaidWallet ==
  \A t \in Request : settlement[t] = "COMPLETED" => payee[t] = sentTo[t]

-----------------------------------------------------------------------------
(* Progress *)

\* Every request ends: nobody waits for ever for a key or for a row.
RequestsEnd ==
  \A r \in Request : pc[r] \in Running ~> pc[r] \in { "done", "crashed" }

\* Every published task ends.
TasksEnd ==
  \A r \in Request :
    task[r] = "queued" ~> task[r] \in { "done", "exhausted", "lost" }

\* While the merchant has a valid primary wallet, a queued task gets its
\* pending payment out of SETTLEMENT_PENDING, whatever an earlier attempt
\* left in the settlement row.
RetriesSettle ==
  \A r \in Request :
    /\ task[r] = "queued"
    /\ status[target[r]] = "SETTLEMENT_PENDING"
    /\ wallet \in ValidAddress
    /\ key[target[r]] \notin Unquoted
    ~> \/ status[target[r]] # "SETTLEMENT_PENDING"
       \/ wallet \notin ValidAddress

\* A captured payment is settled, refunded or cancelled.
\* (docs/DATABASE.md, settlement data flow: captured -> ... -> completed.)
CapturedPaymentsSettle ==
  \A t \in Request : status[t] = "CAPTURED" ~> status[t] # "CAPTURED"

-----------------------------------------------------------------------------

\* The abstract ledger, as the database shows it.
Ledger == INSTANCE PaymentLedger WITH
  Payment <- Request,
  stored  <- [ p \in Reference |-> { t \in Request : Stored(t, p) } ],
  paidOut <- { t \in Request : settlement[t] = "COMPLETED" }

\* The database implements the ledger: at most one payment is ever stored
\* under a reference, none is forgotten, no payout is taken back.
ImplementsLedger == Ledger!Spec

=============================================================================
