-------------------------- MODULE PaymentInvariant --------------------------
(***************************************************************************)
(* The inductive invariant behind the safety properties of Payments.       *)
(* IInv is its core: who owns a key, who owns a row, and what a session    *)
(* may commit.  PaymentInv adds receipts, pending settlements, histories,  *)
(* how often a payment is transferred, and to which wallets.               *)
(***************************************************************************)
EXTENDS PaymentProperties, FiniteSets

\* Payment t has a committed row.
Committed(t) == status[t] # "NONE"

\* Requests that create a payment work on their own, the others have no key,
\* and nothing is enqueued before a request has begun.
KeysNameCreators ==
  \A r \in Request :
    /\ pc[r] = "idle" => key[r] = Null /\ target[r] = r /\ task[r] = "none"
    /\ pc[r] \in { "lookup_alternate", "insert", "inserted" } => key[r] # Null
    /\ pc[r] \in { "sign", "cancel", "refund", "refunded", "webhook" }
         => key[r] = Null
    /\ key[r] # Null => target[r] = r

\* A committed payment was committed by the request that created it, and every
\* other session works on a committed payment.
CommittedByCreator ==
  /\ \A t \in Request : Committed(t) => key[t] # Null /\ pc[t] = "done"
  /\ \A r \in Request :
       /\ key[r] = Null /\ pc[r] \in Running => Committed(target[r])
       /\ task[r] \in { "loaded", "planned", "transferred" }
            => Committed(target[r])

\* A charge was made by a request that holds its key, has committed its
\* payment, or died.
ChargesOnRecord ==
  \A r \in Request :
    charge[r] # "none" =>
      /\ key[r] # Null
      /\ pc[r] \in { "settle", "commit", "done", "crashed" }
      /\ pc[r] = "done" => Committed(r)

\* Payment r is flushed or committed under its key.
OwnsKey(r) == key[r] # Null /\ (pc[r] \in HoldsKey \/ Committed(r))

OneOwnerPerKey ==
  \A r1, r2 \in Request :
    OwnsKey(r1) /\ OwnsKey(r2) /\ key[r1] = key[r2] => r1 = r2

\* The request, or the task, r has an uncommitted update of its payment's row.
OwnsRow(r) == pc[r] \in HoldsRow \/ task[r] = "transferred"

OneOwnerPerRow ==
  /\ \A r1, r2 \in Request :
       OwnsRow(r1) /\ OwnsRow(r2) /\ target[r1] = target[r2] => r1 = r2
  /\ \A r \in Request : ~(pc[r] \in HoldsRow /\ task[r] = "transferred")

\* The statuses another session may see.
VisibleStatus ==
  { "AUTHORIZED", "CAPTURED", "FAILED", "CANCELLED", "REFUNDED",
    "SETTLEMENT_PENDING", "COMPLETED" }

\* What a request has flushed may be committed as it is.
WorkIsVisible ==
  \A r \in Request :
    /\ pc[r] = "settle" => work[r].status = "CAPTURED"
    /\ pc[r] = "commit" => work[r].status \in VisibleStatus
    /\ pc[r] = "webhook" => work[r].status \in { "CAPTURED", "FAILED" }

\* A settlement that is completed, in the database or in the session that owns
\* the row, was paid out; such a session never takes a completed one back.
PayoutsOnRecord ==
  /\ \A t \in Request :
       settlement[t] = "COMPLETED" => Committed(t) /\ sent[t] > 0
  /\ \A r \in Request :
       /\ pc[r] = "inserted" => work[r].settlement = Null
       /\ pc[r] \in HoldsRow =>
            /\ settlement[target[r]] = "COMPLETED"
                 => work[r].settlement = "COMPLETED"
            /\ work[r].settlement = "COMPLETED" => sent[target[r]] > 0
            /\ work[r].status = "COMPLETED" => work[r].settlement = "COMPLETED"
       /\ task[r] = "transferred" => sent[target[r]] > 0

IInv ==
  /\ TypeOK
  /\ KeysNameCreators
  /\ CommittedByCreator
  /\ ChargesOnRecord
  /\ OneOwnerPerKey
  /\ OneOwnerPerRow
  /\ WorkIsVisible
  /\ PayoutsOnRecord
  /\ OnlySettledStatusesCommitted
  /\ CompletedMeansPaidOut

-----------------------------------------------------------------------------
(* What is written of a payment: its receipt, its tasks, its history. *)

\* The gateway accepted the charge of payment t.
Accepted(t) == charge[t] \in { "signature", "captured" }

CapturedStatus == { "CAPTURED", "SETTLEMENT_PENDING", "COMPLETED" }

\* The three ways in which a request's writes may end.
Declined(r) == work[r].status = "FAILED" /\ ~Accepted(target[r])
Authorized(r) == work[r].status = "AUTHORIZED" /\ Accepted(target[r])
Captured(r) == work[r].status \in CapturedStatus /\ Accepted(target[r])

\* The receipt comes with the capture of an accepted charge, once ...
ReceiptOf(t) ==
  /\ status[t] = "AUTHORIZED" => Accepted(t) /\ ~receipt[t]
  /\ status[t] = "FAILED" => ~Accepted(t)
  /\ status[t] = "CAPTURED" /\ Accepted(t) => receipt[t]
  /\ status[t] \in { "SETTLEMENT_PENDING", "COMPLETED" } => receipt[t]
  /\ receipt[t] => Accepted(t) /\ Committed(t)
  /\ sent[t] > 0 => Accepted(t)

\* ... and an IPN captures only payments that were never accepted.
ReceiptBy(r) ==
  /\ pc[r] = "sign" =>
       /\ Accepted(target[r])
       /\ loaded[r] = [ status |-> "AUTHORIZED", receipt |-> FALSE ]
  /\ pc[r] \in HoldsRow => ~receipt[target[r]]
  /\ pc[r] = "settle" => Captured(r) /\ work[r].receipt
  /\ pc[r] = "commit" =>
       IF work[r].receipt THEN Captured(r) ELSE Declined(r) \/ Authorized(r)
  /\ pc[r] = "webhook" => work[r].status = "CAPTURED" /\ ~Accepted(target[r])

\* A task works for an accepted charge, and on a payment with its receipt.
ReceiptForTask(r) ==
  /\ task[r] # "none" => Accepted(target[r])
  /\ task[r] \in { "loaded", "planned", "transferred" } => receipt[target[r]]

ReceiptsFollowCharges ==
  /\ \A t \in Request : ReceiptOf(t)
  /\ \A r \in Request : ReceiptBy(r) /\ ReceiptForTask(r)

\* The task of request r was enqueued and has not succeeded.
Unsuccessful(r) == task[r] \notin { "none", "done" }

\* A request that leaves the settlement pending has a task that has not
\* succeeded; a task that has succeeded leaves a completed settlement.
PendingBy(r) ==
  /\ pc[r] = "commit" /\ work[r].status = "SETTLEMENT_PENDING" =>
       work[r].settlement # "COMPLETED" /\ Unsuccessful(r)
  /\ task[r] = "committed" => settlement[target[r]] = "COMPLETED"

PendingIsUnsettled ==
  /\ \A r \in Request : PendingBy(r)
  /\ \A t \in Request :
       status[t] = "SETTLEMENT_PENDING" =>
         /\ settlement[t] # "COMPLETED"
         /\ \E r \in Request : target[r] = t /\ Unsuccessful(r)

Allowed(log) == \A i \in DOMAIN log : AssertTransition(log[i][1], log[i][2])

EndsAt(log, s) == log # << >> /\ log[Len(log)][2] = s

\* What a session has logged is allowed, ends at the status it writes, and
\* begins with the payment or with the authorization it captures; what it has
\* read it may leave.
LogBy(r) ==
  /\ pc[r] = "inserted" => work[r].log = << << "NONE", "PROCESSING" >> >>
  /\ pc[r] \in HoldsRow =>
       /\ Allowed(work[r].log)
       /\ EndsAt(work[r].log, work[r].status)
       /\ \/ work[r].log[1][1] = "NONE"
          \/ /\ work[r].log[1][1] = "AUTHORIZED"
             /\ work[r].status \in CapturedStatus
  /\ pc[r] = "cancel" => AssertTransition(loaded[r].status, "CANCELLED")
  /\ pc[r] \in { "refund", "refunded" } => loaded[r].status \in Refundable
  /\ task[r] \in { "loaded", "planned", "transferred" } =>
       plan[r].status \in { "CAPTURED", "SETTLEMENT_PENDING" }

LogsAreAllowed ==
  /\ \A r \in Request : LogBy(r)
  /\ \A t \in Request :
       /\ Allowed(history[t])
       /\ status[t] \notin { "NONE", "CAPTURED" } => EndsAt(history[t], status[t])

-----------------------------------------------------------------------------
(* How often a payment is transferred, and to whom *)

\* The tasks of payment t that have yet to make their transfer.
Outstanding(t) ==
  { r \in Request : target[r] = t /\ task[r] \in { "queued", "loaded", "planned" } }

\* The capture of payment t is neither committed nor about to be: a request has
\* yet to settle it, or to enqueue a task that does.
Uncaptured(t) ==
  /\ ~receipt[t]
  /\ \A r \in Request : target[r] = t /\ pc[r] = "commit" => ~work[r].receipt

TransfersToCome(t) ==
  Cardinality(Outstanding(t)) + (IF Uncaptured(t) THEN 1 ELSE 0)

\* What was transferred and may still be is one, and one for each fault.
TransfersCounted ==
  \A t \in Request :
    IsFiniteSet(Outstanding(t)) /\ sent[t] + TransfersToCome(t) <= 1 + faults

Crashed == { r \in Request : pc[r] = "crashed" }

\* Every request that has crashed was one fault.
CrashesCounted == IsFiniteSet(Crashed) /\ Cardinality(Crashed) <= faults

\* A task is enqueued by a request that was about to commit, and only once.
TasksFollowCommits ==
  \A r \in Request : task[r] # "none" => pc[r] \in { "commit", "done", "crashed" }

\* A settlement row names a wallet of the merchant, from the first flush on.
Names(row, w) == IF row = Null THEN w = Null ELSE w \in registered

\* Whatever wallet a session or a task has read is registered, and a task that
\* found a settlement row finds it still.
WalletsRegistered ==
  /\ wallet \in registered \cup { Null }
  /\ \A t \in Request :
       /\ Names(settlement[t], payee[t])
       /\ sent[t] > 0 => sentTo[t] \in registered \cap ValidAddress
  /\ \A r \in Request :
       /\ pc[r] \in HoldsKey => Names(work[r].settlement, work[r].payee)
       /\ task[r] \in { "planned", "transferred" } =>
            /\ plan[r].wallet \in registered
            /\ plan[r].settlement # Null => settlement[target[r]] # Null

\* A settlement row names the wallet that was paid, or one that never can be,
\* which a failed attempt has left there.
NamesPaid(row, w, paid) ==
  row # Null => w \notin ValidAddress \/ (row = "COMPLETED" /\ w = paid)

\* Whoever read a row before it was completed read one of a failed attempt; a
\* task that has transferred paid its plan's wallet, and the row is as planned.
PayeesOnRecord ==
  /\ \A t \in Request : NamesPaid(settlement[t], payee[t], sentTo[t])
  /\ \A r \in Request :
       /\ pc[r] \in HoldsKey =>
            NamesPaid(work[r].settlement, work[r].payee, sentTo[target[r]])
       /\ task[r] \in { "planned", "transferred" } /\ plan[r].settlement # Null
            => payee[target[r]] \notin ValidAddress
       /\ task[r] = "transferred" =>
            /\ sentTo[target[r]] = plan[r].wallet
            /\ plan[r].settlement = Null => settlement[target[r]] = Null

\* All that is known of a reachable state.
PaymentInv ==
  /\ IInv
  /\ ReceiptsFollowCharges
  /\ PendingIsUnsettled
  /\ LogsAreAllowed
  /\ TransfersCounted
  /\ WalletsRegistered
  /\ PayeesOnRecord
  /\ CrashesCounted
  /\ TasksFollowCommits

=============================================================================
