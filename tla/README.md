# CryptoPOS backend: TLA+ models, checks and proofs

This directory holds TLA+ models of the backend in `src/app`: a FastAPI service
that takes card payments for merchants, settles them in USDT to the merchant's
wallet, and manages point-of-sale terminals. TLC checks the models on small
instances, and TLAPS proves every safety property of their passing runs for every
instance.

    tlc -workers 2 -config PaymentsFaults.cfg MCPayments   # any cfg of this directory
    tlapm TerminalProofs.tla

`PROJECT.json` maps every definition that models code to its source lines, and
lists the runs, the mutants that show each property can fail, the findings, the
hazards and the theorems.

## 1. The system

| Component | State it keeps | Operations | Interacts with | Modelled in |
|---|---|---|---|---|
| Transaction status machine (`payments/state_machine.py`) | none; a table | `assert_transition` | called by the payment service (not by refunds, webhooks, or the engine) | `TransactionStatus` |
| Payment service (`services/payment_service.py`) | `transactions`, `transaction_status_logs`, `receipts`, `payment_attempts` | create, complete signature, cancel, refund, gateway webhooks | gateway, settlement engine (in its own session), Celery (publishes) | `Payments` |
| Settlement engine (`settlement/engine.py`) | `crypto_settlements`, `crypto_transfer_logs`; the payment's status | `prepare_and_settle` | exchange and wallet providers | `SettlementEngine` |
| Settlement task (`tasks/`) | the queue; a retry count | `settle_transaction` | settlement engine in a session of its own | `Payments` |
| Fees, money, payout eligibility | none | pure functions | called by the service, the engine and a route | `Money` |
| Gateways, exchange, wallet providers | outside the system | charge, refund, convert, transfer | called over `await` | outcomes in `Payments` |
| Merchants and wallets | `users`, `merchant_profiles`, `merchant_wallets` | register, create merchant, add wallet | read by the engine | `MerchantWallets` |
| Seed (`scripts/seed.py`) | reference data, the client's account, company and wallet | runs at each start | before any request | `MerchantWallets` |
| Devices (`services/device_service.py`) | `sunmi_devices`, `device_information` | register, heartbeat | the merchant's profile | `DeviceRecords` |
| Terminal sessions (`services/terminal_session_service.py`) | in-memory records and their index by key | create, authorize, capture, void, refund, cancel | processor, protocols, audit log | `TerminalSessions`, `TerminalStates` |
| Processors (`processors/`) | the mock's results by reference | authorize, capture, void, refund, complete | called by terminal sessions | `CardProcessor` |
| POS protocols (`protocols/`) | none; a catalogue | select, execution guard, charge flags (`list_protocols` only reads) | read by terminals and the sandbox gateway | `Protocols` |
| Authentication (`services/auth_service.py`) | `refresh_tokens` | login, refresh, logout | behind the rate limiter | `RefreshTokens`, `Accounts` |
| Rate limiter (`middlewares/security.py`) | in-memory time stamps per caller | one check per request | in front of every handler | `RateLimiter` |
| Audit log, admin dashboard | rows of the caller's session; none | record; aggregate | terminal sessions | in `TerminalSessions`, `Dashboard` |
| Terminal adapters, website, HTTP layer, persistence base, configuration | – | – | – | section 6 |

**How the parts interact.** Each API request has one SQLAlchemy session
(`get_db_session`) which is one PostgreSQL transaction at READ COMMITTED: it is
committed after the handler returns, or earlier by an explicit
`session.commit()`, and rolled back by an exception. Nothing uses `FOR UPDATE`
or a version column, and a loaded object is not refreshed in its session. So a
handler that checks a status and then writes it may overwrite whatever was
committed between, and the only serialisation is that of unique constraints and
of row locks, which an UPDATE or INSERT takes when it is flushed and keeps to
the end of the transaction. Charges, refunds and transfers happen inside these
transactions and are not undone by a rollback. The settlement task is published
before the transaction that defers to it commits.

Terminal sessions, the mock processor's books and the rate limiter's windows
live in the API process: they are shared by all its requests, change in one
step between two awaits, and are gone after a restart.

**What is hard.** Interleaving of requests and workers between a read and a
write; a crash between an external effect and the commit that records it;
messages delivered twice, or never; an exception caught in a session whose
flushed writes stay; webhooks at any moment; a shared record that moves on while a
request waits for its audit row; two records of one thing (session and books,
device and device information, wallet rows and the primary one, three places
that read a protocol's outcome) kept by different code. The `hazards` of
`PROJECT.json` name each place.

**What makes each component correct.**

- Status machine: it is what every history follows.
- Payments: one charge per idempotency key; a history that leads to the status;
  no transient status left behind; final statuses final; a receipt for what was
  captured.
- Settlement: paid out once, to the wallet on record, only for captured
  payments; a deferred settlement has someone to retry it; every retry that can
  succeed does.
- Money: minor units, fee and net add up.
- Wallets: the primary wallet added last is paid. Seed: two starts end alike,
  and pay the client.
- Devices: one row per serial number, no lost report, one model.
- Terminal sessions: session, processor, audit log and dashboard (as far as it
  reads) agree on what was held, taken, released and returned; one payment per
  key; no operation of the simulation in production; a protocol means the same
  to whoever reads it.
- Tokens: a refresh token is used once; a login has one active token.
- Rate limiter: never more than the limit within a window, no endless lockout.

## 2. Modules

| Module | What it is |
|---|---|
| `TransactionStatus` | `TransactionStatus`, `ALLOWED_TRANSITIONS`, `assert_transition`, and the transitive closure of the table |
| `SettlementEngine` | `prepare_and_settle` as functions of what it reads: how a run ends, and what it leaves in the status, the log, the settlement row |
| `Payments` | the state machine: requests, sessions, tasks, the database and the outside world; EXTENDS `SettlementEngine` |
| `PaymentProperties` | the properties, and the refinement mapping to the ledger |
| `PaymentLedger` | abstract specification: what the database promises about a reference |
| `PaymentInvariant` | the inductive invariant `PaymentInv` and its core, `IInv` |
| `Money` | rounding, minor units, fee, conversion, address check and payout eligibility as operators, for `MoneyProofs` |
| `Requests` | a request's database session: begin, advance, roll back, and which requests overlapped; used by the next two groups |
| `MerchantWallets`, `DeviceRecords` | accounts, wallets and the seed; a device's two rows |
| `MerchantRecords`, `MerchantProperties` | both together in one API process that starts and stops; the properties |
| `RateLimiter`, `RefreshTokens` | the limiter's two windows; the lines of refresh tokens |
| `Accounts`, `AccountProperties` | authentication behind the limiter; the properties |
| `Protocols` | the catalogue of POS protocols and what is decided with it |
| `TerminalStates` | the terminal state machine's table |
| `CardProcessor` | the processor factory and the mock's books |
| `TerminalSessions` | the service over its in-memory store; EXTENDS the three before |
| `Dashboard` | which sessions the dashboard reads, and its buckets |
| `CardPayment` | abstract specification: what a card holder sees of a payment |
| `TerminalProperties` | the properties, and the refinement mapping to `CardPayment` |
| `PaymentProofs`, `PaymentInvariantProofs`, `PaymentRecordProofs`, `PaymentRefinement`, `MoneyProofs`, `MerchantProofs`, `AccountProofs`, `TerminalProofs` | theorems and their proofs |
| `MCPayments`, `MCMerchant`, `MCAccounts`, `MCTerminal` | the modules TLC runs |

### Payments

A payment is named by the request that inserts it, so `status[r]` is the row
request `r` created, and `Request` bounds the requests of a behaviour.

- *Committed database*: `status`, `receipt`, `settlement`, `payee`, `history`,
  and the merchant's `wallet` (`registered` remembers the unique constraint).
- *Sessions*: `pc` is where the handler is, `loaded` what it has read of the
  payment, `work` what it has flushed and nobody else sees. `HoldsKey` and
  `HoldsRow` are the points at which the session holds its key or its row;
  `KeyFree` and `RowFree` are what an INSERT or UPDATE waits for.
- *Tasks*: named by the request that published them: `task`, `tries`, `plan`
  (what the worker's session has read).
- *Outside*: `charge` (what the gateway did), `sent` and `sentTo` (transfers),
  `faults`.

| Handler | Actions |
|---|---|
| `create_payment` | `BeginCreate`, `LookupAlternate`, `Insert`, `Charge`, then `Settle` or `Defer`, `Commit` |
| `complete_signature` | `SignLoad`, `SignWrite`, then `Settle` or `Defer`, `Commit` |
| `cancel_payment` | `CancelLoad`, `CancelWrite` |
| `refund_payment` | `RefundLoad`, `RefundGateway` or `RefundRefused`, `RefundWrite` |
| `handle_nowpayments_webhook`, `handle_moyasar_webhook` | `WebhookLoad` or `MoyasarLoad`, then `WebhookWrite` |
| `add_wallet` | `AddWallet` |
| `settle_transaction` | `TaskLoad`, `TaskPlan`, `TaskReturn`, `TaskTransfer`, `TaskRetry`, `TaskCommit`, `TaskAck` |
| process or worker death, uncaught exception | `Crash`, `TaskCrash` |

A write and its commit are one step where nothing outside the database happens
between them: the row lock makes the two indistinguishable to every other
session. A request that a guard refuses changes nothing and is no step.

Facts of the code the model follows, which a reader may not expect:

- NOWPayments' `charge` creates a hosted invoice and reports no success, so such
  a payment is first stored as FAILED and captured by an IPN later (outcome
  `"invoiced"`).
- The service does not look at the gateway's status: a pre-authorisation that
  needs no signature is captured and settled like a sale. The outcome
  `"captured"` covers both.
- The IPN names the payment by `order_id`, the reference, so an IPN for an
  invoice made by a request that died can capture the payment stored under
  that reference later, a declined one included.
- Moyasar answers a charge its customer has yet to confirm without success, like
  a refused one, so the outcome `"declined"` covers both, and its webhook may
  capture such a payment later. `"declined"` also covers gateways that send no
  webhook and leave no reference to refund; a handler finds either out from
  what the outside does.
- The adapters of the gateways catch network errors only. Where the answer is no
  JSON, `gateway.charge` raises and the session is rolled back without any
  process dying (`nowpayments.py:93`, `moyasar.py:84`), with or without a charge
  made. To the database and to other sessions this is what a crash is, so
  `Crash`, before or after `Charge`, stands for it.
- After a failed settlement `_try_settle` overwrites MANUAL_REVIEW with
  SETTLEMENT_PENDING in the same session; the log keeps both rows.

### Merchants, wallets, devices and the seed

`Requests` gives a request's session its stages: "open" has read, "flushed"
holds a row's lock, "done" is committed, "refused" rolled back. `before[r]`
remembers which requests had ended when `r` began, so the properties can speak
of requests that overlapped. The operation of each request is drawn from
`Workload` at the start.

| Code | Actions |
|---|---|
| `AuthService.register`, `create_merchant` | `BeginAccount`, `WriteAccount` |
| `add_wallet` | `BeginWallet`, `WriteWallet` |
| `DeviceService.register`, `heartbeat` | `BeginRegister` or `BeginHeartbeat`, `Flush`, `CommitDevice` |
| `seed.py` under `start.sh` | `Start` (with `Seed`, or without it), `Stop` |

- Between its flush and its commit a handler of `MerchantWallets` awaits nothing
  of others, so both are one step. A device handler reads
  `device_information` in between, so there they are two.
- `add_wallet` decides on one SELECT (`list_for_merchant`); only the wallets it
  saw as primary are in its UPDATE, for SQLAlchemy writes what changed. The same
  rule leaves a device's unchanged model out of the UPDATE.
- `get_primary` has LIMIT 1 and no order: `Primaries` are all it may return.
- The session's autoflush is off, so `_sync_bonyan_merchant` does not see the
  wallet `seed()` added just before.
- `identity[m]` is what of the client's company a profile carries: its name,
  which any profile may have, and its commercial registration, which is unique.
  `_sync_bonyan_merchant` takes for the client's whichever profile of that name
  the database returns first (`Synced`), and gives it the registration.
- An e-mail stands for a user; a phone, unique too, is taken to go with it.
- Wallet networks are folded into addresses; one device serial number is
  followed; one API process runs at a time, and the seed runs before it serves.

### Terminal sessions

A handler works on the shared record and calls the processor without awaiting:
one step. It then awaits its audit row, answers with the record as it is by
then, and commits: `Finish`, or `Fail` when the database fails it.

| Handler | Actions |
|---|---|
| `create` | `Create`, `CreateAgain` (a known key) |
| `authorize` | `Authorize` with the mock, `AuthorizeRaises` with the stub |
| `capture`, `void`, `refund`, `cancel` | `Capture`, `Void`, `Refund`, `Cancel` |
| end of a request | `Finish`, `Fail` |
| end of the process | `Restart`, perhaps under other settings |

- `money[s]` (observation) counts what the processor did for a session:
  held, taken, released, returned. `born[s]` remembers merchant, key and the
  life of the process that made it.
- `books` maps a reference to the last result stored under it. A capture, void
  or completion overwrites it; a refund has a reference of its own.
- `authorize` follows the scenario by name, token, cents, then outcome
  (`ResolveScenario`), and moves on to capture or complete as the protocol's
  outcome says (`AuthorizePath`).
- `AuthorizeRaises`: the handler catches `ValueError`, the stub raises another
  exception, so the record stays in AUTHORIZING and no audit row is written.
- A record keeps its token and whether a signature was asked for, as
  `authorize` stores them, and `created`, the order of `created_at`: sessions
  made in one microsecond, which the sort leaves as they are, are left out.
- The dashboard reads the newest `ListLimit` records (1000 in the code) in one
  step and puts each in a bucket.
- The `settings` of a process come from `PaymentProcessor(ConfiguredKey(..))`,
  the factory's choice after the alias of `config.py`.

### Authentication and the rate limiter

A token is named by the request that issued it, and `line[r]` by the login it
descends from. `Arrive` is the limiter's `dispatch`, `Handle` the handler's
two steps (its read, then its write and commit), `Tick` the clock, `Expire` a
token's `expires_at`, `Crash` the end of the process, which loses the windows
and rolls the sessions back.

- Time is a number of ticks; a time stamp is kept as its age, so the model is
  finite.
- A caller's address is its name; the limits and the window are constants.
- A request whose answer is lost is one that is "done" and whose token nobody
  sends.
- A logout with a token that was already rotated does nothing: the pair its
  rotation issued stays active, as the code has it.

## 3. Runs

| Run | Instance | Question |
|---|---|---|
| `PaymentsFaults` (pass) | 3 requests, 2 references (one unquoted), wallets good / rejected, 1 retry, 2 faults; symmetry of requests | do the safety properties, the bound on transfers and the ledger survive interleavings, crashes and lost publications? (1,020,804 states) |
| `PaymentsLive` (pass) | 3 requests, 1 reference, wallets good / better / without provider, 1 retry, no faults; fair | progress, and whom a settlement names and pays while wallets replace each other (85,067 states) |
| `TerminalSessions` (pass) | 2 sessions, 1 merchant, 1 key, 4 references, 2 requests under way, 1 restart, 1 lost audit row, a dashboard of 1 session; 4 create requests, 4 cards, 5 deployments | do session, books, money, audit rows and dashboard agree, and do sessions implement card payments? (564,080 states) |
| `TerminalProtocols` (pass) | 1 session; every id and code of the catalogue for 3 types, every scenario and token, 5 deployments | does every protocol mean the same to adapter, gateway and terminal, and does none rest half-way? (50,019 states) |
| `MerchantRecords` (pass) | 4 requests of 2 merchants, on accounts and wallets (7 operations) or on a device (5); 2 starts; a database that is empty, or seeded, with the other merchant or without | which wallet is paid, what a seed may do, what device reports survive (3,322,893 states) |
| `Accounts` (pass) | 4 requests in 9 workloads, 2 callers, window 2, limits 2 and 1, 1 crash; fair | are tokens used once, are limits kept, do lockouts end? |
| `DoubleCharge` | 2 requests, 1 fault | is a charge made once in spite of a crash? No |
| `HistoryGap`, `CapturedStuck` | 2 requests, no fault | does a webhook keep the history, and lead to a settlement? No |
| `FinalStatus` | 3 requests, no fault | do final statuses stay? No |
| `WrongPayee` | 2 requests, 2 wallets, no fault | does the settlement name the paid wallet? No |
| `FirstSeed` | 2 requests, 2 starts | does the seed of an empty database complete? No |

**Why the bounds are enough.** *Payments*: three requests are a creation and two
handlers that race over its payment (sign and cancel, refund and settle, two
signatures), or three creations with one key. Every interaction in the code is
between two sessions over one row or one key; the third request produces the
state the two meet in. Two references let a request find its alternate reference
taken, two faults let a retry of what a crash interrupted be interrupted again,
one retry shows both a retry and exhaustion (the code's bound is 5, and the
proofs are for any). One of the two references of `PaymentsFaults` is
`Unquoted`, of a payment in a currency the service accepts and the sandbox
exchange does not quote (CAD and GBP, by the defaults of `core/config.py:75`):
such a payment is captured and every attempt to settle it fails. A rejected
wallet leaves a settlement row behind a failed attempt, in `PaymentsFaults`; two
good ones, in `PaymentsLive`, are what a row could name in place of the one that
was paid. *Terminal sessions*: two sessions meet
only in the books, the index and the processor; the longest life of one is
create, authorize, capture, refund, which takes two of the four references. The
create requests hold a hold, a sale by an ambiguous code, no protocol and an
unknown one, the cards scenarios by name, token and cents, the deployments every
processor and both names of production. A dashboard of one session has one
session too many for it. Protocols, tokens and scenarios concern one session at
a time, so `TerminalProtocols` has one, and all of them. *Merchant records*: two requests overlap and two make the state they
meet in; a start before and one after. The other merchant asks for a company
of the client's name, or of the client's registration, or has one of neither. *Accounts*: a login, a rotation, and two
requests with the old or the new token; limits of 2 and 1 are met and passed
within a window of 2.

Deadlock is not checked: every request of an instance runs once, or names run
out, so the system stops when all have ended. That nobody waits for ever is
`RequestsEnd` and `TasksEnd`.

**Fairness.** *Payments*: weak fairness of each request's and of each task's
next step once begun: the event loop resumes a coroutine whose await is over,
PostgreSQL grants a free lock, workers keep consuming. Nobody is obliged to send
a request or a webhook, or to register a wallet, and faults are never obligatory.
`RetriesSettle` is stated for the time the merchant's wallet is valid.
*Accounts*: weak fairness of the clock and of each caller that keeps trying;
nothing is assumed of the handlers. The other specifications state none.

**Properties that hold and are easily broken.**

- `ChargedTwiceOnlyAfterCrash`: the INSERT is flushed before the charge, so the
  unique constraint serialises concurrent requests with one key. Moving the
  flush after the charge would break it.
- `TransfersWithinFaults`: two requests that complete one signature both reach
  the settlement; the second is stopped by the unique receipt, by nothing else.
  Retries and redelivered messages add no transfer beyond the crash that caused
  them, because one session only ever publishes a task for a payment.
- `PayeesAccountedFor`: a task that finds a row keeps its wallet unless it is
  refused, one that finds none pays the wallet it read with its plan. Reading
  the primary wallet again at the transfer would break it.
- `OnlyStaleWritesBreakLifecycle`: whenever a session's first log row starts
  from the status it really replaces, the commit moves the payment along a path
  of the table. The engine, refunds and deferral, which never consult the
  table, respect it.
- `CompletedMeansPaidOut`: through all the overwrites a COMPLETED payment has a
  completed settlement and a transfer.
- `ReportsKept`: heartbeat merges a device report into a copy; the copy is
  fresh only because the handler flushes the device's row, and so takes its
  lock, before it reads the information.
- `MoneyFollowsSession`: the processor accepts a second capture and a refund of
  what was voided; only the table of terminal states stands before them.
- `NoSimulationInProduction`: the factory would serve an environment called
  `prod`; `require_protocol_execution` in `authorize` does not, and no other
  operation can come first.
- `ProtocolsDecideAlike`: the adapter, the gateway's flags and `authorize`
  each list the outcomes that only hold; the lists agree for every profile, and
  for every profile a code may be resolved to. They do not agree on a signature
  that the token or the scenario asks for and not the protocol: gateway and
  adapter then hold the money (`sandbox.py:82-96`, `136-152`), `authorize`
  captures it (`terminal_session_service.py:254-279`); the property says exactly
  where. No document says which is right.
- `DashboardFollowsMoney`: the buckets are right for the sessions the dashboard
  reads, and those it leaves out are older, and only there when there are more
  than its limit.
- `LockoutsEnd`: an attempt a window refuses is not stamped in it. What the
  window of the authentication routes refuses has been stamped in the global
  one, which delays the caller and no more.

## 4. Findings

Six runs end in a violation of what the repository's documents, comments or
tables say; `PROJECT.json` has them with their lines: a double charge after a
crash, status changes of webhooks missing from the history, final statuses overwritten by a concurrent session, a
completed settlement that names a wallet that was not paid, payments captured
by a webhook that are never settled, and a first seed that violates its own unique
constraint, because it adds the client's wallet twice. A later start does not
help: nothing of the first was committed, so the database is as empty as
before. `SeedFailureCauses` names the only other cases: the client replaced the
seed's wallet, and the seed gives the replacement an address the old row still
has; or another profile carries the client's company name, and the seed gives
that profile the registration the client's has.

A transfer, too, may be repeated when a worker dies before its commit. No
document promises one transfer across a worker's death, so this is no finding:
`TransfersWithinFaults` says how many there can be.

## 5. Proofs

Assumptions: those named in the modules that declare the constants (`Null` is no
element of the sets it stands beside, the sets of wallets are nested, bounds are
naturals, the workload asks for operations the code has). Every theorem is for
any number of requests, references, wallets, sessions, merchants, retries,
starts, restarts and faults.

**Payments.**

1. `TypeCorrect` (`PaymentProofs`): `Spec => []TypeOK`. Lemmas say what the
   engine's operators return, then one step per action.
2. `InvariantHolds` (`PaymentInvariantProofs`): `Spec => []IInv`. The safety
   properties are not inductive: that a key is charged once needs to know who
   holds or has committed the key at every point (`OneOwnerPerKey`,
   `ChargesOnRecord`, `CommittedByCreator`, `KeysNameCreators`); that a
   completed payment was paid out needs that two sessions never hold
   uncommitted updates of one row (`OneOwnerPerRow`) and what such a session
   may commit (`WorkIsVisible`, `PayoutsOnRecord`). Each conjunct is preserved
   by a lemma of its own with a step per action that can disturb it. TLC checks
   `IInv` in `PaymentsFaults`, as a part of `PaymentInv`.
3. `ChargesAreSerialised`, `NoTransientStatus`, `CompletedIsPaidOut` follow
   from `IInv`.
4. `LedgerImplemented` (`PaymentRefinement`): only `Commit` and `TaskCommit`
   change what the ledger sees; a first commit is a `Store`, which needs
   `OneOwnerPerKey`, a completed settlement is a `PayOut`, all else stutters.
5. `PaymentRecordProofs` strengthens `IInv` to `PaymentInv`, one invariant per
   question. `ReceiptsFollowCharges`: whatever a session or a worker has read or
   flushed, a receipt goes with an accepted charge and comes before any
   settlement; so nothing is paid out for a payment a webhook captured
   (`ReceiptsAreGiven`, `PayoutsAreCharged`). `PendingIsUnsettled`: while a
   payment is pending, its own task has not succeeded (`PendingIsAttended`).
   `LogsAreAllowed`: what is flushed, and the plan of a worker, ends in a log
   that is allowed and leads to the status it will write, though the row may
   have changed meanwhile (`HistoriesAreAllowed`, `HistoriesEndAtStatus`). The
   step version, `LifecycleBreaksOnlyWhenStale`, goes through the commits only.
   `TransfersCounted` balances, for each payment, the transfers made and those
   that are outstanding (a capture that may still settle, a task that may still
   transfer) against one more than the faults: the receipt is given once, a
   settlement either transfers or leaves it to one task, and only a crash gives
   an outstanding transfer back. Hence `TransfersBounded`, and `OneTransfer` for
   `MaxFaults = 0`. `CrashesCounted` turns `ChargedTwiceOnlyAfterCrash` into a
   bound on the charges of a key (`ChargesBounded`, `OneCharge`).
   `WalletsRegistered` and `PayeesOnRecord` follow the wallet from
   the read to the row and the transfer: what a session has flushed, or a worker
   planned, names the paid wallet or one that was refused
   (`PaidAtNamedWallet`). `PaidWalletIsNamed` draws from it when
   `SettlementNamesPaidWallet`, which `WrongPayee` refutes, does hold: while all
   registered wallets are valid, or there is one. `RequestsAdvance` and
   `TasksAdvance` give each request and each task a measure (`StepsLeft`,
   `TaskLeft`) that each of its steps lowers and nothing raises, for which a
   request must enqueue its task only once (`TasksFollowCommits`). TLC checks
   `PaymentInv` in `PaymentsFaults`.
6. `MoneyProofs`: rounding half up is off by at most a half, so below 50 % the
   fee never takes a whole payment (`NetPositive`); minor units survive the way
   to a decimal and back (`RoundTrip`; every currency listed has two decimals); a
   payout announced as pending goes to an address the TRC20 adapter accepts
   (`PendingPayoutIsPayable`). These are facts about the operators of `Money`:
   no state of `Payments` has an amount, for no decision depends on one.

**Merchants** (`MerchantProofs`): every property of the run. `DeviceInv` says
that the session which holds the row's lock has read the information as it is,
and that a copy of the device's row is what some request that has not ended
before has written. `WalletInv` says which wallets a session saw and which were
added since. An invariant worth knowing came out of it: an empty database stays
empty (`Blank`), for its seed always raises and nobody can sign up without the
roles a seed adds; in every other reachable state (`Kept`) the client has a
profile with the registration, which nobody else has, and a primary wallet. So a
seed that takes another profile for the client's raises (`Mistaken`), one that
finds the client's corrects one wallet or raises over one put aside
(`CorrectsOne`), and none inserts a wallet: `SeedFailure` and `SeedPaysClient`
follow.

**Accounts** (`AccountProofs`): `TokenInv` says that the tokens of a login form
a line: each was issued for a token that is used up, and the only active one is
its end, until two refreshes that overlapped fork it. `SingleUse` and
`OneActive` follow. `LimiterInv` says of each window that it holds no more
stamps than its limit, and that it has at least the stamps of what was let
through, age by age (`Observed`). A window is counted as a set of stamps, so
adding one and ageing all are facts about cardinality. With `TokenInv` it makes
`AccountInv`; `AdmissionBound` and `AccountTypes` follow.

**Terminal sessions** (`TerminalProofs`): the invariant `TerminalInv` has one
predicate, `Truthful`, for what record, money, books and processor have to say
of each other, and parts for references and keys that name one session, lives of
the process, and audit rows. Authorize, capture, void, refund and cancel are
each shown to be an `Operation`, and one lemma shows what an `Operation` keeps;
the same predicate gives the refinement (an operation moves the payment along
`CardPayment!Moves`) and `ProductionIsIdle`. `ProtocolsAgree` takes the
catalogue apart: lemmas say what the gateway's flags make of a profile's
identifier and code, for every token and scenario (`FlagsOf`), and what the
adapter makes of the profile (`AdapterOf`); the invariant's parts on
signatures and on the audit trail (`Signed`, `Trail`) bring them to the sessions. Every safety property of the two
runs follows.

Only model-checked: `RequestsEnd`, `TasksEnd`, `RetriesSettle` and
`LockoutsEnd`, liveness under fairness, which is out of the prover's reach. Of
the first two, the half that is safety is proved: a request or a task that keeps
taking steps ends after a bounded number of them. What TLC adds is that one which
waits, for a key or a row, does not wait for ever: the holder's own next step
waits for nobody.
The violated properties have counterexamples of TLC and nothing to prove.

## 6. Not modelled, and why

- Several merchants in `Payments`: the IPN's lookup by `order_id` across
  merchants raises when two of them share a reference; one merchant owns all
  payments there.
- Repeated refunds at the gateway: the model does not count them.
- A worker that dies between publishing its retry and acknowledging the message
  (two messages for one task): `TaskRetry` is one step.
- `TerminalSessionService.select_protocol_only`: no route and no test calls it.
  `list_protocols`: a read.
- A webhook that finds no payment yet is acknowledged and lost: no step.
- Amounts of terminal sessions: `refund` passes on whatever amount it is asked
  for and compares it with nothing, so there is nothing to keep.
- Several API processes, and a seed that runs beside a serving one (a rolling
  deployment): terminal sessions and rate limits are per process by
  construction, and the start script starts one.
- The dashboard's buckets for database payments (SETTLEMENT_PENDING,
  SETTLEMENT_PROCESSING and MANUAL_REVIEW are in none of its sets), its volumes
  and series; it only reads.
- Terminal adapters, website content, persistence helpers, HTTP routing and
  validation, configuration beside what chooses a processor, password hashing
  and token encoding, response headers, reads: no state that changes, or a
  single statement.

## 7. Plan

Done: all components whose code keeps state over more than one step. Left, in
order of worth:

1. A second merchant in `Payments`, for the IPN's lookup by reference alone.
2. Two API processes over one database, for terminal sessions and limits that
   requests of one client may find in either.
