------------------------- MODULE SettlementEngine --------------------------
(***************************************************************************)
(* SettlementEngine.prepare_and_settle (app/settlement/engine.py) as a     *)
(* function of what it reads: the payment's status, the settlement row it  *)
(* found, the merchant's primary wallet, and whether the exchange quotes   *)
(* the payment's currency.  The transactions that run it (an API request   *)
(* that has just captured the payment, a Celery worker) are in Payments,   *)
(* which says when its writes are flushed, committed or rolled back.       *)
(*                                                                         *)
(* Amounts are left out: fee, net and USDT amounts are recorded and never  *)
(* decide anything here.                                                   *)
(***************************************************************************)
EXTENDS TransactionStatus, Sequences

CONSTANTS
  Wallet,             \* wallets a merchant may register
  RegisteredNetwork,  \* those on a network that has a wallet provider
  ValidAddress,       \* those whose address its provider accepts
  Null                \* no row, no wallet

ASSUME WalletAssumption ==
  /\ RegisteredNetwork \subseteq Wallet
  /\ ValidAddress \subseteq RegisteredNetwork
  /\ Null \notin Wallet

\* The states of a crypto_settlements row the engine writes; Null is no row.
SettlementStatus == { "PROCESSING", "COMPLETED", "FAILED" }

-----------------------------------------------------------------------------

\* The engine refuses a payment in any other status (SettlementError).
Eligible ==
  { "CAPTURED", "SUCCESS", "SETTLEMENT_PENDING", "SETTLEMENT_PROCESSING" }

(***************************************************************************)
(* How a run of the engine on an eligible payment ends, in the order of    *)
(* the code: "already" returns the completed settlement, "sent" has        *)
(* transferred the funds, the others raise.                                *)
(***************************************************************************)
EngineOutcome(existing, wallet, quoted) ==
  IF      existing = "COMPLETED"          THEN "already"
  ELSE IF wallet = Null                   THEN "no_wallet"
  ELSE IF ~quoted                         THEN "no_quote"
  ELSE IF wallet \notin RegisteredNetwork THEN "no_provider"
  ELSE IF wallet \notin ValidAddress      THEN "rejected"
  ELSE "sent"

\* The outcomes that reach the crypto_settlements write.
WritesSettlement == { "no_provider", "rejected", "sent" }

\* The payment's status as the engine leaves it in the session.
EngineStatus(from, outcome) ==
  CASE outcome \in { "already", "no_wallet" }     -> from
    [] outcome \in { "no_quote", "no_provider" }  -> "SETTLEMENT_PROCESSING"
    [] outcome = "rejected"                       -> "MANUAL_REVIEW"
    [] outcome = "sent"                           -> "COMPLETED"

\* The status-log rows it adds, as <<from_status, to_status>>.
EngineLog(from, outcome) ==
  LET started == << from, "SETTLEMENT_PROCESSING" >> IN
  CASE outcome \in { "already", "no_wallet" }    -> << >>
    [] outcome \in { "no_quote", "no_provider" } -> << started >>
    [] outcome = "rejected" ->
         << started, << "SETTLEMENT_PROCESSING", "MANUAL_REVIEW" >> >>
    [] outcome = "sent" ->
         << started, << "SETTLEMENT_PROCESSING", "COMPLETED" >> >>

EngineSettlementUnmarked(existing, outcome) ==
  CASE outcome \in { "sent", "no_provider" } -> "PROCESSING"
    [] outcome = "rejected"                  -> "FAILED"
    [] OTHER                                 -> existing

\* The state of the settlement row after the run.
EngineSettlement(existing, outcome) ==
  CASE outcome = "sent"        -> "COMPLETED"
    [] outcome = "rejected"    -> "FAILED"
    [] outcome = "no_provider" -> "PROCESSING"
    [] OTHER                   -> existing

\* The wallet the settlement row names: set when the row is created, and left
\* alone when a later run finds the row and updates it.
EnginePayee(existing, payee, wallet, outcome) ==
  IF existing = Null /\ outcome \in WritesSettlement THEN wallet ELSE payee

=============================================================================
