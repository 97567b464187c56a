--------------------------- MODULE CardProcessor ---------------------------
(***************************************************************************)
(* The processors behind terminal sessions: the factory that picks one     *)
(* (app/processors/factory.py) and the books of the mock one               *)
(* (app/processors/mock_processor.py), which map a reference to the last   *)
(* result stored under it.  Of a result its status is kept.                *)
(*                                                                         *)
(* Both classes run inside the service's process: an operation is one step *)
(* of the handler that calls it.  The stub for a certified processor       *)
(* raises from every operation and keeps no books.                         *)
(***************************************************************************)
EXTENDS Integers

CONSTANTS
  Reference,  \* what a processor calls its results, uuid4 in the code
  Null        \* nothing stored

ASSUME ReferenceAssumption == Null \notin Reference

\* The sandbox's processor class per provider key.
Registry ==
  [ key \in { "mock", "mock_sandbox", "sandbox" } |-> "mock" ]

CertifiedKey == { "certified", "certified_psp", "certified_unconfigured", "acquirer" }

\* The key the settings end up with: the older PAYMENT_PROVIDER counts only
\* when DEFAULT_PAYMENT_PROCESSOR is left at its default.
ConfiguredKey(default, provider) ==
  IF default # "mock_sandbox" THEN default
  ELSE IF provider \in { "mock", "sandbox" } THEN "mock_sandbox"
  ELSE IF provider \in { "mock_sandbox", "certified", "certified_psp", "acquirer" }
    THEN provider
    ELSE default

\* Serves a key nobody registered instead of raising.
PaymentProcessorUnregistered(key, environment) ==
  IF environment = "production" /\ key \in DOMAIN Registry \cup CertifiedKey
    THEN "none"
  ELSE IF key \in DOMAIN Registry THEN Registry[key]
  ELSE IF key \in CertifiedKey    THEN "stub"
  ELSE key

\* get_payment_processor: the class that serves, or "none" when it raises.
PaymentProcessor(key, environment) ==
  IF environment = "production" /\ key \in DOMAIN Registry \cup CertifiedKey
    THEN "none"
  ELSE IF key \in DOMAIN Registry THEN Registry[key]
  ELSE IF key \in CertifiedKey    THEN "stub"
  ELSE "none"

-----------------------------------------------------------------------------

ResultStatus == { "APPROVED", "DECLINED", "TIMEOUT", "ERROR", "CANCELLED" }

Scenario == { "declined", "timeout", "error", "cancelled", "signature", "success" }

\* What authorize() answers in a scenario.
AuthorizationStatus(scenario) ==
  CASE scenario = "declined"  -> "DECLINED"
    [] scenario = "timeout"   -> "TIMEOUT"
    [] scenario = "error"     -> "ERROR"
    [] scenario = "cancelled" -> "CANCELLED"
    [] OTHER                  -> "APPROVED"

\* Whether an approval asks for a signature.
SignatureRequired(scenario, outcome) ==
  /\ AuthorizationStatus(scenario) = "APPROVED"
  /\ scenario = "signature" \/ outcome = "signature"

\* The scenario when the caller names none: by the hints in the token, then by
\* the last two digits of the amount, then by the protocol's outcome.
ResolveScenario(amount, token, outcome) ==
  IF      "declined" \in token  THEN "declined"
  ELSE IF "timeout" \in token   THEN "timeout"
  ELSE IF "error" \in token     THEN "error"
  ELSE IF amount % 100 = 13     THEN "declined"
  ELSE IF amount % 100 = 99     THEN "timeout"
  ELSE IF amount % 100 = 77     THEN "error"
  ELSE IF outcome = "signature" THEN "signature"
  ELSE "success"

-----------------------------------------------------------------------------

NoBooks == [ ref \in Reference |-> Null ]

\* A processor that reused a reference, as one derived from the session would be.
UnusedOrNot(books) == Reference

Unused(books) == { ref \in Reference : books[ref] = Null }

Stored(books, ref, status) == [ books EXCEPT ![ref] = status ]

\* capture() wants an approved result and leaves one; complete_authorization()
\* leaves one whatever was stored, nor do void_transaction() and refund() ask.
CanCapture(books, ref) == books[ref] = "APPROVED"
Captured(books, ref)   == Stored(books, ref, "APPROVED")
Completed(books, ref)  == Stored(books, ref, "APPROVED")
CanVoid(books, ref)    == books[ref] # Null
Voided(books, ref)     == Stored(books, ref, "CANCELLED")
CanRefund(books, ref)  == books[ref] # Null
Refunded(books, fresh) == Stored(books, fresh, "APPROVED")

=============================================================================
