----------------------------- MODULE Protocols -----------------------------
(***************************************************************************)
(* The catalogue of POS protocols of app/protocols/__init__.py, how a      *)
(* protocol is selected from it, and the two places that decide what the   *)
(* sandbox does with one (app/protocols/execution.py and sandbox.py).      *)
(*                                                                         *)
(* Of a profile only what decides something is kept: the selection id, the *)
(* canonical code, the digit group (0 for none), the family, the mode and  *)
(* the sandbox outcome.  Every profile of the catalogue is enabled,        *)
(* undocumented and sandbox-only.                                          *)
(***************************************************************************)
EXTENDS FiniteSets

TransactionType == { "SALE", "REFUND", "VOID", "AUTH", "COMPLETION" }

Outcome ==
  { "capture", "pre_auth", "force_post", "offline_auth", "completion",
    "signature" }

\* A profile selected by its code, or by the code and its digit group.
Profile(id, code, digits, family, mode, outcome) ==
  [ id |-> id, code |-> code, digits |-> digits, family |-> family,
    mode |-> mode, outcome |-> outcome ]

Online(id, code, digits, outcome) ==
  Profile(id, code, digits, "101", "online", outcome)

Offline(code, family, digits, outcome) ==
  Profile(code, code, digits, family, "offline_test", outcome)

\* 101.x, the online and cloud protocols, and the generic 101 and 102.
OnlineCatalog ==
  { Online(c, c, 0, "capture") : c \in { "101", "101.5", "101.8", "101.9" } }
  \cup { Online("101.2", "101.2", 6, "capture"),
         Online("101.1-6dg", "101.1", 6, "capture"),
         Online("101.1-4dg", "101.1", 4, "capture"),
         Online("101.3-6dg", "101.3", 6, "capture"),
         Online("101.3-4dg", "101.3", 4, "capture"),
         Online("101.4-6dg", "101.4", 6, "capture"),
         Online("101.4-4dg", "101.4", 4, "capture"),
         Online("101.6", "101.6", 0, "pre_auth"),
         Online("101.7", "101.7", 0, "force_post"),
         Offline("102", "102", 0, "capture") }

\* 201.x and 202.x, the offline and hybrid protocols.
OfflineCatalog ==
  { Offline(c, "201", 0, "offline_auth") :
      c \in { "201", "201.2", "201.4", "201.5", "201.6", "201.7", "201.8",
              "201.9" } }
  \cup { Offline(c, "202", 0, "offline_auth") :
           c \in { "202.2", "202.5", "202.9" } }
  \cup { Offline("201.1", "201", 0, "completion"),
         Offline("201.3", "201", 6, "signature") }

Catalog == OnlineCatalog \cup OfflineCatalog

-----------------------------------------------------------------------------

\* The authorization mode a profile gets from its outcome.
AuthorizationMode(p) ==
  CASE p.outcome = "capture"                          -> "sale"
    [] p.outcome \in { "offline_auth", "signature" }  -> "offline_auth"
    [] OTHER                                          -> p.outcome

SupportedTypes(p) ==
  IF /\ AuthorizationMode(p) \in { "pre_auth", "offline_auth" }
     /\ p.code \in { "101.6", "201", "201.3" }
    THEN { "AUTH", "COMPLETION", "VOID" }
    ELSE IF AuthorizationMode(p) = "completion"
           THEN { "COMPLETION", "VOID" }
           ELSE TransactionType

(***************************************************************************)
(* get_protocol(key): the profile with that id, or else the one with that  *)
(* code, the six-digit one first.  It is returned as a set, empty when the *)
(* code raises KeyError.  A code with several profiles has one of six      *)
(* digits, so the set never holds two.                                     *)
(***************************************************************************)
GetProtocol(key) ==
  LET byId    == { p \in Catalog : p.id = key }
      byCode  == { p \in Catalog : p.code = key }
      sixDigit == { p \in byCode : p.digits = 6 }
  IN  IF byId # {} THEN byId ELSE IF sixDigit # {} THEN sixDigit ELSE byCode

\* validate_protocol_selection: empty when it raises.
ValidSelection(key, type) ==
  { p \in GetProtocol(key) : type \in SupportedTypes(p) }

-----------------------------------------------------------------------------

\* Knows one name of production, as the factory does.
ExecutionAllowedByPrefix(environment) == environment # "production"

\* decide_protocol_execution: no profile of the catalogue is documented, so a
\* production environment allows none, an unknown one neither.
ExecutionAllowed(environment) == environment \notin { "production", "prod" }

\* A payment token is the hint it ends with, of those the code looks for, if
\* any.
Token == { {}, { "declined" }, { "timeout" }, { "error" }, { "signature" } }

\* SandboxProtocolAdapter.execute on a valid request.
AdapterStatus(p, token) ==
  LET signature == p.outcome = "signature" \/ "signature" \in token
  IN  IF "declined" \in token THEN "DECLINED"
      ELSE IF \/ p.outcome \in { "pre_auth", "offline_auth" }
              \/ signature
        THEN "AUTHORIZED"
        ELSE "CAPTURED"

\* Forgets that a signature protocol asks for a signature.
ChargeFlagsOfToken(key, token, scenario) ==
  LET outcomes  == { p.outcome : p \in GetProtocol(key) }
      signature == scenario = "signature" \/ "signature" \in token
      deferred  == outcomes \cap { "pre_auth", "offline_auth" } # {}
  IN  << signature, signature \/ deferred >>

\* resolve_sandbox_charge_flags: <<signature_required, prefer_authorized>>.
ChargeFlags(key, token, scenario) ==
  LET outcomes  == { p.outcome : p \in GetProtocol(key) }
      signature == \/ scenario = "signature"
                   \/ "signature" \in token
                   \/ "signature" \in outcomes
      deferred  == outcomes \cap { "pre_auth", "offline_auth", "signature" } # {}
  IN  << signature, signature \/ deferred >>

=============================================================================
