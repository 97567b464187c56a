-------------------------- MODULE TerminalSessions -------------------------
(***************************************************************************)
(* Card-present terminal sessions: app/services/terminal_session_service.py*)
(* over the in-memory store of terminal_session_store.py, with the         *)
(* processor that serves them.                                             *)
(*                                                                         *)
(* A handler looks up the merchant, then works on the shared record and    *)
(* calls the processor without awaiting anything: that is one step.  Then  *)
(* it awaits the INSERT of an audit row, answers with the record as it is  *)
(* by then, and the request's transaction commits: `uncommitted` holds the *)
(* audit rows of the requests that have done the first and not the second. *)
(* A request that a guard refuses changes nothing and is no step.          *)
(*                                                                         *)
(* The store and the mock's books live in the process and are gone after a *)
(* restart.  `money` and `born` are observations: what the processor did   *)
(* for a session, and the request that made it.  Amounts are left out.     *)
(***************************************************************************)
EXTENDS Protocols, TerminalStates, CardProcessor

CONSTANTS
  Session,      \* uuid4 names of sessions
  Merchant,
  Key,          \* idempotency keys
  Requested,    \* protocol codes and transaction types in create requests
  Card,         \* what authorize requests bring: scenario, token, cents
  Deployment,   \* the settings a process may start with
  MaxPending,   \* bound: requests waiting for their audit rows
  MaxRestarts,  \* bound: restarts of the process
  MaxLost       \* bound: audit rows lost to a failing database

NoKey  == "no key"
NoCode == "no code"
NoScenario == "no scenario"

ASSUME SessionAssumption ==
  /\ Null \notin Session
  /\ NoKey \notin Key
  /\ IsFiniteSet(Session)
  /\ \A card \in Card : /\ card.scenario \in Scenario \cup { NoScenario }
                        /\ card.token \in Token
                        /\ card.cents \in 0 .. 99
  /\ \A d \in Deployment : d.environment \in STRING
  /\ MaxPending \in Nat /\ MaxRestarts \in Nat /\ MaxLost \in Nat

VARIABLES
  settings,     \* environment and processor of the running process
  session,      \* the store's _by_id
  index,        \* the store's _by_idempotency
  books,        \* the mock processor's _store
  uncommitted,  \* audit rows of requests that have not ended
  audit,        \* committed audit rows
  lost,         \* audit rows of requests that the database failed
  restarts,
  money,        \* observation: the processor's operations per session
  born          \* observation: merchant, key and process life of a session

vars == << settings, session, index, books, uncommitted, audit, lost,
           restarts, money, born >>

-----------------------------------------------------------------------------
(* Types *)

Settings == [ environment : STRING, processor : { "mock", "stub", "none" } ]

\* A session's created_at is a number that grows from create to create.
Record ==
  [ state     : TerminalState,
    merchant  : Merchant,
    outcome   : Outcome,
    created   : Nat,
    token     : Token,
    signature : BOOLEAN,
    reference : Reference \cup { Null } ]

\* The audit row of an operation: which session it left in which state.
AuditRow == [ session : Session, state : TerminalState ]

Operations == [ held : Nat, taken : Nat, released : Nat, returned : Nat ]

Birth == [ merchant : Merchant, key : Key \cup { NoKey }, life : Nat ]

ASSUME NullAssumption == Null \notin Record \cup Birth \cup ResultStatus

TypeOK ==
  /\ settings \in Settings
  /\ session \in [ Session -> Record \cup { Null } ]
  /\ index \in [ Merchant \X Key -> Session \cup { Null } ]
  /\ books \in [ Reference -> ResultStatus \cup { Null } ]
  /\ uncommitted \subseteq AuditRow
  /\ audit \subseteq AuditRow
  /\ lost \subseteq AuditRow
  /\ restarts \in 0 .. MaxRestarts
  /\ money \in [ Session -> Operations ]
  /\ born \in [ Session -> Birth \cup { Null } ]

-----------------------------------------------------------------------------

\* What a process finds when it starts with settings d: the defaults of the
\* store and of the processor.
Configured(d) ==
  [ environment |-> d.environment,
    processor   |-> PaymentProcessor(ConfiguredKey(d.default, d.provider),
                                     d.environment) ]

NoSessions == [ s \in Session |-> Null ]
NoIndex    == [ k \in Merchant \X Key |-> Null ]
NothingDone == [ held |-> 0, taken |-> 0, released |-> 0, returned |-> 0 ]

Init ==
  /\ \E d \in Deployment : settings = Configured(d)
  /\ session = NoSessions
  /\ index = NoIndex
  /\ books = NoBooks
  /\ uncommitted = {}
  /\ audit = {}
  /\ lost = {}
  /\ restarts = 0
  /\ money = [ s \in Session |-> NothingDone ]
  /\ born = [ s \in Session |-> Null ]

\* TerminalSessionService() itself raises when there is no processor.
Serving == settings.processor # "none"

Row(s, state) == [ session |-> s, state |-> state ]

\* The state a handler leaves after a path of transitions none of which raises.
Last(path) == path[Len(path)]

-----------------------------------------------------------------------------
(* create *)

\* The outcome of a valid request; without a code it is the default.
RequestedOutcome(code, type) ==
  IF code = NoCode THEN { "capture" }
                   ELSE { p.outcome : p \in ValidSelection(code, type) }

CreatePath(code) ==
  IF code = NoCode THEN << "CREATED", "AMOUNT_ENTERED" >>
                   ELSE << "CREATED", "AMOUNT_ENTERED", "PROTOCOL_SELECTED" >>

\* A store that looks for the session and not for the key.
KnownNever(m, k) == FALSE

Known(m, k) == k # NoKey /\ index[m, k] # Null

\* A first request, or one without a key.
Create(m, k, code, type, s) ==
  /\ Serving
  /\ ~Known(m, k)
  /\ AllowedPath(CreatePath(code))
  /\ born[s] = Null
  /\ \E outcome \in RequestedOutcome(code, type) :
       session' = [ session EXCEPT
         ![s] = [ state     |-> Last(CreatePath(code)),
                  merchant  |-> m,
                  outcome   |-> outcome,
                  created   |-> Cardinality({ t \in Session : born[t] # Null }),
                  token     |-> {},
                  signature |-> FALSE,
                  reference |-> Null ] ]
  /\ index' = IF k = NoKey THEN index ELSE [ index EXCEPT ![<< m, k >>] = s ]
  /\ born' = [ born EXCEPT ![s] = [ merchant |-> m, key |-> k, life |-> restarts ] ]
  /\ uncommitted' = uncommitted \cup { Row(s, Last(CreatePath(code))) }
  /\ UNCHANGED << settings, books, audit, lost, restarts, money >>

\* A create that stores the new record under the known session.
CreateAgainOverwrites(m, k, code, type) ==
  /\ Serving
  /\ Known(m, k)
  /\ \E outcome \in RequestedOutcome(code, type) :
       session' = [ session EXCEPT
         ![index[m, k]] = [ @ EXCEPT !.state   = Last(CreatePath(code)),
                                     !.outcome = outcome ] ]
  /\ uncommitted' = uncommitted \cup { Row(index[m, k], Last(CreatePath(code))) }
  /\ UNCHANGED << settings, index, books, audit, lost, restarts, money, born >>

\* A request with a known key returns that session as it is, whatever the
\* amount and the protocol asked for now, and audits it once more.
CreateAgain(m, k, code, type) ==
  /\ Serving
  /\ Known(m, k)
  /\ RequestedOutcome(code, type) # {}
  /\ uncommitted' = uncommitted \cup { Row(index[m, k], session[index[m, k]].state) }
  /\ UNCHANGED << settings, session, index, books, audit, lost, restarts,
                  money, born >>

-----------------------------------------------------------------------------
(* authorize *)

Owned(m, s) == session[s] # Null /\ session[s].merchant = m

(***************************************************************************)
(* Only a session in PROTOCOL_SELECTED: the branch for AMOUNT_ENTERED      *)
(* wants a protocol that create would have moved on for.  No guard follows *)
(* that fails after the state has moved.                                   *)
(***************************************************************************)
CanAuthorize(m, s) ==
  /\ Serving
  /\ Owned(m, s)
  /\ session[s].state = "PROTOCOL_SELECTED"
  /\ ExecutionAllowed(settings.environment)

\* The outcomes that authorise and leave the capture for later.
HoldsOnly == { "pre_auth", "offline_auth", "signature" }

\* The scenario a request names, or else the one the processor finds.
AskedScenario(card, outcome) ==
  IF card.scenario # NoScenario
    THEN card.scenario
    ELSE ResolveScenario(card.cents, card.token, outcome)

Presented == << "PROTOCOL_SELECTED", "CARD_PRESENTED", "AUTHORIZING" >>

\* A completion left for the operator to capture.
AuthorizePathUncompleted(status, outcome) ==
  CASE status = "APPROVED" /\ outcome \in HoldsOnly \cup { "completion" } ->
         Presented \o << "APPROVED" >>
    [] status = "APPROVED" /\ outcome \notin HoldsOnly \cup { "completion" } ->
         Presented \o << "APPROVED", "CAPTURED", "COMPLETED" >>
    [] status = "DECLINED"  -> Presented \o << "DECLINED" >>
    [] status = "CANCELLED" -> Presented \o << "CANCELLED" >>
    [] status \in { "TIMEOUT", "ERROR" } -> Presented \o << "FAILED" >>

\* Where the processor's answer takes the session.  The capture of a sale is
\* made of the result just stored as APPROVED, and cannot raise.
AuthorizePath(status, outcome) ==
  CASE status = "APPROVED" /\ outcome \in HoldsOnly ->
         Presented \o << "APPROVED" >>
    [] status = "APPROVED" /\ outcome = "completion" ->
         Presented \o << "APPROVED", "COMPLETED" >>
    [] status = "APPROVED" /\ outcome \notin HoldsOnly \cup { "completion" } ->
         Presented \o << "APPROVED", "CAPTURED", "COMPLETED" >>
    [] status = "DECLINED"  -> Presented \o << "DECLINED" >>
    [] status = "CANCELLED" -> Presented \o << "CANCELLED" >>
    [] status \in { "TIMEOUT", "ERROR" } -> Presented \o << "FAILED" >>

\* What it leaves in the processor's books under the new reference.
AuthorizeBooks(ref, status, outcome) ==
  LET answered == Stored(books, ref, status)
  IN  IF status # "APPROVED" \/ outcome \in HoldsOnly THEN answered
      ELSE IF outcome = "completion"                   THEN Completed(answered, ref)
      ELSE Captured(answered, ref)

\* What the processor has done for a session on that path.
AuthorizeMoney(done, status, outcome) ==
  IF status # "APPROVED" THEN done
  ELSE IF outcome \in HoldsOnly THEN [ done EXCEPT !.held = @ + 1 ]
  ELSE [ done EXCEPT !.held = @ + 1, !.taken = @ + 1 ]

Authorize(m, s, card) ==
  /\ CanAuthorize(m, s)
  /\ settings.processor = "mock"
  /\ LET scenario == AskedScenario(card, session[s].outcome)
         status   == AuthorizationStatus(scenario)
         path     == AuthorizePath(status, session[s].outcome)
     IN  /\ AllowedPath(path)
         /\ \E ref \in Unused(books) :
              /\ books' = AuthorizeBooks(ref, status, session[s].outcome)
              /\ session' = [ session EXCEPT
                   ![s].state     = Last(path),
                   ![s].token     = card.token,
                   ![s].signature = SignatureRequired(scenario, session[s].outcome),
                   ![s].reference = ref ]
         /\ money' = [ money EXCEPT
              ![s] = AuthorizeMoney(@, status, session[s].outcome) ]
         /\ uncommitted' = uncommitted \cup { Row(s, Last(path)) }
  /\ UNCHANGED << settings, index, audit, lost, restarts, born >>

\* The stub's exception is no ValueError: the record keeps its last state, and
\* no audit row is written.
AuthorizeRaises(m, s) ==
  /\ CanAuthorize(m, s)
  /\ settings.processor = "stub"
  /\ AllowedPath(Presented)
  /\ session' = [ session EXCEPT ![s].state = Last(Presented) ]
  /\ UNCHANGED << settings, index, books, uncommitted, audit, lost, restarts,
                  money, born >>

-----------------------------------------------------------------------------
(* capture, void, refund, cancel *)

Ended(s, state) == uncommitted' = uncommitted \cup { Row(s, state) }

Capture(m, s) ==
  /\ Serving
  /\ Owned(m, s)
  /\ session[s].state = "APPROVED"
  /\ session[s].reference # Null
  /\ settings.processor = "mock"
  /\ CanCapture(books, session[s].reference)
  /\ AllowedPath(<< session[s].state, "CAPTURED", "COMPLETED" >>)
  /\ books' = Captured(books, session[s].reference)
  /\ session' = [ session EXCEPT ![s].state = "COMPLETED" ]
  /\ money' = [ money EXCEPT ![s].taken = @ + 1 ]
  /\ Ended(s, "COMPLETED")
  /\ UNCHANGED << settings, index, audit, lost, restarts, born >>

\* No state that can be voided is without a reference.
Void(m, s) ==
  /\ Serving
  /\ Owned(m, s)
  /\ CanTransition(session[s].state, "VOIDED")
  /\ session[s].reference # Null
  /\ settings.processor = "mock"
  /\ CanVoid(books, session[s].reference)
  /\ books' = Voided(books, session[s].reference)
  /\ session' = [ session EXCEPT ![s].state = "VOIDED" ]
  /\ money' = [ money EXCEPT ![s].released = @ + 1 ]
  /\ Ended(s, "VOIDED")
  /\ UNCHANGED << settings, index, audit, lost, restarts, born >>

\* A refund that forgets to move the session on.
RefundRepeatable(m, s) ==
  /\ Serving
  /\ Owned(m, s)
  /\ CanTransition(session[s].state, "REFUNDED")
  /\ session[s].reference # Null
  /\ settings.processor = "mock"
  /\ \E ref \in Unused(books) :
       /\ books' = Refunded(books, ref)
       /\ session' = [ session EXCEPT ![s].reference = ref ]
  /\ money' = [ money EXCEPT ![s].returned = @ + 1 ]
  /\ Ended(s, "COMPLETED")
  /\ UNCHANGED << settings, index, audit, lost, restarts, born >>

\* The refund has a reference of its own, which replaces the session's.
Refund(m, s) ==
  /\ Serving
  /\ Owned(m, s)
  /\ CanTransition(session[s].state, "REFUNDED")
  /\ session[s].reference # Null
  /\ settings.processor = "mock"
  /\ CanRefund(books, session[s].reference)
  /\ \E ref \in Unused(books) :
       /\ books' = Refunded(books, ref)
       /\ session' = [ session EXCEPT ![s].state = "REFUNDED",
                                      ![s].reference = ref ]
  /\ money' = [ money EXCEPT ![s].returned = @ + 1 ]
  /\ Ended(s, "REFUNDED")
  /\ UNCHANGED << settings, index, audit, lost, restarts, born >>

\* A cancel that writes no audit row.
CancelUnaudited(m, s) ==
  /\ Serving
  /\ Owned(m, s)
  /\ CanTransition(session[s].state, "CANCELLED")
  /\ session' = [ session EXCEPT ![s].state = "CANCELLED" ]
  /\ UNCHANGED << settings, index, books, uncommitted, audit, lost, restarts,
                  money, born >>

\* The operator's cancel says nothing to the processor.
Cancel(m, s) ==
  /\ Serving
  /\ Owned(m, s)
  /\ CanTransition(session[s].state, "CANCELLED")
  /\ session' = [ session EXCEPT ![s].state = "CANCELLED" ]
  /\ Ended(s, "CANCELLED")
  /\ UNCHANGED << settings, index, books, audit, lost, restarts, money, born >>

-----------------------------------------------------------------------------
(* The end of a request, and of the process *)

\* The audit row is flushed and committed, and the client is answered.
Finish(row) ==
  /\ uncommitted' = uncommitted \ { row }
  /\ audit' = audit \cup { row }
  /\ UNCHANGED << settings, session, index, books, lost, restarts, money, born >>

\* The database fails the flush or the commit: the client gets an error, and
\* what the handler did to the record and at the processor stays.
Fail(row) ==
  /\ Cardinality(lost) < MaxLost
  /\ uncommitted' = uncommitted \ { row }
  /\ lost' = lost \cup { row }
  /\ UNCHANGED << settings, session, index, books, audit, restarts, money, born >>

\* The process dies and another one starts, perhaps with other settings.
Restart(d) ==
  /\ restarts < MaxRestarts
  /\ restarts' = restarts + 1
  /\ settings' = Configured(d)
  /\ session' = NoSessions
  /\ index' = NoIndex
  /\ books' = NoBooks
  /\ uncommitted' = {}
  /\ UNCHANGED << audit, lost, money, born >>

Operate(m, s) ==
  \/ \E card \in Card : Authorize(m, s, card)
  \/ AuthorizeRaises(m, s)
  \/ Capture(m, s)
  \/ Void(m, s)
  \/ Refund(m, s)
  \/ Cancel(m, s)

Request ==
  \/ \E m \in Merchant, k \in Key \cup { NoKey }, r \in Requested :
       \/ \E s \in Session : Create(m, k, r.code, r.type, s)
       \/ CreateAgain(m, k, r.code, r.type)
  \/ \E m \in Merchant, s \in Session : Operate(m, s)

Next ==
  \/ Cardinality(uncommitted) < MaxPending /\ Request
  \/ \E row \in uncommitted : Finish(row) \/ Fail(row)
  \/ \E d \in Deployment : Restart(d)

Spec == Init /\ [][Next]_vars

=============================================================================
