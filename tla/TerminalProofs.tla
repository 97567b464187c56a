--------------------------- MODULE TerminalProofs --------------------------
(***************************************************************************)
(* Proofs about terminal sessions, for any number of sessions, merchants,  *)
(* keys, references, requests under way, restarts and lost audit rows.     *)
(***************************************************************************)
EXTENDS TerminalProperties, FiniteSetTheorems, TLAPS

-----------------------------------------------------------------------------
(* The operators the handlers are built from *)

\* A profile of the catalogue has one of the six outcomes.
LEMMA OutcomeType ==
  ASSUME NEW code, NEW type, NEW outcome \in RequestedOutcome(code, type)
  PROVE  outcome \in Outcome
<1>1. \A p \in OnlineCatalog : p.outcome \in Outcome
  BY DEF OnlineCatalog, Online, Offline, Profile, Outcome
<1>2. \A p \in OfflineCatalog : p.outcome \in Outcome
  BY DEF OfflineCatalog, Offline, Profile, Outcome
<1>3. \A p \in ValidSelection(code, type) : p.outcome \in Outcome
  BY <1>1, <1>2 DEF ValidSelection, GetProtocol, Catalog
<1>4. QED
  BY <1>3 DEF RequestedOutcome, Outcome

\* A create leaves its session before the card is presented.
LEMMA CreateEnds ==
  ASSUME NEW code
  PROVE  Last(CreatePath(code)) \in { "AMOUNT_ENTERED", "PROTOCOL_SELECTED" }
BY DEF CreatePath, Last

\* An authorisation answers with one of the five results.
LEMMA AuthorizationType ==
  ASSUME NEW scenario
  PROVE  AuthorizationStatus(scenario) \in ResultStatus
BY DEF AuthorizationStatus, ResultStatus

\* Where the handler of an authorisation leaves its session.
LEMMA AuthorizeEnds ==
  ASSUME NEW status \in ResultStatus, NEW outcome
  PROVE  Last(AuthorizePath(status, outcome)) =
           IF status = "APPROVED"
           THEN IF outcome \in HoldsOnly THEN "APPROVED" ELSE "COMPLETED"
           ELSE IF status \in { "TIMEOUT", "ERROR" } THEN "FAILED" ELSE status
<1>1. /\ Last(Presented \o << "APPROVED" >>) = "APPROVED"
      /\ Last(Presented \o << "DECLINED" >>) = "DECLINED"
      /\ Last(Presented \o << "CANCELLED" >>) = "CANCELLED"
      /\ Last(Presented \o << "FAILED" >>) = "FAILED"
  BY DEF Presented, Last
<1>2. /\ Last(Presented \o << "APPROVED", "COMPLETED" >>) = "COMPLETED"
      /\ Last(Presented \o << "APPROVED", "CAPTURED", "COMPLETED" >>) = "COMPLETED"
  BY DEF Presented, Last
<1>3. "completion" \notin HoldsOnly
  BY DEF HoldsOnly
<1>4. CASE status = "APPROVED" /\ outcome \in HoldsOnly
  BY <1>4, <1>3, <1>1 DEF AuthorizePath
<1>5. CASE status = "APPROVED" /\ outcome = "completion"
  BY <1>5, <1>3, <1>2 DEF AuthorizePath
<1>6. CASE status = "APPROVED" /\ outcome \notin HoldsOnly \cup { "completion" }
  BY <1>6, <1>2 DEF AuthorizePath
<1>7. CASE status # "APPROVED"
  BY <1>7, <1>1 DEF AuthorizePath, ResultStatus
<1>8. QED
  BY <1>4, <1>5, <1>6, <1>7

\* A process is served by the mock, by the stub, or not at all.
LEMMA ConfiguredType ==
  ASSUME NEW d \in Deployment
  PROVE  Configured(d) \in Settings
<1>1. \A key, environment :
        PaymentProcessor(key, environment) \in { "mock", "stub", "none" }
  BY DEF PaymentProcessor, Registry
<1>2. QED
  BY <1>1, SessionAssumption DEF Configured, Settings

\* A state leads to itself, and on from there.
LEMMA ReachableFacts ==
  /\ \A s \in TerminalState : s \in Reachable[s]
  /\ \A s, t, u \in TerminalState :
       t \in Reachable[s] /\ CanTransition(t, u) => u \in Reachable[s]
BY DEF Reachable, Closed, CanTransition

\* Where the handlers take a session, it could go.
LEMMA HandlersFollow ==
  ASSUME NEW start \in TerminalState
  PROVE  /\ "PROTOCOL_SELECTED" \in Reachable[start] =>
              { "AUTHORIZING", "APPROVED", "COMPLETED", "DECLINED", "CANCELLED",
                "FAILED" } \subseteq Reachable[start]
         /\ "APPROVED" \in Reachable[start] =>
              { "COMPLETED", "VOIDED", "CANCELLED" } \subseteq Reachable[start]
         /\ "COMPLETED" \in Reachable[start] => "REFUNDED" \in Reachable[start]
         /\ \A state \in { "AMOUNT_ENTERED", "AUTHORIZING" } :
              state \in Reachable[start] => "CANCELLED" \in Reachable[start]
<1>1. \A t, u \in TerminalState :
        t \in Reachable[start] /\ CanTransition(t, u) => u \in Reachable[start]
  BY ReachableFacts
<1>2. /\ CanTransition("PROTOCOL_SELECTED", "CARD_PRESENTED")
      /\ CanTransition("CARD_PRESENTED", "AUTHORIZING")
      /\ \A state \in { "APPROVED", "DECLINED", "FAILED", "CANCELLED" } :
           CanTransition("AUTHORIZING", state)
      /\ \A state \in { "COMPLETED", "VOIDED", "CANCELLED" } :
           CanTransition("APPROVED", state)
      /\ CanTransition("COMPLETED", "REFUNDED")
      /\ CanTransition("AMOUNT_ENTERED", "CANCELLED")
  BY DEF CanTransition, AllowedTerminalTransitions, TerminalState
<1>3. QED
  BY <1>1, <1>2 DEF TerminalState

-----------------------------------------------------------------------------
(* The catalogue *)

\* The codes that two profiles share, which differ in their digits.
PairedCodes == { "101.1", "101.3", "101.4" }

\* Of every profile: the code is its id, unless it is one of a pair.
LEMMA Profiles ==
  ASSUME NEW p \in Catalog
  PROVE  \/ /\ p.id = p.code /\ p.code \notin PairedCodes
         \/ /\ p.code = "101.1" /\ p.id \in { "101.1-6dg", "101.1-4dg" }
            /\ (p.digits = 6 <=> p.id = "101.1-6dg") /\ p.outcome = "capture"
         \/ /\ p.code = "101.3" /\ p.id \in { "101.3-6dg", "101.3-4dg" }
            /\ (p.digits = 6 <=> p.id = "101.3-6dg") /\ p.outcome = "capture"
         \/ /\ p.code = "101.4" /\ p.id \in { "101.4-6dg", "101.4-4dg" }
            /\ (p.digits = 6 <=> p.id = "101.4-6dg") /\ p.outcome = "capture"
<1>1. CASE p \in OnlineCatalog
  BY <1>1 DEF OnlineCatalog, Online, Offline, Profile, PairedCodes
<1>2. CASE p \in OfflineCatalog
  BY <1>2 DEF OfflineCatalog, Offline, Profile, PairedCodes
<1>3. QED
  BY <1>1, <1>2 DEF Catalog

\* An id names one profile.
LEMMA IdsDiffer ==
  ASSUME NEW p \in Catalog, NEW q \in Catalog, p.id = q.id
  PROVE  p = q
<1>1. CASE p \in OnlineCatalog /\ q \in OnlineCatalog
  BY <1>1 DEF OnlineCatalog, Online, Offline, Profile
<1>2. CASE p \in OfflineCatalog /\ q \in OfflineCatalog
  BY <1>2 DEF OfflineCatalog, Offline, Profile
<1>3. CASE p \in OnlineCatalog /\ q \in OfflineCatalog
  BY <1>3 DEF OnlineCatalog, OfflineCatalog, Online, Offline, Profile
<1>4. CASE p \in OfflineCatalog /\ q \in OnlineCatalog
  BY <1>4 DEF OnlineCatalog, OfflineCatalog, Online, Offline, Profile
<1>5. QED
  BY <1>1, <1>2, <1>3, <1>4 DEF Catalog

\* The id of a profile leads to that profile.
LEMMA IdLeads ==
  ASSUME NEW p \in Catalog
  PROVE  GetProtocol(p.id) = { p }
<1>1. { q \in Catalog : q.id = p.id } = { p }
  BY IdsDiffer
<1>2. QED
  BY <1>1 DEF GetProtocol

\* A code leads to one profile, which behaves as any other of that code.
LEMMA CodeLeads ==
  ASSUME NEW p \in Catalog
  PROVE  \E q \in Catalog :
           /\ GetProtocol(p.code) = { q }
           /\ q.code = p.code /\ q.outcome = p.outcome
<1> DEFINE named == { q \in Catalog : q.id = p.code }
           six == { q \in Catalog : q.code = p.code /\ q.digits = 6 }
<1>1. CASE p.code \notin PairedCodes
  <2>1. p.id = p.code
    BY <1>1, Profiles DEF PairedCodes
  <2>2. QED
    BY <2>1, IdLeads
<1>2. CASE p.code \in PairedCodes
  <2>1. \A q \in Catalog : q.id # p.code
    BY <1>2, Profiles DEF PairedCodes
  <2>2. PICK q \in Catalog : q.code = p.code /\ q.digits = 6
    <3>1. \A c \in PairedCodes : \E q \in OnlineCatalog : q.code = c /\ q.digits = 6
      <4>1. { Online("101.1-6dg", "101.1", 6, "capture"),
              Online("101.3-6dg", "101.3", 6, "capture"),
              Online("101.4-6dg", "101.4", 6, "capture") } \subseteq OnlineCatalog
        BY DEF OnlineCatalog
      <4>2. \A id, c : /\ Online(id, c, 6, "capture").code = c
                       /\ Online(id, c, 6, "capture").digits = 6
        BY DEF Online, Profile
      <4>3. QED
        BY <4>1, <4>2 DEF PairedCodes
    <3>2. QED
      BY <1>2, <3>1 DEF Catalog
  <2>3. \A r \in Catalog : r.code = p.code /\ r.digits = 6 => r.id = q.id
    BY <1>2, <2>2, Profiles DEF PairedCodes
  <2>4. six = { q }
    BY <2>2, <2>3, IdsDiffer
  <2>5. named = {}
    BY <2>1
  <2>6. GetProtocol(p.code) = { q }
    BY <2>4, <2>5 DEF GetProtocol
  <2>7. q.outcome = p.outcome
    BY <1>2, <2>2, Profiles DEF PairedCodes
  <2>8. QED
    BY <2>2, <2>6, <2>7
<1>3. QED
  BY <1>1, <1>2

\* The flags of the gateway's charge for a profile, by its id or its code.
LEMMA FlagsOf ==
  ASSUME NEW p \in Catalog, NEW key \in { p.id, p.code }, NEW token, NEW scenario
  PROVE  LET asked == \/ scenario = "signature"
                      \/ "signature" \in token
                      \/ p.outcome = "signature"
         IN  /\ ChargeFlags(key, token, scenario)[1] <=> asked
             /\ ChargeFlags(key, token, scenario)[2] <=>
                  asked \/ p.outcome \in HoldsOnly
<1>1. { q.outcome : q \in GetProtocol(key) } = { p.outcome }
  <2>1. CASE key = p.id
    BY <2>1, IdLeads
  <2>2. CASE key = p.code
    BY <2>2, CodeLeads
  <2>3. QED
    BY <2>1, <2>2
<1> DEFINE signature == "signature" \in { q.outcome : q \in GetProtocol(key) }
           deferred == { q.outcome : q \in GetProtocol(key) }
                         \cap { "pre_auth", "offline_auth", "signature" } # {}
           wanted == scenario = "signature" \/ "signature" \in token
<1>2. /\ signature <=> p.outcome = "signature"
      /\ deferred <=> p.outcome \in { "pre_auth", "offline_auth", "signature" }
  BY <1>1
<1>3. /\ ChargeFlags(key, token, scenario)[1] =
           (\/ scenario = "signature" \/ "signature" \in token \/ signature)
      /\ ChargeFlags(key, token, scenario)[2] =
           (\/ (\/ scenario = "signature" \/ "signature" \in token \/ signature)
            \/ deferred)
  BY Zenon DEF ChargeFlags
<1> HIDE DEF signature, deferred
<1>4. QED
  BY <1>2, <1>3 DEF HoldsOnly

\* The adapter holds what the terminal holds, and what the token wants signed.
LEMMA AdapterOf ==
  ASSUME NEW p, NEW token
  PROVE  AdapterStatus(p, token) =
           IF "declined" \in token THEN "DECLINED"
           ELSE IF p.outcome \in HoldsOnly \/ "signature" \in token
             THEN "AUTHORIZED"
             ELSE "CAPTURED"
BY DEF AdapterStatus, HoldsOnly

-----------------------------------------------------------------------------
(* The inductive invariant *)

\* What a session's record, the operations made for it, the books and the
\* processor of the running process have to say of each other.
Truthful(r, done, kept, processor) ==
  /\ done \in MoneyOf(r.state)
  /\ r.state \in { "APPROVED", "COMPLETED", "REFUNDED" } =>
       r.reference # Null /\ kept[r.reference] = "APPROVED"
  /\ r.state = "VOIDED" => r.reference # Null /\ kept[r.reference] = "CANCELLED"
  /\ r.state = "DECLINED" => r.reference # Null /\ kept[r.reference] = "DECLINED"
  /\ r.reference # Null => kept[r.reference] # Null
  /\ r.state = "APPROVED" => r.outcome \in HoldsOnly
  /\ r.state = "AUTHORIZING" => processor = "stub" /\ r.reference = Null
  /\ r.state \in { "AMOUNT_ENTERED", "PROTOCOL_SELECTED" } => r.reference = Null

AllTruthful ==
  \A s \in Session :
    session[s] # Null =>
      Truthful(session[s], money[s], books, settings.processor)

\* A reference names one session.
OneSessionPerReference ==
  \A s, t \in Session :
    ( /\ s # t
      /\ session[s] # Null /\ session[t] # Null
      /\ session[s].reference # Null ) =>
        session[s].reference # session[t].reference

\* Nothing was done for a session before its create.
Unborn ==
  \A s \in Session :
    born[s] = Null => session[s] = Null /\ money[s] = NothingDone

Lives == \A s \in Session : born[s] # Null => born[s].life <= restarts

\* The index finds whatever this process made with a key, and nothing else
\* than a session of its store.
Indexed ==
  /\ \A s \in Session :
       ( /\ born[s] # Null
         /\ born[s].life = restarts
         /\ born[s].key # NoKey ) =>
           index[<< born[s].merchant, born[s].key >>] = s
  /\ \A mk \in Merchant \X Key :
       index[mk] # Null => session[index[mk]] # Null

\* One process makes one session with a key.
OneSessionPerKey ==
  \A s, t \in Session :
    ( /\ s # t
      /\ born[s] # Null /\ born[t] # Null
      /\ born[s].merchant = born[t].merchant
      /\ born[s].key = born[t].key
      /\ born[s].key # NoKey ) => born[s].life # born[t].life

\* No money moves in production, so none can be taken or returned there.
ProductionDoesNothing ==
  settings.environment \in { "production", "prod" } =>
    \A s \in Session : session[s] # Null => money[s] = NothingDone

\* Audit rows are of sessions that were made.
RowsBorn ==
  \A row \in uncommitted \cup audit \cup lost : born[row.session] # Null

\* An authorisation by a protocol that wants a signature has asked for it.
Signed ==
  \A s \in Session :
    ( /\ session[s] # Null
      /\ money[s].held > 0
      /\ session[s].outcome = "signature" ) => session[s].signature

\* The trail of a session shows a rest in APPROVED exactly when its money was
\* held for a later capture.
Trail ==
  \A s \in Session :
    session[s] # Null =>
      ( OnTrail(s, "APPROVED") <=>
          money[s].held > 0 /\ session[s].outcome \in HoldsOnly )

TerminalInv ==
  /\ TypeOK
  /\ Signed
  /\ Trail
  /\ AllTruthful
  /\ OneSessionPerReference
  /\ Unborn
  /\ Lives
  /\ Indexed
  /\ OneSessionPerKey
  /\ ProductionDoesNothing
  /\ ChangesAudited
  /\ RowsBorn
  /\ AuditPrecedesAnswer

-----------------------------------------------------------------------------
(* The operations on a session that exists *)

\* An operation keeps the protocol; the one that authorises rests in APPROVED
\* as the protocol says, and no later one undoes it.
Decided(s, r, done) ==
  /\ r.outcome = session[s].outcome
  /\ money[s].held > 0 =>
       done.held > 0 /\ r.signature = session[s].signature
  /\ money[s].held = 0 /\ done.held > 0 =>
       /\ r.outcome = "signature" => r.signature
       /\ r.outcome \in HoldsOnly => r.state = "APPROVED"

\* A handler leaves session s with record r, after which done is what the
\* processor has done for it.
Operation(s, r, done) ==
  /\ session[s] # Null
  /\ r \in Record
  /\ done \in Operations
  /\ session' = [ session EXCEPT ![s] = r ]
  /\ money' = [ money EXCEPT ![s] = done ]
  /\ books' \in [ Reference -> ResultStatus \cup { Null } ]
  /\ \A ref \in Reference : ref # r.reference => books'[ref] = books[ref]
  /\ r.reference # Null => \/ r.reference = session[s].reference
                           \/ books[r.reference] = Null
  /\ Truthful(r, done, books', settings.processor)
  /\ Decided(s, r, done)
  /\ uncommitted \subseteq uncommitted'
  /\ uncommitted' \subseteq AuditRow
  /\ r.state # "AUTHORIZING" => Row(s, r.state) \in uncommitted'
  /\ \A row \in uncommitted' \ uncommitted : row = Row(s, r.state)
  /\ \A start \in TerminalState :
       session[s].state \in Reachable[start] => r.state \in Reachable[start]
  /\ \/ done = money[s]
     \/ /\ settings.environment \notin { "production", "prod" }
        /\ << PhaseOf(money[s]), PhaseOf(done) >> \in Holder!Moves
        /\ PhaseOf(done) \in Holder!Phase
  /\ UNCHANGED << settings, index, audit, lost, restarts, born >>

\* An operation keeps the types.
LEMMA OperationTyped ==
  ASSUME TerminalInv, NEW s \in Session, NEW r, NEW done, Operation(s, r, done)
  PROVE  TypeOK'
BY DEF TerminalInv, TypeOK, Operation

\* What an operation stores under its reference is no other session's.
LEMMA OperationTruthful ==
  ASSUME TerminalInv, NEW s \in Session, NEW r, NEW done, Operation(s, r, done)
  PROVE  AllTruthful' /\ OneSessionPerReference'
<1>1. /\ session \in [ Session -> Record \cup { Null } ]
      /\ money \in [ Session -> Operations ]
      /\ session' = [ session EXCEPT ![s] = r ]
      /\ money' = [ money EXCEPT ![s] = done ]
      /\ settings' = settings
      /\ session[s] # Null
  BY DEF TerminalInv, TypeOK, Operation
<1>2. ASSUME NEW t \in Session, t # s, session[t] # Null
      PROVE  /\ session'[t] = session[t]
             /\ money'[t] = money[t]
             /\ session[t].reference \in Reference \cup { Null }
             /\ session[t].reference # Null =>
                  /\ session[t].reference # r.reference
                  /\ books'[session[t].reference] = books[session[t].reference]
  <2>1. session'[t] = session[t] /\ money'[t] = money[t]
    BY <1>1, <1>2
  <2>2. session[t].reference \in Reference \cup { Null }
    BY <1>1, <1>2 DEF Record
  <2>3. ASSUME session[t].reference # Null
        PROVE  session[t].reference # r.reference
    <3>1. books[session[t].reference] # Null
      BY <2>3, <1>2 DEF TerminalInv, AllTruthful, Truthful
    <3>2. session[t].reference # session[s].reference
      BY <2>3, <1>1, <1>2 DEF TerminalInv, OneSessionPerReference
    <3>3. \/ r.reference = Null
          \/ r.reference = session[s].reference
          \/ books[r.reference] = Null
      BY DEF Operation
    <3>4. QED
      BY <2>3, <3>1, <3>2, <3>3
  <2>4. ASSUME session[t].reference # Null
        PROVE  books'[session[t].reference] = books[session[t].reference]
    BY <2>2, <2>3, <2>4 DEF Operation
  <2>5. QED
    BY <2>1, <2>2, <2>3, <2>4
<1>3. session'[s] = r /\ money'[s] = done /\ r \in Record
  BY <1>1 DEF Operation
<1>4. AllTruthful'
  <2>1. SUFFICES ASSUME NEW t \in Session, session'[t] # Null
                 PROVE  Truthful(session'[t], money'[t], books',
                                 settings'.processor)
    BY DEF AllTruthful
  <2>2. CASE t = s
    BY <2>2, <1>1, <1>3 DEF Operation
  <2>3. CASE t # s
    <3>1. session[t] # Null
      BY <2>1, <2>3, <1>1
    <3>2. Truthful(session[t], money[t], books, settings.processor)
      BY <3>1 DEF TerminalInv, AllTruthful
    <3>3. Truthful(session[t], money[t], books', settings.processor)
      BY <3>1, <3>2, <2>3, <1>2 DEF Truthful
    <3>4. QED
      BY <3>1, <3>3, <2>3, <1>1, <1>2
  <2>4. QED
    BY <2>2, <2>3
<1>5. OneSessionPerReference'
  <2>1. SUFFICES ASSUME NEW t \in Session, NEW u \in Session, t # u,
                        session'[t] # Null, session'[u] # Null,
                        session'[t].reference # Null
                 PROVE  session'[t].reference # session'[u].reference
    BY DEF OneSessionPerReference
  <2>2. CASE t = s
    <3>1. session[u] # Null
      BY <2>1, <2>2, <1>1
    <3>2. QED
      BY <3>1, <2>1, <2>2, <1>2, <1>3
  <2>3. CASE u = s
    <3>1. session[t] # Null
      BY <2>1, <2>3, <1>1
    <3>2. QED
      BY <3>1, <2>1, <2>3, <1>2, <1>3
  <2>4. CASE t # s /\ u # s
    BY <2>1, <2>4, <1>1 DEF TerminalInv, OneSessionPerReference
  <2>5. QED
    BY <2>2, <2>3, <2>4
<1>6. QED
  BY <1>4, <1>5

\* No operation makes a session or forgets one.
LEMMA OperationKeeps ==
  ASSUME TerminalInv, NEW s \in Session, NEW r, NEW done, Operation(s, r, done)
  PROVE  TerminalInv'
<1>1. /\ session \in [ Session -> Record \cup { Null } ]
      /\ money \in [ Session -> Operations ]
      /\ index \in [ Merchant \X Key -> Session \cup { Null } ]
      /\ session' = [ session EXCEPT ![s] = r ]
      /\ money' = [ money EXCEPT ![s] = done ]
      /\ born' = born /\ restarts' = restarts /\ index' = index
      /\ session[s] # Null
      /\ r \in Record
  BY DEF TerminalInv, TypeOK, Operation
<1>2. Unborn'
  <2>1. born[s] # Null
    BY <1>1 DEF TerminalInv, Unborn
  <2>2. QED
    BY <2>1, <1>1 DEF TerminalInv, Unborn
<1>3. Lives' /\ OneSessionPerKey'
  BY <1>1 DEF TerminalInv, Lives, OneSessionPerKey
<1>4. \A t \in Session : session[t] # Null => session'[t] # Null
  BY <1>1, NullAssumption
<1>5. Indexed'
  BY <1>1, <1>4 DEF TerminalInv, Indexed
<1>6. ChangesAudited'
  <2>1. SUFFICES ASSUME NEW t \in Session, session'[t] # Null,
                        session'[t].state # "AUTHORIZING"
                 PROVE  Row(t, session'[t].state) \in
                          uncommitted' \cup audit' \cup lost'
    BY DEF ChangesAudited, Row
  <2>2. CASE t = s
    BY <2>1, <2>2, <1>1 DEF Operation
  <2>3. CASE t # s
    <3>1. session'[t] = session[t]
      BY <2>3, <1>1
    <3>2. QED
      BY <3>1, <2>1 DEF TerminalInv, ChangesAudited, Operation
  <2>4. QED
    BY <2>2, <2>3
<1>7. ProductionDoesNothing'
  BY <1>1 DEF TerminalInv, ProductionDoesNothing, Operation
<1>8. born[s] # Null
  BY <1>1 DEF TerminalInv, Unborn
<1>9. /\ \A row \in uncommitted' \ uncommitted : row = Row(s, r.state)
      /\ audit' = audit /\ lost' = lost
  BY DEF Operation
<1>10. RowsBorn'
  BY <1>1, <1>8, <1>9 DEF TerminalInv, RowsBorn, Row
<1>11. AuditPrecedesAnswer'
  <2>1. SUFFICES ASSUME NEW row \in uncommitted' \cup audit' \cup lost',
                        session'[row.session] # Null
                 PROVE  session'[row.session].state \in Reachable[row.state]
    BY DEF AuditPrecedesAnswer
  <2>2. row \in AuditRow
    BY <1>9, OperationTyped DEF TypeOK
  <2>3. CASE row \in uncommitted' \ uncommitted
    <3>1. row.session = s /\ row.state = r.state
      BY <2>3, <1>9 DEF Row
    <3>2. session'[s] = r
      BY <1>1
    <3>3. r.state \in TerminalState
      BY <1>1 DEF Record
    <3>4. QED
      BY <3>1, <3>2, <3>3, ReachableFacts
  <2>4. CASE row \in uncommitted \cup audit \cup lost
    <3>1. CASE row.session = s
      <4>1. session[s].state \in Reachable[row.state]
        BY <2>4, <3>1, <1>1 DEF TerminalInv, AuditPrecedesAnswer
      <4>2. row.state \in TerminalState
        BY <2>2 DEF AuditRow
      <4>3. r.state \in Reachable[row.state]
        BY <4>1, <4>2 DEF Operation
      <4>4. QED
        BY <4>3, <3>1, <1>1
    <3>2. CASE row.session # s
      <4>1. row.session \in Session
        BY <2>2 DEF AuditRow
      <4>2. session'[row.session] = session[row.session]
        BY <4>1, <3>2, <1>1
      <4>3. QED
        BY <4>2, <2>1, <2>4 DEF TerminalInv, AuditPrecedesAnswer
    <3>3. QED
      BY <3>1, <3>2
  <2>5. QED
    BY <2>1, <2>3, <2>4, <1>9
<1>12. /\ session'[s] = r /\ money'[s] = done /\ done \in Operations
       /\ \A t \in Session \ {s} : session'[t] = session[t] /\ money'[t] = money[t]
       /\ money[s].held \in Nat /\ done.held \in Nat
  BY <1>1 DEF Operation, Operations
<1>13. Decided(s, r, done)
  BY DEF Operation
<1>14. Signed'
  <2>1. SUFFICES ASSUME NEW t \in Session, session'[t] # Null,
                        money'[t].held > 0, session'[t].outcome = "signature"
                 PROVE  session'[t].signature
    BY DEF Signed
  <2>2. CASE t = s
    <3>1. CASE money[s].held > 0
      BY <2>1, <2>2, <3>1, <1>1, <1>12, <1>13 DEF Decided, TerminalInv, Signed
    <3>2. CASE money[s].held = 0
      BY <2>1, <2>2, <3>2, <1>12, <1>13 DEF Decided
    <3>3. QED
      BY <3>1, <3>2, <1>12
  <2>3. CASE t # s
    BY <2>1, <2>3, <1>12 DEF TerminalInv, Signed
  <2>4. QED
    BY <2>2, <2>3
<1>15. Trail'
  <2>1. SUFFICES ASSUME NEW t \in Session, session'[t] # Null
                 PROVE  Row(t, "APPROVED") \in uncommitted' \cup audit' \cup lost'
                          <=> /\ money'[t].held > 0
                              /\ session'[t].outcome \in HoldsOnly
    BY DEF Trail, OnTrail, Row
  <2> DEFINE rested(t0) == Row(t0, "APPROVED") \in uncommitted \cup audit \cup lost
  <2>2. \A t0 \in Session : session[t0] # Null =>
          (rested(t0) <=> money[t0].held > 0 /\ session[t0].outcome \in HoldsOnly)
    BY DEF TerminalInv, Trail, OnTrail
  <2>3. uncommitted \subseteq uncommitted'
    BY DEF Operation
  <2>4. CASE t = s
    <3>1. Row(s, "APPROVED") \in uncommitted' \cup audit' \cup lost' =>
            rested(s) \/ r.state = "APPROVED"
      BY <1>9 DEF Row
    <3>2. r.state = "APPROVED" => /\ done.held > 0 /\ r.outcome \in HoldsOnly
                                  /\ Row(s, "APPROVED") \in uncommitted'
      <4>1. ASSUME r.state = "APPROVED"
            PROVE  done = Done(1, 0, 0, 0) /\ r.outcome \in HoldsOnly
        BY <4>1 DEF Operation, Truthful, MoneyOf
      <4>2. Done(1, 0, 0, 0).held = 1
        BY DEF Done
      <4>3. QED
        BY <4>1, <4>2 DEF Operation
    <3>3. rested(s) => done.held > 0 /\ r.outcome \in HoldsOnly
      BY <2>2, <1>1, <1>13 DEF Decided
    <3>4. done.held > 0 /\ r.outcome \in HoldsOnly =>
            rested(s) \/ r.state = "APPROVED"
      BY <2>2, <1>1, <1>12, <1>13 DEF Decided
    <3>5. rested(s) => Row(s, "APPROVED") \in uncommitted' \cup audit' \cup lost'
      BY <2>3, <1>9
    <3>6. QED
      BY <3>1, <3>2, <3>3, <3>4, <3>5, <2>4, <1>12
  <2>5. CASE t # s
    <3>1. Row(t, "APPROVED") \in uncommitted' \cup audit' \cup lost' <=> rested(t)
      BY <2>3, <2>5, <1>9 DEF Row
    <3>2. QED
      BY <3>1, <2>1, <2>2, <2>5, <1>12
  <2>6. QED
    BY <2>4, <2>5
<1>16. QED
  BY <1>2, <1>3, <1>5, <1>6, <1>7, <1>10, <1>11, <1>14, <1>15, OperationTyped,
     OperationTruthful DEF TerminalInv

-----------------------------------------------------------------------------
(* Each handler is an operation *)

\* How the records of what was done compare.
LEMMA Phases ==
  /\ PhaseOf(Done(0, 0, 0, 0)) = "none"
  /\ PhaseOf(Done(1, 0, 0, 0)) = "held"
  /\ PhaseOf(Done(1, 1, 0, 0)) = "taken"
  /\ PhaseOf(Done(1, 0, 1, 0)) = "released"
  /\ PhaseOf(Done(1, 1, 0, 1)) = "returned"
  /\ \A a, b, c, d \in Nat : Done(a, b, c, d) \in Operations
BY DEF PhaseOf, Done, Operations

\* One more operation on one of those records.
LEMMA Counts ==
  ASSUME NEW x \in Operations
  PROVE  /\ x = Done(x.held, x.taken, x.released, x.returned)
         /\ [ x EXCEPT !.held = @ + 1 ] =
              Done(x.held + 1, x.taken, x.released, x.returned)
         /\ [ x EXCEPT !.held = @ + 1, !.taken = @ + 1 ] =
              Done(x.held + 1, x.taken + 1, x.released, x.returned)
         /\ [ x EXCEPT !.taken = @ + 1 ] =
              Done(x.held, x.taken + 1, x.released, x.returned)
         /\ [ x EXCEPT !.released = @ + 1 ] =
              Done(x.held, x.taken, x.released + 1, x.returned)
         /\ [ x EXCEPT !.returned = @ + 1 ] =
              Done(x.held, x.taken, x.released, x.returned + 1)
<1>1. \A y \in Operations : y = Done(y.held, y.taken, y.released, y.returned)
  BY DEF Operations, Done
<1>2. [ x EXCEPT !.held = @ + 1 ] \in Operations
  BY DEF Operations
<1>3. [ x EXCEPT !.taken = @ + 1 ] \in Operations
  BY DEF Operations
<1>4. [ x EXCEPT !.released = @ + 1 ] \in Operations
  BY DEF Operations
<1>5. [ x EXCEPT !.returned = @ + 1 ] \in Operations
  BY DEF Operations
<1>6. [ x EXCEPT !.held = @ + 1, !.taken = @ + 1 ] \in Operations
  <2>1. [ x EXCEPT !.held = @ + 1, !.taken = @ + 1 ] =
          [ [ x EXCEPT !.held = @ + 1 ] EXCEPT !.taken = @ + 1 ]
    OBVIOUS
  <2>2. \A y \in Operations : [ y EXCEPT !.taken = @ + 1 ] \in Operations
    BY DEF Operations
  <2>3. QED
    BY <1>2, <2>1, <2>2
<1>7. x = Done(x.held, x.taken, x.released, x.returned)
  BY <1>1
<1>8. [ x EXCEPT !.held = @ + 1 ] =
        Done(x.held + 1, x.taken, x.released, x.returned)
  BY <1>1, <1>2 DEF Operations
<1>9. [ x EXCEPT !.held = @ + 1, !.taken = @ + 1 ] =
        Done(x.held + 1, x.taken + 1, x.released, x.returned)
  BY <1>1, <1>6 DEF Operations
<1>10. [ x EXCEPT !.taken = @ + 1 ] =
         Done(x.held, x.taken + 1, x.released, x.returned)
  BY <1>1, <1>3 DEF Operations
<1>11. [ x EXCEPT !.released = @ + 1 ] =
         Done(x.held, x.taken, x.released + 1, x.returned)
  BY <1>1, <1>4 DEF Operations
<1>12. [ x EXCEPT !.returned = @ + 1 ] =
         Done(x.held, x.taken, x.released, x.returned + 1)
  BY <1>1, <1>5 DEF Operations
<1>13. QED
  BY <1>7, <1>8, <1>9, <1>10, <1>11, <1>12

\* What the invariant says of a session before an operation.
LEMMA Before ==
  ASSUME TerminalInv, NEW s \in Session, session[s] # Null
  PROVE  /\ session[s] \in Record
         /\ money[s] \in Operations
         /\ Truthful(session[s], money[s], books, settings.processor)
BY DEF TerminalInv, TypeOK, AllTruthful

\* A record of which only the state is assigned.
LEMMA Moved ==
  ASSUME TypeOK, NEW s \in Session, session[s] # Null, NEW state \in TerminalState
  PROVE  LET r == [ session[s] EXCEPT !.state = state ]
         IN  /\ r \in Record
             /\ r.state = state /\ r.reference = session[s].reference
             /\ r.outcome = session[s].outcome
             /\ r.signature = session[s].signature
             /\ [ session EXCEPT ![s].state = state ] = [ session EXCEPT ![s] = r ]
<1>1. session[s] \in Record
  BY DEF TypeOK
<1>2. QED
  BY <1>1 DEF TypeOK, Record

\* The audit row of an operation.
LEMMA Audited ==
  ASSUME TypeOK, NEW s \in Session, NEW state \in TerminalState
  PROVE  uncommitted \cup { Row(s, state) } \subseteq AuditRow
BY DEF TypeOK, AuditRow, Row

\* The capture of what was held takes it.
LEMMA CaptureOperates ==
  ASSUME TerminalInv, NEW m \in Merchant, NEW s \in Session, Capture(m, s)
  PROVE  \E r, done : Operation(s, r, done)
<1> DEFINE r == [ session[s] EXCEPT !.state = "COMPLETED" ]
           done == Done(1, 1, 0, 0)
<1>1. session[s] # Null /\ session[s].state = "APPROVED" /\ TypeOK
  BY DEF Capture, Owned, TerminalInv
<1>2. "COMPLETED" \in TerminalState
  BY DEF TerminalState
<1>3. /\ r \in Record
      /\ r.state = "COMPLETED" /\ r.reference = session[s].reference
      /\ r.outcome = session[s].outcome /\ r.signature = session[s].signature
      /\ session' = [ session EXCEPT ![s] = r ]
  BY <1>1, <1>2, Moved DEF Capture
<1>4. /\ money[s] = Done(1, 0, 0, 0)
      /\ session[s].reference # Null /\ session[s].reference \in Reference
  BY <1>1, Before DEF Truthful, MoneyOf, Record
<1>5. money' = [ money EXCEPT ![s] = done ]
  <2>1. [ money[s] EXCEPT !.taken = @ + 1 ] = done
    <3>1. /\ money[s].held = 1 /\ money[s].taken = 0
          /\ money[s].released = 0 /\ money[s].returned = 0
      BY <1>4 DEF Done
    <3>2. money[s] \in Operations
      BY <1>1, Before
    <3>3. [ money[s] EXCEPT !.taken = @ + 1 ] =
            Done(money[s].held, money[s].taken + 1, money[s].released,
                 money[s].returned)
      BY <3>2, Counts
    <3>4. QED
      BY <3>1, <3>3
  <2>2. QED
    BY <2>1 DEF Capture, TerminalInv, TypeOK
<1>6. books' = [ books EXCEPT ![session[s].reference] = "APPROVED" ]
  BY DEF Capture, Captured, Stored
<1>7. /\ books' \in [ Reference -> ResultStatus \cup { Null } ]
      /\ books'[r.reference] = "APPROVED"
      /\ \A ref \in Reference : ref # r.reference => books'[ref] = books[ref]
  BY <1>1, <1>3, <1>4, <1>6 DEF TypeOK, ResultStatus
<1>8. Truthful(r, done, books', settings.processor)
  BY <1>3, <1>4, <1>7, NullAssumption DEF Truthful, MoneyOf, ResultStatus
<1>9. settings.environment \notin { "production", "prod" }
  BY <1>1, <1>4, Phases DEF TerminalInv, ProductionDoesNothing, NothingDone, Done
<1>10. /\ uncommitted \subseteq uncommitted'
       /\ uncommitted' \subseteq AuditRow
       /\ Row(s, r.state) \in uncommitted'
       /\ \A row \in uncommitted' \ uncommitted : row = Row(s, r.state)
  BY <1>1, <1>2, <1>3, Audited DEF Capture, Ended
<1>11. /\ << PhaseOf(money[s]), PhaseOf(done) >> \in Holder!Moves
       /\ PhaseOf(done) \in Holder!Phase
       /\ done \in Operations
  BY <1>4, Phases DEF Holder!Moves, Holder!Phase
<1>12. UNCHANGED << settings, index, audit, lost, restarts, born >>
  BY DEF Capture
<1>13. \A start \in TerminalState :
         session[s].state \in Reachable[start] => r.state \in Reachable[start]
  BY <1>1, <1>3, HandlersFollow
<1>14. Decided(s, r, done)
  <2>1. money[s].held = 1 /\ done.held = 1
    BY <1>4 DEF Done
  <2> HIDE DEF r, done
  <2>2. QED
    BY <2>1, <1>3 DEF Decided
<1>15. Operation(s, r, done)
  <2> HIDE DEF r, done
  <2> QED
    BY <1>1, <1>3, <1>5, <1>7, <1>8, <1>9, <1>10, <1>11, <1>12, <1>13, <1>14
       DEF Operation
<1>16. QED
  BY <1>15

-----------------------------------------------------------------------------

\* The states that may be voided, refunded or cancelled, of those in which a
\* session may rest.
LEMMA Leaving ==
  ASSUME NEW state \in TerminalState, NEW done \in MoneyOf(state)
  PROVE  /\ CanTransition(state, "VOIDED") => state = "APPROVED"
         /\ CanTransition(state, "REFUNDED") => state = "COMPLETED"
         /\ CanTransition(state, "CANCELLED") =>
              state \in { "AMOUNT_ENTERED", "PROTOCOL_SELECTED", "AUTHORIZING",
                         "APPROVED" }
<1>1. /\ CanTransition(state, "VOIDED") => state \in { "APPROVED", "CAPTURED" }
      /\ CanTransition(state, "REFUNDED") => state \in { "CAPTURED", "COMPLETED" }
      /\ CanTransition(state, "CANCELLED") =>
           state \in { "CREATED", "AMOUNT_ENTERED", "PROTOCOL_SELECTED",
                      "CARD_PRESENTED", "CARD_DATA_READ", "AUTHORIZING",
                      "APPROVED" }
  BY DEF CanTransition, AllowedTerminalTransitions, TerminalState
<1>2. state \notin { "CREATED", "CARD_PRESENTED", "CARD_DATA_READ", "CAPTURED" }
  BY DEF MoneyOf
<1>3. QED
  BY <1>1, <1>2

\* The void of what was held releases it.
LEMMA VoidOperates ==
  ASSUME TerminalInv, NEW m \in Merchant, NEW s \in Session, Void(m, s)
  PROVE  \E r, done : Operation(s, r, done)
<1> DEFINE r == [ session[s] EXCEPT !.state = "VOIDED" ]
           done == Done(1, 0, 1, 0)
<1>1. session[s] # Null /\ session[s].state = "APPROVED" /\ TypeOK
  <2>1. session[s] # Null /\ TypeOK /\ CanTransition(session[s].state, "VOIDED")
    BY DEF Void, Owned, TerminalInv
  <2>2. session[s].state \in TerminalState /\ money[s] \in MoneyOf(session[s].state)
    BY <2>1, Before DEF Truthful, Record
  <2>3. QED
    BY <2>1, <2>2, Leaving
<1>2. "VOIDED" \in TerminalState
  BY DEF TerminalState
<1>3. /\ r \in Record
      /\ r.state = "VOIDED" /\ r.reference = session[s].reference
      /\ r.outcome = session[s].outcome /\ r.signature = session[s].signature
      /\ session' = [ session EXCEPT ![s] = r ]
  BY <1>1, <1>2, Moved DEF Void
<1>4. /\ money[s] = Done(1, 0, 0, 0)
      /\ session[s].reference # Null /\ session[s].reference \in Reference
  BY <1>1, Before DEF Truthful, MoneyOf, Record
<1>5. money' = [ money EXCEPT ![s] = done ]
  <2>1. [ money[s] EXCEPT !.released = @ + 1 ] = done
    <3>1. /\ money[s].held = 1 /\ money[s].taken = 0
          /\ money[s].released = 0 /\ money[s].returned = 0
      BY <1>4 DEF Done
    <3>2. money[s] \in Operations
      BY <1>1, Before
    <3>3. [ money[s] EXCEPT !.released = @ + 1 ] =
            Done(money[s].held, money[s].taken, money[s].released + 1,
                 money[s].returned)
      BY <3>2, Counts
    <3>4. QED
      BY <3>1, <3>3
  <2>2. QED
    BY <2>1 DEF Void, TerminalInv, TypeOK
<1>6. books' = [ books EXCEPT ![session[s].reference] = "CANCELLED" ]
  BY DEF Void, Voided, Stored
<1>7. /\ books' \in [ Reference -> ResultStatus \cup { Null } ]
      /\ books'[r.reference] = "CANCELLED"
      /\ \A ref \in Reference : ref # r.reference => books'[ref] = books[ref]
  BY <1>1, <1>3, <1>4, <1>6 DEF TypeOK, ResultStatus
<1>8. Truthful(r, done, books', settings.processor)
  BY <1>3, <1>4, <1>7, NullAssumption DEF Truthful, MoneyOf, ResultStatus
<1>9. settings.environment \notin { "production", "prod" }
  BY <1>1, <1>4, Phases DEF TerminalInv, ProductionDoesNothing, NothingDone, Done
<1>10. /\ uncommitted \subseteq uncommitted'
       /\ uncommitted' \subseteq AuditRow
       /\ Row(s, r.state) \in uncommitted'
       /\ \A row \in uncommitted' \ uncommitted : row = Row(s, r.state)
  BY <1>1, <1>2, <1>3, Audited DEF Void, Ended
<1>11. /\ << PhaseOf(money[s]), PhaseOf(done) >> \in Holder!Moves
       /\ PhaseOf(done) \in Holder!Phase
       /\ done \in Operations
  BY <1>4, Phases DEF Holder!Moves, Holder!Phase
<1>12. UNCHANGED << settings, index, audit, lost, restarts, born >>
  BY DEF Void
<1>13. \A start \in TerminalState :
         session[s].state \in Reachable[start] => r.state \in Reachable[start]
  BY <1>1, <1>3, HandlersFollow
<1>14. Decided(s, r, done)
  <2>1. money[s].held = 1 /\ done.held = 1
    BY <1>4 DEF Done
  <2> HIDE DEF r, done
  <2>2. QED
    BY <2>1, <1>3 DEF Decided
<1>15. Operation(s, r, done)
  <2> HIDE DEF r, done
  <2> QED
    BY <1>1, <1>3, <1>5, <1>7, <1>8, <1>9, <1>10, <1>11, <1>12, <1>13, <1>14
       DEF Operation
<1>16. QED
  BY <1>15

\* The refund of what was taken returns it, under a reference of its own.
LEMMA RefundOperates ==
  ASSUME TerminalInv, NEW m \in Merchant, NEW s \in Session, Refund(m, s)
  PROVE  \E r, done : Operation(s, r, done)
<1> DEFINE done == Done(1, 1, 0, 1)
<1>1. session[s] # Null /\ session[s].state = "COMPLETED" /\ TypeOK
  <2>1. session[s] # Null /\ TypeOK /\ CanTransition(session[s].state, "REFUNDED")
    BY DEF Refund, Owned, TerminalInv
  <2>2. session[s].state \in TerminalState /\ money[s] \in MoneyOf(session[s].state)
    BY <2>1, Before DEF Truthful, Record
  <2>3. QED
    BY <2>1, <2>2, Leaving
<1>2. "REFUNDED" \in TerminalState
  BY DEF TerminalState
<1>3. PICK ref \in Unused(books) :
        /\ books' = Refunded(books, ref)
        /\ session' = [ session EXCEPT ![s].state = "REFUNDED",
                                       ![s].reference = ref ]
  BY DEF Refund
<1> DEFINE r == [ session[s] EXCEPT !.state = "REFUNDED", !.reference = ref ]
<1>4. ref \in Reference /\ ref # Null /\ books[ref] = Null
  BY ReferenceAssumption DEF Unused
<1>5. /\ r \in Record
      /\ r.state = "REFUNDED" /\ r.reference = ref
      /\ r.outcome = session[s].outcome /\ r.signature = session[s].signature
      /\ session' = [ session EXCEPT ![s] = r ]
  <2>1. ref \in Reference \cup { Null }
    BY <1>4
  <2>2. r = [ session[s] EXCEPT !.state = "REFUNDED", !.reference = ref ]
    OBVIOUS
  <2> HIDE DEF r
  <2>3. session[s] \in Record
    BY <1>1, Before
  <2>4. /\ r \in Record /\ r.state = "REFUNDED" /\ r.reference = ref
        /\ r.outcome = session[s].outcome /\ r.signature = session[s].signature
    BY <1>2, <2>1, <2>2, <2>3 DEF Record
  <2>5. [ session EXCEPT ![s].state = "REFUNDED", ![s].reference = ref ] =
          [ session EXCEPT ![s] = r ]
    BY <1>1, <2>2, <2>3 DEF TypeOK
  <2>6. QED
    BY <1>3, <2>4, <2>5
<1>6. money[s] = Done(1, 1, 0, 0)
  BY <1>1, Before DEF Truthful, MoneyOf
<1>7. money' = [ money EXCEPT ![s] = done ]
  <2>1. [ money[s] EXCEPT !.returned = @ + 1 ] = done
    <3>1. /\ money[s].held = 1 /\ money[s].taken = 1
          /\ money[s].released = 0 /\ money[s].returned = 0
      BY <1>6 DEF Done
    <3>2. money[s] \in Operations
      BY <1>1, Before
    <3>3. [ money[s] EXCEPT !.returned = @ + 1 ] =
            Done(money[s].held, money[s].taken, money[s].released,
                 money[s].returned + 1)
      BY <3>2, Counts
    <3>4. QED
      BY <3>1, <3>3
  <2>2. QED
    BY <2>1 DEF Refund, TerminalInv, TypeOK
<1>8. /\ books' \in [ Reference -> ResultStatus \cup { Null } ]
      /\ books'[ref] = "APPROVED"
      /\ \A other \in Reference : other # ref => books'[other] = books[other]
  BY <1>1, <1>3, <1>4 DEF Refunded, Stored, TypeOK, ResultStatus
<1>9. Truthful(r, done, books', settings.processor)
  BY <1>4, <1>5, <1>8, NullAssumption DEF Truthful, MoneyOf, ResultStatus
<1>10. settings.environment \notin { "production", "prod" }
  BY <1>1, <1>6, Phases DEF TerminalInv, ProductionDoesNothing, NothingDone, Done
<1>11. /\ uncommitted \subseteq uncommitted'
       /\ uncommitted' \subseteq AuditRow
       /\ Row(s, r.state) \in uncommitted'
       /\ \A row \in uncommitted' \ uncommitted : row = Row(s, r.state)
  BY <1>1, <1>2, <1>5, Audited DEF Refund, Ended
<1>12. /\ << PhaseOf(money[s]), PhaseOf(done) >> \in Holder!Moves
       /\ PhaseOf(done) \in Holder!Phase
       /\ done \in Operations
  BY <1>6, Phases DEF Holder!Moves, Holder!Phase
<1>13. UNCHANGED << settings, index, audit, lost, restarts, born >>
  BY DEF Refund
<1>14. \A start \in TerminalState :
         session[s].state \in Reachable[start] => r.state \in Reachable[start]
  BY <1>1, <1>5, HandlersFollow
<1>15. Decided(s, r, done)
  <2>1. money[s].held = 1 /\ done.held = 1
    BY <1>6 DEF Done
  <2> HIDE DEF r, done
  <2>2. QED
    BY <2>1, <1>5 DEF Decided
<1>16. Operation(s, r, done)
  <2> HIDE DEF r, done
  <2> QED
    BY <1>1, <1>4, <1>5, <1>7, <1>8, <1>9, <1>10, <1>11, <1>12, <1>13,
       <1>14, <1>15 DEF Operation
<1>17. QED
  BY <1>16

\* A cancel leaves what was done as it is.
LEMMA CancelOperates ==
  ASSUME TerminalInv, NEW m \in Merchant, NEW s \in Session, Cancel(m, s)
  PROVE  \E r, done : Operation(s, r, done)
<1> DEFINE r == [ session[s] EXCEPT !.state = "CANCELLED" ]
<1>1. /\ session[s] # Null /\ TypeOK
      /\ session[s].state \in { "AMOUNT_ENTERED", "PROTOCOL_SELECTED",
                                "AUTHORIZING", "APPROVED" }
  <2>1. session[s] # Null /\ TypeOK /\ CanTransition(session[s].state, "CANCELLED")
    BY DEF Cancel, Owned, TerminalInv
  <2>2. session[s].state \in TerminalState /\ money[s] \in MoneyOf(session[s].state)
    BY <2>1, Before DEF Truthful, Record
  <2>3. QED
    BY <2>1, <2>2, Leaving
<1>2. "CANCELLED" \in TerminalState
  BY DEF TerminalState
<1>3. /\ r \in Record
      /\ r.state = "CANCELLED" /\ r.reference = session[s].reference
      /\ r.outcome = session[s].outcome /\ r.signature = session[s].signature
      /\ session' = [ session EXCEPT ![s] = r ]
  BY <1>1, <1>2, Moved DEF Cancel
<1>4. /\ money[s] \in { Done(0, 0, 0, 0), Done(1, 0, 0, 0) }
      /\ session[s].reference # Null => books[session[s].reference] # Null
  BY <1>1, Before DEF Truthful, MoneyOf
<1>5. money' = [ money EXCEPT ![s] = money[s] ] /\ money[s] \in Operations
  BY <1>1 DEF Cancel, TypeOK
<1>6. books' = books
  BY DEF Cancel
<1>7. Truthful(r, money[s], books', settings.processor)
  BY <1>3, <1>4, <1>6 DEF Truthful, MoneyOf
<1>8. /\ uncommitted \subseteq uncommitted'
      /\ uncommitted' \subseteq AuditRow
      /\ Row(s, r.state) \in uncommitted'
      /\ \A row \in uncommitted' \ uncommitted : row = Row(s, r.state)
  BY <1>1, <1>2, <1>3, Audited DEF Cancel, Ended
<1>9. UNCHANGED << settings, index, audit, lost, restarts, born >>
  BY DEF Cancel
<1>10. \A start \in TerminalState :
         session[s].state \in Reachable[start] => r.state \in Reachable[start]
  BY <1>1, <1>3, HandlersFollow
<1>11. Decided(s, r, money[s])
  <2> HIDE DEF r
  <2> QED
    BY <1>3, <1>5 DEF Decided, Operations
<1>12. Operation(s, r, money[s])
  <2> HIDE DEF r
  <2> QED
    BY <1>1, <1>3, <1>5, <1>6, <1>7, <1>8, <1>9, <1>10, <1>11
       DEF Operation, TypeOK
<1>13. QED
  BY <1>12

\* An authorisation that the stub refuses has done nothing.
LEMMA RaisesOperates ==
  ASSUME TerminalInv, NEW m \in Merchant, NEW s \in Session,
         AuthorizeRaises(m, s)
  PROVE  \E r, done : Operation(s, r, done)
<1> DEFINE r == [ session[s] EXCEPT !.state = "AUTHORIZING" ]
<1>1. /\ session[s] # Null /\ TypeOK
      /\ session[s].state = "PROTOCOL_SELECTED"
  BY DEF AuthorizeRaises, CanAuthorize, Owned, TerminalInv
<1>2. /\ "AUTHORIZING" \in TerminalState
      /\ Last(Presented) = "AUTHORIZING"
  BY DEF TerminalState, Presented, Last
<1>3. /\ r \in Record
      /\ r.state = "AUTHORIZING" /\ r.reference = session[s].reference
      /\ r.outcome = session[s].outcome /\ r.signature = session[s].signature
      /\ session' = [ session EXCEPT ![s] = r ]
  BY <1>1, <1>2, Moved DEF AuthorizeRaises
<1>4. money[s] = Done(0, 0, 0, 0) /\ session[s].reference = Null
  BY <1>1, Before DEF Truthful, MoneyOf
<1>5. money' = [ money EXCEPT ![s] = money[s] ] /\ money[s] \in Operations
  BY <1>1 DEF AuthorizeRaises, TypeOK
<1>6. Truthful(r, money[s], books', settings.processor)
  BY <1>3, <1>4 DEF Truthful, MoneyOf, AuthorizeRaises
<1>7. \A start \in TerminalState :
        session[s].state \in Reachable[start] => r.state \in Reachable[start]
  BY <1>1, <1>3, HandlersFollow
<1>8. Decided(s, r, money[s])
  <2> HIDE DEF r
  <2> QED
    BY <1>3, <1>5 DEF Decided, Operations
<1>9. Operation(s, r, money[s])
  <2> HIDE DEF r
  <2> QED
    BY <1>1, <1>3, <1>4, <1>5, <1>6, <1>7, <1>8
       DEF Operation, AuthorizeRaises, TypeOK
<1>10. QED
  BY <1>9

\* What an authorisation does for a session that nothing was done for.
LEMMA AuthorizeDoes ==
  ASSUME NEW done, done = Done(0, 0, 0, 0), NEW status, NEW outcome
  PROVE  AuthorizeMoney(done, status, outcome) =
           IF status # "APPROVED" THEN Done(0, 0, 0, 0)
           ELSE IF outcome \in HoldsOnly THEN Done(1, 0, 0, 0)
           ELSE Done(1, 1, 0, 0)
<1>1. /\ done.held = 0 /\ done.taken = 0
      /\ done.released = 0 /\ done.returned = 0
      /\ done \in Operations
  BY DEF Done, Operations
<1>2. [ done EXCEPT !.held = @ + 1 ] =
        Done(done.held + 1, done.taken, done.released, done.returned)
  BY <1>1, Counts
<1>3. [ done EXCEPT !.held = @ + 1, !.taken = @ + 1 ] =
        Done(done.held + 1, done.taken + 1, done.released, done.returned)
  BY <1>1, Counts
<1>4. /\ [ done EXCEPT !.held = @ + 1 ] = Done(1, 0, 0, 0)
      /\ [ done EXCEPT !.held = @ + 1, !.taken = @ + 1 ] = Done(1, 1, 0, 0)
  BY <1>1, <1>2, <1>3
<1>5. QED
  BY <1>4 DEF AuthorizeMoney

\* The mock keeps an authorisation under a new reference, with the answer.
LEMMA AuthorizeKeeps ==
  ASSUME TypeOK, NEW ref \in Reference, NEW status \in ResultStatus, NEW outcome
  PROVE  LET kept == AuthorizeBooks(ref, status, outcome)
         IN  /\ kept \in [ Reference -> ResultStatus \cup { Null } ]
             /\ kept[ref] = status
             /\ \A other \in Reference : other # ref => kept[other] = books[other]
BY DEF AuthorizeBooks, Stored, Completed, Captured, TypeOK, ResultStatus

\* An authorisation leaves in session, books and money what was answered.
LEMMA AuthorizeOperates ==
  ASSUME TerminalInv, NEW m \in Merchant, NEW s \in Session, NEW card \in Card,
         Authorize(m, s, card)
  PROVE  \E r, done : Operation(s, r, done)
<1> DEFINE outcome == session[s].outcome
           scenario == AskedScenario(card, outcome)
           status  == AuthorizationStatus(scenario)
           signed  == SignatureRequired(scenario, outcome)
           state   == Last(AuthorizePath(status, outcome))
           done    == AuthorizeMoney(money[s], status, outcome)
<1>1. /\ session[s] # Null /\ TypeOK
      /\ session[s].state = "PROTOCOL_SELECTED"
      /\ settings.environment \notin { "production", "prod" }
  BY DEF Authorize, CanAuthorize, Owned, ExecutionAllowed, TerminalInv
<1>2. /\ session[s] \in Record
      /\ money[s] = Done(0, 0, 0, 0) /\ session[s].reference = Null
  BY <1>1, Before DEF Truthful, MoneyOf
<1>3. PICK ref \in Unused(books) :
        /\ books' = AuthorizeBooks(ref, status, outcome)
        /\ session' = [ session EXCEPT ![s].state = state,
                                       ![s].token = card.token,
                                       ![s].signature = signed,
                                       ![s].reference = ref ]
  BY DEF Authorize
<1> DEFINE r == [ session[s] EXCEPT !.state = state, !.token = card.token,
                                    !.signature = signed, !.reference = ref ]
<1>4. ref \in Reference /\ ref # Null /\ books[ref] = Null
  BY ReferenceAssumption DEF Unused
<1>5. status \in ResultStatus
  BY AuthorizationType
<1>6. state = IF status = "APPROVED"
                THEN IF outcome \in HoldsOnly THEN "APPROVED" ELSE "COMPLETED"
                ELSE IF status \in { "TIMEOUT", "ERROR" } THEN "FAILED" ELSE status
  BY <1>5, AuthorizeEnds
<1>7. /\ money' = [ money EXCEPT ![s] = done ]
      /\ uncommitted' = uncommitted \cup { Row(s, state) }
      /\ UNCHANGED << settings, index, audit, lost, restarts, born >>
  BY DEF Authorize
<1>8. done = IF status # "APPROVED" THEN Done(0, 0, 0, 0)
             ELSE IF outcome \in HoldsOnly THEN Done(1, 0, 0, 0)
             ELSE Done(1, 1, 0, 0)
  BY <1>2, AuthorizeDoes
<1>8a. /\ card.token \in Token /\ signed \in BOOLEAN
       /\ status = "APPROVED" /\ outcome = "signature" => signed
  BY SessionAssumption DEF SignatureRequired
<1> HIDE DEF scenario, status, signed, outcome, state, done
<1>9. state \in TerminalState
  BY <1>5, <1>6 DEF TerminalState, ResultStatus
<1>10. /\ r \in Record
       /\ r.state = state /\ r.reference = ref /\ r.outcome = session[s].outcome
       /\ r.signature = signed
       /\ session' = [ session EXCEPT ![s] = r ]
  <2>1. r = [ session[s] EXCEPT !.state = state, !.token = card.token,
                                !.signature = signed, !.reference = ref ]
    OBVIOUS
  <2> HIDE DEF r
  <2>2. r \in Record /\ r.state = state /\ r.reference = ref
    <3>1. card.token \in Token /\ signed \in BOOLEAN
      BY <1>8a
    <3>2. session[s] \in Record /\ ref \in Reference
      BY <1>2, <1>4
    <3>3. QED
      BY <1>9, <2>1, <3>1, <3>2 DEF Record
  <2>3. r.outcome = session[s].outcome /\ r.signature = signed
    BY <1>2, <2>1 DEF Record
  <2>4. [ session EXCEPT ![s].state = state, ![s].token = card.token,
                         ![s].signature = signed, ![s].reference = ref ] =
          [ session EXCEPT ![s] = r ]
    BY <1>1, <1>2, <2>1 DEF TypeOK
  <2>5. QED
    BY <1>3, <2>2, <2>3, <2>4
<1> HIDE DEF r
<1>11. /\ books' \in [ Reference -> ResultStatus \cup { Null } ]
       /\ books'[ref] = status
       /\ \A other \in Reference : other # ref => books'[other] = books[other]
  BY <1>1, <1>3, <1>4, <1>5, AuthorizeKeeps
<1>12. status # Null
  BY <1>5, NullAssumption
<1>13. Truthful(r, done, books', settings.processor)
  <2>1. CASE status = "APPROVED" /\ outcome \in HoldsOnly
    BY <2>1, <1>4, <1>6, <1>8, <1>10, <1>11, <1>12 DEF Truthful, MoneyOf, outcome
  <2>2. CASE status = "APPROVED" /\ outcome \notin HoldsOnly
    BY <2>2, <1>4, <1>6, <1>8, <1>10, <1>11, <1>12 DEF Truthful, MoneyOf
  <2>3. CASE status # "APPROVED"
    <3>1. done = Done(0, 0, 0, 0)
      BY <2>3, <1>8
    <3>2. /\ state \in { "DECLINED", "CANCELLED", "FAILED" }
          /\ state = "DECLINED" => status = "DECLINED"
      BY <2>3, <1>5, <1>6 DEF ResultStatus
    <3>3. QED
      BY <3>1, <3>2, <1>4, <1>10, <1>11, <1>12 DEF Truthful, MoneyOf
  <2>4. QED
    BY <2>1, <2>2, <2>3
<1>14. /\ uncommitted \subseteq uncommitted'
       /\ uncommitted' \subseteq AuditRow
       /\ Row(s, r.state) \in uncommitted'
       /\ \A row \in uncommitted' \ uncommitted : row = Row(s, r.state)
  BY <1>1, <1>7, <1>9, <1>10, Audited
<1>15. done \in Operations
  BY <1>8, Phases
<1>16. \/ done = money[s]
       \/ /\ << PhaseOf(money[s]), PhaseOf(done) >> \in Holder!Moves
          /\ PhaseOf(done) \in Holder!Phase
  BY <1>2, <1>8, Phases DEF Holder!Moves, Holder!Phase
<1>17. \A start \in TerminalState :
         session[s].state \in Reachable[start] => r.state \in Reachable[start]
  <2>1. state \in { "APPROVED", "COMPLETED", "DECLINED", "CANCELLED", "FAILED" }
    BY <1>5, <1>6 DEF ResultStatus
  <2>2. QED
    BY <2>1, <1>1, <1>10, HandlersFollow
<1>18. Decided(s, r, done)
  <2>1. money[s].held = 0
    BY <1>2 DEF Done
  <2>2. done.held > 0 => status = "APPROVED"
    BY <1>8 DEF Done
  <2>3. QED
    BY <2>1, <2>2, <1>6, <1>10, <1>8a DEF Decided, outcome
<1>19. Operation(s, r, done)
  BY <1>1, <1>4, <1>7, <1>10, <1>11, <1>13, <1>14, <1>15, <1>16,
     <1>17, <1>18 DEF Operation
<1>20. QED
  BY <1>19

\* So is every request about a session.
LEMMA OperateOperates ==
  ASSUME TerminalInv, NEW m \in Merchant, NEW s \in Session, Operate(m, s)
  PROVE  \E r, done : Operation(s, r, done)
BY AuthorizeOperates, RaisesOperates, CaptureOperates, VoidOperates,
   RefundOperates, CancelOperates DEF Operate

-----------------------------------------------------------------------------
(* Every step keeps the invariant *)

\* A create makes a session for which nothing is done, and which its process
\* finds again by the key.
LEMMA CreateKeeps ==
  ASSUME TerminalInv, NEW m \in Merchant, NEW k \in Key \cup { NoKey },
         NEW code, NEW type, NEW s \in Session, Create(m, k, code, type, s)
  PROVE  TerminalInv'
<1> DEFINE state == Last(CreatePath(code))
           made == Cardinality({ t \in Session : born[t] # Null })
<1>1. PICK outcome \in RequestedOutcome(code, type) :
        session' = [ session EXCEPT ![s] = [ state     |-> state,
                                             merchant  |-> m,
                                             outcome   |-> outcome,
                                             created   |-> made,
                                             token     |-> {},
                                             signature |-> FALSE,
                                             reference |-> Null ] ]
  BY DEF Create
<1> DEFINE r == [ state |-> state, merchant |-> m, outcome |-> outcome,
                  created |-> made, token |-> {}, signature |-> FALSE,
                  reference |-> Null ]
           b == [ merchant |-> m, key |-> k, life |-> restarts ]
<1>2. /\ state \in { "AMOUNT_ENTERED", "PROTOCOL_SELECTED" }
      /\ state \in TerminalState
  BY CreateEnds DEF TerminalState
<1>made. made \in Nat
  <2>1. IsFiniteSet({ t \in Session : born[t] # Null })
    BY SessionAssumption, FS_Subset
  <2>2. QED
    BY <2>1, FS_CardinalityType
<1> HIDE DEF state, made
<1>3. r \in Record
  BY <1>1, <1>2, <1>made, OutcomeType DEF Record, Token
<1>4. b \in Birth
  BY DEF Birth, TerminalInv, TypeOK
<1>5. /\ r.state = state /\ r.reference = Null
      /\ b.merchant = m /\ b.key = k /\ b.life = restarts
  OBVIOUS
<1> HIDE DEF r, b
<1>6. /\ session' = [ session EXCEPT ![s] = r ]
      /\ born' = [ born EXCEPT ![s] = b ]
      /\ uncommitted' = uncommitted \cup { Row(s, state) }
      /\ UNCHANGED << settings, books, audit, lost, restarts, money >>
      /\ born[s] = Null
      /\ ~Known(m, k)
  BY <1>1 DEF Create, r, b, state, made
<1>7. index' = IF k = NoKey THEN index ELSE [ index EXCEPT ![<< m, k >>] = s ]
  BY DEF Create
<1>8. session[s] = Null /\ money[s] = NothingDone
  BY <1>6 DEF TerminalInv, Unborn
<1>9. /\ session \in [ Session -> Record \cup { Null } ]
      /\ born \in [ Session -> Birth \cup { Null } ]
      /\ index \in [ Merchant \X Key -> Session \cup { Null } ]
      /\ TypeOK
  BY DEF TerminalInv, TypeOK
<1>10. r # Null /\ b # Null
  BY <1>3, <1>4, NullAssumption
<1>11. /\ session'[s] = r /\ born'[s] = b
       /\ \A t \in Session \ {s} : session'[t] = session[t] /\ born'[t] = born[t]
  BY <1>6, <1>9
<1>12. TypeOK'
  <2>1. uncommitted' \subseteq AuditRow
    BY <1>2, <1>6, <1>9, Audited
  <2>2. index' \in [ Merchant \X Key -> Session \cup { Null } ]
    BY <1>7, <1>9
  <2>3. session' \in [ Session -> Record \cup { Null } ]
    BY <1>3, <1>6, <1>9
  <2>4. born' \in [ Session -> Birth \cup { Null } ]
    BY <1>4, <1>6, <1>9
  <2>5. QED
    BY <2>1, <2>2, <2>3, <2>4, <1>6, <1>9 DEF TypeOK
<1>13. AllTruthful'
  <2>1. SUFFICES ASSUME NEW t \in Session, session'[t] # Null
                 PROVE  Truthful(session'[t], money[t], books, settings.processor)
    BY <1>6 DEF AllTruthful
  <2>2. CASE t = s
    BY <2>2, <1>2, <1>5, <1>8, <1>11 DEF Truthful, MoneyOf, NothingDone, Done
  <2>3. CASE t # s
    BY <2>1, <2>3, <1>11 DEF TerminalInv, AllTruthful
  <2>4. QED
    BY <2>2, <2>3
<1>14. OneSessionPerReference'
  <2>1. SUFFICES ASSUME NEW t \in Session, NEW u \in Session, t # u,
                        session'[t] # Null, session'[u] # Null,
                        session'[t].reference # Null
                 PROVE  session'[t].reference # session'[u].reference
    BY DEF OneSessionPerReference
  <2>2. CASE t = s \/ u = s
    BY <2>1, <2>2, <1>5, <1>11
  <2>3. CASE t # s /\ u # s
    BY <2>1, <2>3, <1>11 DEF TerminalInv, OneSessionPerReference
  <2>4. QED
    BY <2>2, <2>3
<1>15. Unborn'
  BY <1>6, <1>10, <1>11 DEF TerminalInv, Unborn
<1>16. Lives'
  BY <1>5, <1>6, <1>9, <1>11 DEF TerminalInv, Lives, TypeOK
<1>17. ASSUME NEW t \in Session, t # s, born[t] # Null, born[t].merchant = m,
              born[t].key = k, k # NoKey
       PROVE  born[t].life # restarts
  <2>1. index[<< m, k >>] = Null
    BY <1>6, <1>17 DEF Known
  <2>2. QED
    BY <2>1, <1>17, SessionAssumption DEF TerminalInv, Indexed
<1>18. Indexed'
  <2>1. ASSUME NEW t \in Session, born'[t] # Null, born'[t].life = restarts,
               born'[t].key # NoKey
        PROVE  index'[<< born'[t].merchant, born'[t].key >>] = t
    <3>1. CASE t = s
      BY <2>1, <3>1, <1>5, <1>7, <1>9, <1>11
    <3>2. CASE t # s
      <4>1. born'[t] = born[t] /\ born[t] \in Birth
        BY <2>1, <3>2, <1>9, <1>11
      <4>2. << born[t].merchant, born[t].key >> \in Merchant \X Key
        BY <2>1, <4>1 DEF Birth
      <4>3. index[<< born[t].merchant, born[t].key >>] = t
        BY <2>1, <4>1 DEF TerminalInv, Indexed
      <4>4. k # NoKey => << born[t].merchant, born[t].key >> # << m, k >>
        BY <2>1, <3>2, <4>1, <1>17
      <4>5. QED
        BY <4>1, <4>2, <4>3, <4>4, <1>7, <1>9
    <3>3. QED
      BY <3>1, <3>2
  <2>2. ASSUME NEW mk \in Merchant \X Key, index'[mk] # Null
        PROVE  session'[index'[mk]] # Null
    <3>1. index'[mk] = s \/ index'[mk] = index[mk]
      BY <1>7, <1>9
    <3>2. index'[mk] = s => session'[index'[mk]] # Null
      BY <1>10, <1>11
    <3>3. index'[mk] = index[mk] => session'[index'[mk]] # Null
      BY <2>2, <1>9, <1>10, <1>11 DEF TerminalInv, Indexed
    <3>4. QED
      BY <3>1, <3>2, <3>3
  <2>3. QED
    BY <2>1, <2>2, <1>6 DEF Indexed
<1>19. OneSessionPerKey'
  <2>1. SUFFICES ASSUME NEW t \in Session, NEW u \in Session, t # u,
                        born'[t] # Null, born'[u] # Null,
                        born'[t].merchant = born'[u].merchant,
                        born'[t].key = born'[u].key, born'[t].key # NoKey
                 PROVE  born'[t].life # born'[u].life
    BY DEF OneSessionPerKey
  <2>2. CASE t = s
    BY <2>1, <2>2, <1>5, <1>11, <1>17
  <2>3. CASE u = s
    BY <2>1, <2>3, <1>5, <1>11, <1>17
  <2>4. CASE t # s /\ u # s
    BY <2>1, <2>4, <1>11 DEF TerminalInv, OneSessionPerKey
  <2>5. QED
    BY <2>2, <2>3, <2>4
<1>20. ProductionDoesNothing'
  BY <1>6, <1>8, <1>11 DEF TerminalInv, ProductionDoesNothing
<1>21. ChangesAudited'
  <2>1. SUFFICES ASSUME NEW t \in Session, session'[t] # Null,
                        session'[t].state # "AUTHORIZING"
                 PROVE  Row(t, session'[t].state) \in
                          uncommitted' \cup audit' \cup lost'
    BY DEF ChangesAudited, Row
  <2>2. CASE t = s
    BY <2>2, <1>5, <1>6, <1>11
  <2>3. CASE t # s
    BY <2>1, <2>3, <1>6, <1>11 DEF TerminalInv, ChangesAudited
  <2>4. QED
    BY <2>2, <2>3
<1>22. RowsBorn'
  <2>1. SUFFICES ASSUME NEW row \in uncommitted' \cup audit' \cup lost'
                 PROVE  born'[row.session] # Null
    BY DEF RowsBorn
  <2>2. CASE row = Row(s, state)
    BY <2>2, <1>10, <1>11 DEF Row
  <2>3. CASE row \in uncommitted \cup audit \cup lost
    <3>1. row.session \in Session /\ born[row.session] # Null
      BY <2>3, <1>9 DEF TerminalInv, RowsBorn, TypeOK, AuditRow
    <3>2. QED
      BY <3>1, <1>6, <1>11
  <2>4. QED
    BY <2>1, <2>2, <2>3, <1>6
<1>23. AuditPrecedesAnswer'
  <2>1. SUFFICES ASSUME NEW row \in uncommitted' \cup audit' \cup lost',
                        session'[row.session] # Null
                 PROVE  session'[row.session].state \in Reachable[row.state]
    BY DEF AuditPrecedesAnswer
  <2>2. CASE row = Row(s, state)
    <3>1. row.session = s /\ row.state = state
      BY <2>2 DEF Row
    <3>2. QED
      BY <3>1, <1>2, <1>5, <1>11, ReachableFacts
  <2>3. CASE row \in uncommitted \cup audit \cup lost
    <3>1. /\ row.session \in Session /\ born[row.session] # Null
      BY <2>3, <1>9 DEF TerminalInv, RowsBorn, TypeOK, AuditRow
    <3>2. session'[row.session] = session[row.session]
      BY <3>1, <1>6, <1>11
    <3>3. QED
      BY <3>2, <2>1, <2>3 DEF TerminalInv, AuditPrecedesAnswer
  <2>4. QED
    BY <2>1, <2>2, <2>3, <1>6
<1>24. Signed' /\ Trail'
  <2>1. money[s].held = 0 /\ money' = money
    BY <1>6, <1>8 DEF NothingDone
  <2>2. ASSUME NEW t \in Session, t # s
        PROVE  /\ session'[t] = session[t]
               /\ OnTrail(t, "APPROVED")' <=> OnTrail(t, "APPROVED")
    <3>1. Row(t, "APPROVED") # Row(s, state)
      BY <2>2 DEF Row
    <3>2. QED
      BY <3>1, <2>2, <1>6, <1>11 DEF OnTrail, Row
  <2>3. ~OnTrail(s, "APPROVED")'
    <3>1. Row(s, "APPROVED") # Row(s, state)
      BY <1>2 DEF Row
    <3>2. Row(s, "APPROVED") \notin uncommitted \cup audit \cup lost
      <4>1. Row(s, "APPROVED").session = s
        BY DEF Row
      <4>2. QED
        BY <4>1, <1>6 DEF TerminalInv, RowsBorn
    <3>3. QED
      BY <3>1, <3>2, <1>6 DEF OnTrail, Row
  <2>4. Signed'
    BY <2>1, <2>2 DEF Signed, TerminalInv
  <2>5. Trail'
    BY <2>1, <2>2, <2>3 DEF Trail, TerminalInv
  <2>6. QED
    BY <2>4, <2>5
<1>25. QED
  BY <1>12, <1>13, <1>14, <1>15, <1>16, <1>18, <1>19, <1>20, <1>21,
     <1>22, <1>23, <1>24 DEF TerminalInv

\* What only moves audit rows keeps the invariant, if none is lost.
LEMMA RowsKeep ==
  ASSUME TerminalInv,
         UNCHANGED << settings, session, index, books, restarts, money, born >>,
         uncommitted' \cup audit' \cup lost' \subseteq AuditRow,
         uncommitted \cup audit \cup lost \subseteq uncommitted' \cup audit' \cup lost',
         \A row \in (uncommitted' \cup audit' \cup lost')
                       \ (uncommitted \cup audit \cup lost) :
           session[row.session] # Null /\ row.state = session[row.session].state
  PROVE  TerminalInv'
<1>1. TypeOK'
  BY DEF TerminalInv, TypeOK
<1>2. AllTruthful' /\ OneSessionPerReference'
  BY DEF TerminalInv, AllTruthful, OneSessionPerReference
<1>3. Unborn' /\ Lives' /\ Indexed' /\ OneSessionPerKey'
  BY DEF TerminalInv, Unborn, Lives, Indexed, OneSessionPerKey
<1>4. ProductionDoesNothing'
  BY DEF TerminalInv, ProductionDoesNothing
<1>5. ChangesAudited'
  BY DEF TerminalInv, ChangesAudited, Row
<1>6. ASSUME NEW row \in uncommitted' \cup audit' \cup lost'
      PROVE  /\ born[row.session] # Null
             /\ session[row.session] # Null =>
                  session[row.session].state \in Reachable[row.state]
  <2>1. row.session \in Session /\ row.state \in TerminalState
    BY <1>6 DEF AuditRow
  <2>2. CASE row \in uncommitted \cup audit \cup lost
    BY <2>2 DEF TerminalInv, RowsBorn, AuditPrecedesAnswer
  <2>3. CASE row \notin uncommitted \cup audit \cup lost
    BY <1>6, <2>1, <2>3, ReachableFacts DEF TerminalInv, Unborn
  <2>4. QED
    BY <2>2, <2>3
<1>7. RowsBorn' /\ AuditPrecedesAnswer'
  BY <1>6 DEF RowsBorn, AuditPrecedesAnswer
<1>8. Signed'
  BY DEF TerminalInv, Signed
<1>9. Trail'
  <2>1. SUFFICES ASSUME NEW s \in Session, session[s] # Null
                 PROVE  OnTrail(s, "APPROVED")' <=> OnTrail(s, "APPROVED")
    BY DEF TerminalInv, Trail
  <2>2. OnTrail(s, "APPROVED") => OnTrail(s, "APPROVED")'
    BY DEF OnTrail, Row
  <2>3. ASSUME OnTrail(s, "APPROVED")', ~OnTrail(s, "APPROVED")
        PROVE  FALSE
    <3>1. Row(s, "APPROVED").session = s /\ Row(s, "APPROVED").state = "APPROVED"
      BY DEF Row
    <3>2. session[s].state = "APPROVED"
      BY <2>3, <3>1 DEF OnTrail, Row
    <3>3. OnTrail(s, "APPROVED")
      BY <2>1, <3>2 DEF TerminalInv, ChangesAudited, OnTrail
    <3>4. QED
      BY <2>3, <3>3
  <2>4. QED
    BY <2>2, <2>3
<1>10. QED
  BY <1>1, <1>2, <1>3, <1>4, <1>5, <1>7, <1>8, <1>9 DEF TerminalInv

\* A create that is asked again audits a session of the store.
LEMMA CreateAgainKeeps ==
  ASSUME TerminalInv, NEW m \in Merchant, NEW k \in Key \cup { NoKey },
         NEW code, NEW type, CreateAgain(m, k, code, type)
  PROVE  TerminalInv'
<1> DEFINE s == index[<< m, k >>]
<1>1. << m, k >> \in Merchant \X Key /\ s # Null
  BY DEF CreateAgain, Known
<1>2. s \in Session /\ session[s] # Null /\ TypeOK
  BY <1>1 DEF TerminalInv, TypeOK, Indexed
<1>3. session[s].state \in TerminalState
  BY <1>2 DEF TypeOK, Record
<1>4. uncommitted' = uncommitted \cup { Row(s, session[s].state) }
  BY DEF CreateAgain
<1>5. uncommitted' \subseteq AuditRow
  BY <1>2, <1>3, <1>4, Audited
<1>6. \A row \in uncommitted' \ uncommitted :
        session[row.session] # Null /\ row.state = session[row.session].state
  BY <1>2, <1>4 DEF Row
<1>7. QED
  BY <1>4, <1>5, <1>6, RowsKeep DEF CreateAgain, TerminalInv, TypeOK

\* An audit row that is committed or lost is still one of the three.
LEMMA EndKeeps ==
  ASSUME TerminalInv, NEW row \in uncommitted, Finish(row) \/ Fail(row)
  PROVE  TerminalInv'
<1>1. CASE Finish(row)
  BY <1>1, RowsKeep DEF Finish, TerminalInv, TypeOK
<1>2. CASE Fail(row)
  BY <1>2, RowsKeep DEF Fail, TerminalInv, TypeOK
<1>3. QED
  BY <1>1, <1>2

\* A new process has no sessions, and what was made before it has an older
\* life.
LEMMA RestartKeeps ==
  ASSUME TerminalInv, NEW d \in Deployment, Restart(d)
  PROVE  TerminalInv'
<1>1. /\ session' = NoSessions /\ index' = NoIndex /\ books' = NoBooks
      /\ uncommitted' = {}
      /\ settings' = Configured(d)
      /\ restarts' = restarts + 1 /\ restarts < MaxRestarts
      /\ UNCHANGED << audit, lost, money, born >>
      /\ TypeOK
  BY DEF Restart, TerminalInv
<1>2. restarts \in Nat /\ restarts' \in 0 .. MaxRestarts
  BY <1>1, SessionAssumption DEF TypeOK
<1>3. Configured(d) \in Settings
  BY ConfiguredType
<1>4. \A s \in Session : session'[s] = Null
  BY <1>1 DEF NoSessions
<1>5. \A mk \in Merchant \X Key : index'[mk] = Null
  BY <1>1 DEF NoIndex
<1>6. TypeOK'
  BY <1>1, <1>2, <1>3 DEF TypeOK, NoSessions, NoIndex, NoBooks
<1>7. AllTruthful' /\ OneSessionPerReference' /\ ProductionDoesNothing'
  BY <1>4 DEF AllTruthful, OneSessionPerReference, ProductionDoesNothing
<1>8. ChangesAudited'
  BY <1>4 DEF ChangesAudited
<1>9. Unborn' /\ OneSessionPerKey'
  BY <1>1, <1>4 DEF TerminalInv, Unborn, OneSessionPerKey
<1>10. \A s \in Session : born[s] # Null => born[s].life \in Nat
  BY <1>1 DEF TypeOK, Birth
<1>11. Lives'
  BY <1>1, <1>2, <1>10 DEF TerminalInv, Lives
<1>12. \A s \in Session : born[s] # Null => born[s].life # restarts'
  BY <1>1, <1>2, <1>10 DEF TerminalInv, Lives
<1>13. Indexed'
  BY <1>1, <1>5, <1>12 DEF Indexed
<1>14. RowsBorn'
  BY <1>1 DEF TerminalInv, RowsBorn
<1>15. AuditPrecedesAnswer'
  <2>1. \A row \in audit' \cup lost' : row.session \in Session
    BY <1>1 DEF TypeOK, AuditRow
  <2>2. QED
    BY <1>1, <1>4, <2>1 DEF AuditPrecedesAnswer
<1>16. Signed' /\ Trail'
  BY <1>4 DEF Signed, Trail
<1>17. QED
  BY <1>6, <1>7, <1>8, <1>9, <1>11, <1>13, <1>14, <1>15, <1>16 DEF TerminalInv

\* Before the first request nothing is recorded.
LEMMA TerminalInit ==
  ASSUME Init
  PROVE  TerminalInv
<1>1. \A s \in Session : /\ session[s] = Null /\ born[s] = Null
                         /\ money[s] = NothingDone
  BY DEF Init, NoSessions
<1>2. \A mk \in Merchant \X Key : index[mk] = Null
  BY DEF Init, NoIndex
<1>3. NothingDone \in Operations
  BY DEF NothingDone, Operations
<1>4. TypeOK
  BY <1>3, ConfiguredType, SessionAssumption
     DEF Init, TypeOK, NoSessions, NoIndex, NoBooks
<1>5. AllTruthful /\ OneSessionPerReference /\ ProductionDoesNothing
  BY <1>1 DEF AllTruthful, OneSessionPerReference, ProductionDoesNothing
<1>6. Unborn /\ Lives /\ Indexed /\ OneSessionPerKey /\ ChangesAudited
  BY <1>1, <1>2 DEF Unborn, Lives, Indexed, OneSessionPerKey, ChangesAudited
<1>7. RowsBorn /\ AuditPrecedesAnswer /\ Signed /\ Trail
  BY <1>1 DEF Init, RowsBorn, AuditPrecedesAnswer, Signed, Trail
<1>8. QED
  BY <1>4, <1>5, <1>6, <1>7 DEF TerminalInv

\* A step is an operation on a session, or one of the others, which leave the
\* money alone.
LEMMA Steps ==
  ASSUME TerminalInv, [Next]_vars
  PROVE  \/ \E s \in Session : \E r, done : Operation(s, r, done)
         \/ TerminalInv' /\ money' = money
<1>1. ASSUME NEW m \in Merchant, NEW k \in Key \cup { NoKey }, NEW q \in Requested,
             NEW s \in Session, Create(m, k, q.code, q.type, s)
      PROVE  TerminalInv' /\ money' = money
  <2>1. TerminalInv'
    BY <1>1, CreateKeeps
  <2>2. money' = money
    BY <1>1 DEF Create
  <2>3. QED
    BY <2>1, <2>2
<1>2. ASSUME NEW m \in Merchant, NEW k \in Key \cup { NoKey }, NEW q \in Requested,
             CreateAgain(m, k, q.code, q.type)
      PROVE  TerminalInv' /\ money' = money
  BY <1>2, CreateAgainKeeps DEF CreateAgain
<1>3. ASSUME NEW m \in Merchant, NEW s \in Session, Operate(m, s)
      PROVE  \E r, done : Operation(s, r, done)
  BY <1>3, OperateOperates
<1>4. ASSUME NEW row \in uncommitted, Finish(row) \/ Fail(row)
      PROVE  TerminalInv' /\ money' = money
  BY <1>4, EndKeeps DEF Finish, Fail
<1>5. ASSUME NEW d \in Deployment, Restart(d)
      PROVE  TerminalInv' /\ money' = money
  BY <1>5, RestartKeeps DEF Restart
<1>6. ASSUME UNCHANGED vars
      PROVE  TerminalInv' /\ money' = money
  BY <1>6, RowsKeep DEF vars, TerminalInv, TypeOK
<1>7. QED
  BY <1>1, <1>2, <1>3, <1>4, <1>5, <1>6 DEF Next, Request

\* Each operation, the end of a request and a restart keep the invariant.
LEMMA TerminalStep == TerminalInv /\ [Next]_vars => TerminalInv'
BY Steps, OperationKeeps

-----------------------------------------------------------------------------
(* What follows *)

(***************************************************************************)
(* The inductive invariant of the sessions: record, books and money tell   *)
(* one story, references and keys name one session each, and production    *)
(* does nothing.                                                           *)
(***************************************************************************)
THEOREM TerminalInvariant == Spec => []TerminalInv
BY TerminalInit, TerminalStep, PTL DEF Spec

\* Every variable of the sessions has its type, in every state.
THEOREM TerminalTyped == Spec => []TypeOK
<1>1. TerminalInv => TypeOK
  BY DEF TerminalInv
<1>2. QED
  BY <1>1, TerminalInvariant, PTL

(***************************************************************************)
(* Whatever merchants send in whatever order, the processor has done for a *)
(* session what the session's state says, once.                            *)
(***************************************************************************)
THEOREM MoneyIsKnown == Spec => []MoneyFollowsSession
<1>1. TerminalInv => MoneyFollowsSession
  BY DEF TerminalInv, AllTruthful, Truthful, MoneyFollowsSession
<1>2. QED
  BY <1>1, TerminalInvariant, PTL

(***************************************************************************)
(* The reference of a session leads to the result its state came from, and *)
(* is no other session's.                                                  *)
(***************************************************************************)
THEOREM BooksAreKept == Spec => []BooksFollowSession
<1>1. ASSUME TerminalInv, NEW s \in Session, session[s] # Null
      PROVE  /\ Truthful(session[s], money[s], books, settings.processor)
             /\ session[s].reference # Null =>
                  \A t \in Session \ {s} :
                    session[t] # Null => session[t].reference # session[s].reference
  BY <1>1 DEF TerminalInv, AllTruthful, OneSessionPerReference
<1>2. TerminalInv => BooksFollowSession
  BY <1>1 DEF Truthful, BooksFollowSession
<1>3. QED
  BY <1>2, TerminalInvariant, PTL

(***************************************************************************)
(* No session of a sale rests in APPROVED, and one that the stub refused   *)
(* half-way has authorised nothing.                                        *)
(***************************************************************************)
THEOREM NothingPartial == Spec => []PartialAuthorizations
<1>1. TerminalInv => PartialAuthorizations
  BY DEF TerminalInv, AllTruthful, Truthful, PartialAuthorizations
<1>2. QED
  BY <1>1, TerminalInvariant, PTL

\* One process holds money once for a merchant's idempotency key.
THEOREM KeysPayOnce == Spec => []OnePaymentPerKey
<1>1. ASSUME TerminalInv, NEW s \in Session, money[s].held > 0
      PROVE  born[s] # Null
  BY <1>1 DEF TerminalInv, Unborn, NothingDone
<1>2. TerminalInv => OnePaymentPerKey
  BY <1>1 DEF TerminalInv, OneSessionPerKey, OnePaymentPerKey
<1>3. QED
  BY <1>2, TerminalInvariant, PTL

\* What nobody audited is what the database or the stub failed.
THEOREM EverythingAudited == Spec => []ChangesAudited
<1>1. TerminalInv => ChangesAudited
  BY DEF TerminalInv
<1>2. QED
  BY <1>1, TerminalInvariant, PTL

\* No answer is older than an audit row, and no row names a state the session
\* could not have come from.
THEOREM AnswersFollowAudit == Spec => []AuditPrecedesAnswer
<1>1. TerminalInv => AuditPrecedesAnswer
  BY DEF TerminalInv
<1>2. QED
  BY <1>1, TerminalInvariant, PTL

\* No money moves where the environment is called production or prod.
THEOREM ProductionIsIdle == Spec => NoSimulationInProduction
<1>1. ASSUME TerminalInv, [Next]_vars,
             settings.environment \in { "production", "prod" }
      PROVE  UNCHANGED money
  <2>1. ASSUME NEW s \in Session, NEW r, NEW done, Operation(s, r, done)
        PROVE  money' = money
    BY <1>1, <2>1 DEF Operation, TerminalInv, TypeOK
  <2>2. QED
    BY <1>1, <2>1, Steps
<1>2. TerminalInv /\ [Next]_vars =>
        [settings.environment \in { "production", "prod" } => UNCHANGED money]_vars
  BY <1>1
<1>3. QED
  BY <1>2, TerminalInvariant, PTL DEF Spec, NoSimulationInProduction

(***************************************************************************)
(* A session is a card payment: what the processor does for it goes from   *)
(* nothing to held or taken, from held to taken or released, from taken to *)
(* returned, and no other way.                                             *)
(***************************************************************************)
THEOREM SessionsAreCardPayments == Spec => ImplementsCardPayment
<1>1. Init => Holder!Init
  BY Phases DEF Init, Holder!Init, NothingDone, Done
<1>2. ASSUME TerminalInv, [Next]_vars
      PROVE  [Holder!Next]_([ s \in Session |-> PhaseOf(money[s]) ])
  <2>1. CASE money' = money
    BY <2>1
  <2>2. ASSUME NEW s \in Session, NEW r, NEW done, Operation(s, r, done)
        PROVE  [Holder!Next]_([ t \in Session |-> PhaseOf(money[t]) ])
    <3>1. /\ money \in [ Session -> Operations ]
          /\ money' = [ money EXCEPT ![s] = done ]
      BY <1>2, <2>2 DEF Operation, TerminalInv, TypeOK
    <3>2. CASE done = money[s]
      BY <3>1, <3>2
    <3>3. CASE /\ << PhaseOf(money[s]), PhaseOf(done) >> \in Holder!Moves
               /\ PhaseOf(done) \in Holder!Phase
      <4>1. [ t \in Session |-> PhaseOf(money'[t]) ] =
              [ [ t \in Session |-> PhaseOf(money[t]) ] EXCEPT ![s] = PhaseOf(done) ]
        BY <3>1
      <4>2. QED
        BY <3>3, <4>1 DEF Holder!Next, Holder!Move
    <3>4. QED
      BY <2>2, <3>2, <3>3 DEF Operation
  <2>3. QED
    BY <1>2, <2>1, <2>2, Steps
<1>3. QED
  BY <1>1, <1>2, TerminalInvariant, PTL
     DEF Spec, ImplementsCardPayment, Holder!Spec

(***************************************************************************)
(* The dashboard's buckets are what happened to the money of the sessions  *)
(* it lists, which are the newest, and all while the store has no more     *)
(* than ListLimit.                                                         *)
(***************************************************************************)
THEOREM DashboardIsRight == Spec => []DashboardFollowsMoney
<1>1. ASSUME TerminalInv, NEW s \in Session, session[s] # Null
      PROVE  money[s] \in MoneyOf(session[s].state)
  BY <1>1 DEF TerminalInv, AllTruthful, Truthful
<1>2. ASSUME NEW state, NEW done \in MoneyOf(state)
      PROVE  /\ Bucket(state) # "none"
             /\ Bucket(state) = "approved" <=>
                  /\ done \in { Done(1, 0, 0, 0), Done(1, 1, 0, 0) }
                  /\ state # "CANCELLED"
             /\ Bucket(state) = "refunded" <=> done.returned > 0
             /\ Bucket(state) \in { "declined", "pending" } => done = NothingDone
  BY DEF MoneyOf, Bucket, ApprovedStates, PendingStates, Done, NothingDone
<1>3. TerminalInv => DashboardFollowsMoney
  <2> SUFFICES ASSUME TerminalInv
               PROVE  DashboardFollowsMoney
    OBVIOUS
  <2> DEFINE known == { s \in Session : session[s] # Null }
             states == [ s \in known |-> session[s].state ]
             created == [ s \in known |-> session[s].created ]
             listed == ListAll(created)
  <2>1. listed \subseteq known
    BY DEF ListAll
  <2>2. ASSUME NEW bucket
        PROVE  Counted(states, created, bucket) =
                 { s \in listed : Bucket(session[s].state) = bucket }
    BY <2>1 DEF Counted
  <2>3. /\ \A s \in known : created[s] \in Nat
        /\ DOMAIN created = known
    BY DEF TerminalInv, TypeOK, Record
  <2>4. IsFiniteSet(known)
    BY SessionAssumption, FS_Subset
  <2>5. ASSUME NEW s \in known \ listed, NEW t \in listed
        PROVE  created[s] < created[t]
    <3>1. SUFFICES ASSUME created[t] <= created[s]
                   PROVE  FALSE
      BY <2>1, <2>3
    <3>2. /\ Newer(created, s) \subseteq Newer(created, t)
          /\ Newer(created, t) \subseteq known
      BY <3>1, <2>1, <2>3 DEF Newer
    <3>3. /\ IsFiniteSet(Newer(created, t))
          /\ Cardinality(Newer(created, s)) <= Cardinality(Newer(created, t))
          /\ Cardinality(Newer(created, s)) \in Nat
          /\ Cardinality(Newer(created, t)) \in Nat
      BY <3>2, <2>4, FS_Subset, FS_CardinalityType
    <3>4. /\ Cardinality(Newer(created, t)) < ListLimit
          /\ ~(Cardinality(Newer(created, s)) < ListLimit)
      BY <2>3 DEF ListAll
    <3>5. QED
      BY <3>3, <3>4, ListAssumption
  <2>6. ASSUME Cardinality(known) <= ListLimit
        PROVE  listed = known
    <3>1. SUFFICES ASSUME NEW s \in known
                   PROVE  s \in listed
      BY <2>1
    <3>2. Newer(created, s) \subseteq known \ {s}
      BY <2>3 DEF Newer
    <3>3. /\ IsFiniteSet(known \ {s})
          /\ Cardinality(known \ {s}) = Cardinality(known) - 1
      BY <2>4, <3>1, FS_RemoveElement
    <3>4. /\ Cardinality(Newer(created, s)) <= Cardinality(known \ {s})
          /\ Cardinality(Newer(created, s)) \in Nat
          /\ Cardinality(known) \in Nat
      BY <3>2, <3>3, <2>4, FS_Subset, FS_CardinalityType
    <3>5. Cardinality(Newer(created, s)) < ListLimit
      BY <2>6, <3>3, <3>4, ListAssumption
    <3>6. QED
      BY <3>5, <2>3 DEF ListAll
  <2> HIDE DEF listed
  <2>7. QED
    BY <1>1, <1>2, <2>1, <2>2, <2>5, <2>6 DEF DashboardFollowsMoney, listed
<1>4. QED
  BY <1>3, TerminalInvariant, PTL

(***************************************************************************)
(* What the adapter (SandboxProtocolAdapter.execute), the gateway's flags  *)
(* (resolve_sandbox_charge_flags) and the terminal's authorize make of one *)
(* protocol, token and scenario: the same, unless the scenario or the      *)
(* token asks for a signature that the protocol does not want.             *)
(***************************************************************************)
THEOREM ProtocolsAgree == Spec => []ProtocolsDecideAlike
<1>1. TerminalInv => ProtocolsDecideAlike
  <2> SUFFICES ASSUME TerminalInv, NEW s \in Session, NEW p \in Catalog,
                      session[s] # Null, money[s].held > 0,
                      p.outcome = session[s].outcome
               PROVE  LET token    == session[s].token
                          byToken  == "signature" \in token
                          held     == OnTrail(s, "APPROVED")
                      IN  /\ \A key \in { p.id, p.code },
                                scenario \in ScenariosOf(s, p) :
                               LET flags == ChargeFlags(key, token, scenario)
                               IN  /\ flags[1] <=> session[s].signature \/ byToken
                                   /\ flags[2] <=>
                                        held \/ session[s].signature \/ byToken
                          /\ AdapterStatus(p, token) =
                               IF "declined" \in token  THEN "DECLINED"
                               ELSE IF held \/ byToken  THEN "AUTHORIZED"
                               ELSE "CAPTURED"
    BY DEF ProtocolsDecideAlike
  <2> DEFINE token == session[s].token
             held == OnTrail(s, "APPROVED")
  <2>1. held <=> p.outcome \in HoldsOnly
    BY DEF TerminalInv, Trail
  <2>2. ASSUME NEW scenario \in ScenariosOf(s, p)
        PROVE  scenario = "signature" \/ p.outcome = "signature"
                 <=> session[s].signature
    <3>1. /\ scenario \in { "signature", "success" }
          /\ SignatureRequired(scenario, p.outcome) <=> session[s].signature
      BY DEF ScenariosOf
    <3>2. AuthorizationStatus(scenario) = "APPROVED"
      BY <3>1 DEF AuthorizationStatus
    <3>3. QED
      BY <3>1, <3>2 DEF SignatureRequired
  <2> HIDE DEF held, token
  <2>3. ASSUME NEW key \in { p.id, p.code }, NEW scenario \in ScenariosOf(s, p)
        PROVE  /\ ChargeFlags(key, token, scenario)[1] <=>
                    session[s].signature \/ "signature" \in token
               /\ ChargeFlags(key, token, scenario)[2] <=>
                    held \/ session[s].signature \/ "signature" \in token
    BY <2>1, <2>2, FlagsOf
  <2>4. AdapterStatus(p, token) =
          IF "declined" \in token THEN "DECLINED"
          ELSE IF held \/ "signature" \in token THEN "AUTHORIZED"
          ELSE "CAPTURED"
    BY <2>1, AdapterOf
  <2>5. QED
    BY <2>3, <2>4 DEF held, token
<1>2. QED
  BY <1>1, TerminalInvariant, PTL

=============================================================================
