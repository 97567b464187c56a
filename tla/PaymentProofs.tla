--------------------------- MODULE PaymentProofs ----------------------------
(***************************************************************************)
(* Proofs about Payments, for any number of requests, references, wallets, *)
(* retries and faults.                                                     *)
(***************************************************************************)
EXTENDS PaymentProperties, TLAPS

-----------------------------------------------------------------------------
(* Types *)

\* The outcomes of prepare_and_settle on an eligible payment.
Outcome ==
  { "already", "no_wallet", "no_quote", "no_provider", "rejected", "sent" }

\* Every run of the engine ends in one of its six ways.
LEMMA EngineOutcomeType ==
  ASSUME NEW existing, NEW w, NEW quoted
  PROVE  EngineOutcome(existing, w, quoted) \in Outcome
BY DEF EngineOutcome, Outcome

\* What the engine writes is of the type of the columns it writes to.
LEMMA EngineResultTypes ==
  ASSUME NEW from \in OptionalStatus, NEW outcome \in Outcome,
         NEW existing \in SettlementStatus \cup { Null },
         NEW p \in Wallet \cup { Null }, NEW w \in Wallet \cup { Null }
  PROVE  /\ EngineStatus(from, outcome) \in OptionalStatus
         /\ EngineLog(from, outcome) \in Seq(LogEntry)
         /\ EngineSettlement(existing, outcome) \in SettlementStatus \cup { Null }
         /\ EnginePayee(existing, p, w, outcome) \in Wallet \cup { Null }
<1>1. EngineStatus(from, outcome) \in OptionalStatus
  BY DEF Outcome, EngineStatus, OptionalStatus, Status
<1>2. EngineSettlement(existing, outcome) \in SettlementStatus \cup { Null }
  BY DEF EngineSettlement, SettlementStatus
<1>3. EnginePayee(existing, p, w, outcome) \in Wallet \cup { Null }
  BY DEF EnginePayee
<1>4. EngineLog(from, outcome) \in Seq(LogEntry)
  <2>1. /\ << from, "SETTLEMENT_PROCESSING" >> \in LogEntry
        /\ << "SETTLEMENT_PROCESSING", "MANUAL_REVIEW" >> \in LogEntry
        /\ << "SETTLEMENT_PROCESSING", "COMPLETED" >> \in LogEntry
    BY DEF LogEntry, OptionalStatus, Status
  <2>2. QED
    BY <2>1 DEF EngineLog, Outcome
<1>5. QED
  BY <1>1, <1>2, <1>3, <1>4

\* What an IPN writes, when it writes.
LEMMA IPNStatusType ==
  ASSUME NEW s, NEW success \in BOOLEAN, IPNStatus(s, success) # s
  PROVE  IPNStatus(s, success) \in { "CAPTURED", "FAILED" }
<1>1. CASE success
  BY <1>1 DEF IPNStatus
<1>2. CASE ~success
  BY <1>2 DEF IPNStatus
<1>3. QED
  BY <1>1, <1>2

\* What a Moyasar webhook writes, when it writes.
LEMMA MoyasarStatusType ==
  ASSUME NEW s, NEW success \in BOOLEAN, MoyasarStatus(s, success) # s
  PROVE  MoyasarStatus(s, success) \in { "CAPTURED", "FAILED" }
<1>1. CASE success
  BY <1>1 DEF MoyasarStatus
<1>2. CASE ~success
  BY <1>2 DEF MoyasarStatus
<1>3. QED
  BY <1>1, <1>2

\* The records a session starts from, and those create_payment flushes.
LEMMA WorkTypes ==
  /\ NoWork \in Work
  /\ NothingLoaded \in Loaded
  /\ NoPlan \in Plan
  /\ \A w \in Work, to \in Status :
       /\ Answered(w, to) \in Work
       /\ [ NoWork EXCEPT !.status = to ] \in Work
  /\ [ NoWork EXCEPT !.status = "PROCESSING",
                     !.log = << << "NONE", "PROCESSING" >> >> ] \in Work
<1>1. NoWork \in Work /\ NothingLoaded \in Loaded /\ NoPlan \in Plan
  BY DEF NoWork, Work, NothingLoaded, Loaded, NoPlan, Plan, OptionalStatus
<1>2. ASSUME NEW w \in Work, NEW to \in Status
      PROVE  /\ Answered(w, to) \in Work
             /\ [ NoWork EXCEPT !.status = to ] \in Work
  <2>1. << "PROCESSING", to >> \in LogEntry
    BY DEF LogEntry, OptionalStatus, Status
  <2>2. Append(w.log, << "PROCESSING", to >>) \in Seq(LogEntry)
    BY <2>1 DEF Work
  <2>3. QED
    BY <2>2, <1>1 DEF Answered, Work, NoWork, OptionalStatus
<1>3. [ NoWork EXCEPT !.status = "PROCESSING",
                      !.log = << << "NONE", "PROCESSING" >> >> ] \in Work
  <2>1. << << "NONE", "PROCESSING" >> >> \in Seq(LogEntry)
    BY DEF LogEntry, OptionalStatus, Status
  <2>2. "PROCESSING" \in OptionalStatus
    BY DEF OptionalStatus, Status
  <2>3. QED
    BY <2>1, <2>2 DEF Work, NoWork
<1>4. QED
  BY <1>1, <1>2, <1>3

\* Running the engine, and deferring its work after it raised, keep the
\* session's writes well typed.
LEMMA SettledTypes ==
  ASSUME TypeOK, NEW w \in Work, NEW outcome \in Outcome
  PROVE  Settled(w, outcome) \in Work /\ Deferred(w, outcome) \in Work
<1> DEFINE s == Settled(w, outcome)
<1>1. /\ EngineStatus(w.status, outcome) \in OptionalStatus
      /\ EngineLog(w.status, outcome) \in Seq(LogEntry)
      /\ EngineSettlement(w.settlement, outcome) \in SettlementStatus \cup { Null }
      /\ EnginePayee(w.settlement, w.payee, wallet, outcome) \in Wallet \cup { Null }
  BY EngineResultTypes DEF Work, TypeOK
<1>2. s \in Work
  <2>1. w.log \o EngineLog(w.status, outcome) \in Seq(LogEntry)
    BY <1>1 DEF Work
  <2>2. QED
    BY <1>1, <2>1 DEF Settled, Work
<1>3. Deferred(w, outcome) \in Work
  <2>1. << "CAPTURED", "SETTLEMENT_PENDING" >> \in LogEntry
    BY DEF LogEntry, OptionalStatus, Status
  <2>2. Append(s.log, << "CAPTURED", "SETTLEMENT_PENDING" >>) \in Seq(LogEntry)
    BY <1>2, <2>1 DEF Work
  <2>3. "SETTLEMENT_PENDING" \in OptionalStatus
    BY DEF OptionalStatus, Status
  <2> HIDE DEF s
  <2>4. [ s EXCEPT !.status = "SETTLEMENT_PENDING",
                   !.log = Append(@, << "CAPTURED", "SETTLEMENT_PENDING" >>) ]
          \in Work
    BY <1>2, <2>2, <2>3 DEF Work
  <2>5. QED
    BY <2>4 DEF Deferred, s
<1>4. QED
  BY <1>2, <1>3

\* create_payment keeps the types.
LEMMA CreateKeepsTypes ==
  ASSUME TypeOK, NEW r \in Request
  PROVE  /\ \A k, m \in Reference : BeginCreate(r, k, m) => TypeOK'
         /\ LookupAlternate(r) => TypeOK'
         /\ Insert(r) => TypeOK'
         /\ Charge(r) => TypeOK'
<1>1. ASSUME NEW k \in Reference, NEW m \in Reference, BeginCreate(r, k, m)
      PROVE  TypeOK'
  BY <1>1 DEF TypeOK, BeginCreate, databaseVars, walletVars, taskVars,
              outsideVars, PC, Running
<1>2. ASSUME LookupAlternate(r) PROVE TypeOK'
  BY <1>2 DEF TypeOK, LookupAlternate, databaseVars, walletVars, taskVars,
              outsideVars, PC, Running
<1>3. ASSUME Insert(r) PROVE TypeOK'
  <2>1. pc' \in [ Request -> PC ]
    BY <1>3 DEF TypeOK, Insert, PC, Running
  <2>2. work' \in [ Request -> Work ]
    BY <1>3, WorkTypes DEF TypeOK, Insert
  <2>3. alternate' \in [ Request -> Reference \cup { Null } ]
    BY <1>3 DEF TypeOK, Insert
  <2>4. QED
    BY <1>3, <2>1, <2>2, <2>3
       DEF TypeOK, Insert, databaseVars, walletVars, taskVars, outsideVars
<1>4. ASSUME Charge(r) PROVE TypeOK'
  <2>1. PICK outcome \in ChargeOutcome :
          LET to == ChargeStatus(outcome) IN
          /\ charge' = [ charge EXCEPT ![r] = outcome ]
          /\ work' = [ work EXCEPT ![r] = Answered(@, to) ]
          /\ pc' = [ pc EXCEPT ![r] =
                       IF to = "CAPTURED" THEN "settle" ELSE "commit" ]
    BY <1>4 DEF Charge
  <2>2. ChargeStatus(outcome) \in Status
    BY DEF ChargeStatus, Status, ChargeOutcome
  <2>3. work' \in [ Request -> Work ]
    BY <2>1, <2>2, WorkTypes DEF TypeOK
  <2>4. pc' \in [ Request -> PC ]
    BY <2>1 DEF TypeOK, PC, Running
  <2>5. QED
    BY <1>4, <2>1, <2>3, <2>4
       DEF TypeOK, Charge, databaseVars, walletVars, taskVars
<1>5. QED
  BY <1>1, <1>2, <1>3, <1>4

\* What a webhook writes: it says captured or failed.
LEMMA NotifiedStatus ==
  ASSUME NEW r \in Request, NEW t \in Request, NEW success \in BOOLEAN,
         WebhookLoad(r, t, success) \/ MoyasarLoad(r, t, success)
  PROVE  \E to \in { "CAPTURED", "FAILED" } : Notify(r, t, to)
<1>1. CASE WebhookLoad(r, t, success)
  <2>1. IPNStatus(status[t], success) # status[t]
    BY <1>1 DEF WebhookLoad, Notify
  <2>2. QED
    BY <1>1, <2>1, IPNStatusType DEF WebhookLoad
<1>2. CASE MoyasarLoad(r, t, success)
  <2>1. MoyasarStatus(status[t], success) # status[t]
    BY <1>2 DEF MoyasarLoad, Notify
  <2>2. QED
    BY <1>2, <2>1, MoyasarStatusType DEF MoyasarLoad
<1>3. QED
  BY <1>1, <1>2

\* So do the requests that work on a stored payment, up to their commit.
LEMMA UpdateKeepsTypes ==
  ASSUME TypeOK, NEW r \in Request
  PROVE  /\ \A t \in Request : SignLoad(r, t) => TypeOK'
         /\ \A t \in Request : CancelLoad(r, t) => TypeOK'
         /\ \A t \in Request : RefundLoad(r, t) => TypeOK'
         /\ \A t \in Request, success \in BOOLEAN :
              WebhookLoad(r, t, success) \/ MoyasarLoad(r, t, success)
                => TypeOK'
         /\ SignWrite(r) => TypeOK'
         /\ CancelWrite(r) => TypeOK'
         /\ RefundGateway(r) => TypeOK'
         /\ RefundRefused(r) => TypeOK'
         /\ RefundWrite(r) => TypeOK'
         /\ WebhookWrite(r) => TypeOK'
<1>1. ASSUME NEW t \in Request, NEW next \in PC, Load(r, t, next)
      PROVE  TypeOK'
  BY <1>1 DEF TypeOK, Load, Loaded, databaseVars, walletVars, taskVars,
              outsideVars
<1>2. \A t \in Request :
        SignLoad(r, t) \/ CancelLoad(r, t) \/ RefundLoad(r, t) => TypeOK'
  BY <1>1 DEF SignLoad, CancelLoad, RefundLoad, PC, Running
<1>3. ASSUME NEW t \in Request, NEW success \in BOOLEAN,
             WebhookLoad(r, t, success) \/ MoyasarLoad(r, t, success)
      PROVE  TypeOK'
  <2>1. PICK to \in { "CAPTURED", "FAILED" } : Notify(r, t, to)
    BY <1>3, NotifiedStatus
  <2>2. work' \in [ Request -> Work ]
    BY <2>1, WorkTypes DEF TypeOK, Notify, Status
  <2>3. pc' \in [ Request -> PC ]
    BY <2>1 DEF TypeOK, Notify, PC, Running
  <2>4. target' \in [ Request -> Request ]
    BY <2>1 DEF TypeOK, Notify
  <2>5. QED
    BY <2>1, <2>2, <2>3, <2>4
       DEF TypeOK, Notify, databaseVars, walletVars, taskVars, outsideVars
<1>4. ASSUME SignWrite(r) PROVE TypeOK'
  <2>1. pc' \in [ Request -> PC ]
    <3>1. \/ pc' = [ pc EXCEPT ![r] = "done" ]
          \/ pc' = [ pc EXCEPT ![r] = "settle" ]
      BY <1>4 DEF SignWrite
    <3>2. QED
      BY <3>1 DEF TypeOK, PC, Running
  <2>2. loaded' \in [ Request -> Loaded ]
    BY <1>4, WorkTypes DEF TypeOK, SignWrite
  <2>3. work' \in [ Request -> Work ]
    <3>1. << loaded[r].status, "CAPTURED" >> \in LogEntry
      BY DEF TypeOK, Loaded, LogEntry, Status
    <3>2. [ status |-> "CAPTURED",
            log |-> << << loaded[r].status, "CAPTURED" >> >>,
            receipt |-> TRUE,
            settlement |-> settlement[target[r]],
            payee |-> payee[target[r]] ] \in Work
      BY <3>1 DEF TypeOK, Work, OptionalStatus, Status
    <3>3. QED
      BY <1>4, <3>2 DEF TypeOK, SignWrite
  <2>4. QED
    BY <1>4, <2>1, <2>2, <2>3
       DEF TypeOK, SignWrite, databaseVars, walletVars, taskVars, outsideVars
<1>5. ASSUME NEW to \in Status, NEW log \in Seq(LogEntry),
             Overwrite(r, to, log)
      PROVE  TypeOK'
  <2>1. status' \in [ Request -> OptionalStatus ]
    BY <1>5 DEF TypeOK, Overwrite, OptionalStatus
  <2>2. history' \in [ Request -> Seq(LogEntry) ]
    BY <1>5 DEF TypeOK, Overwrite
  <2>3. pc' \in [ Request -> PC ] 
    BY <1>5, WorkTypes DEF TypeOK, Overwrite, PC
  <2>4. loaded' \in [ Request -> Loaded ]
    BY <1>5, WorkTypes DEF TypeOK, Overwrite
  <2>5. QED
    BY <1>5, <2>1, <2>2, <2>3, <2>4
       DEF TypeOK, Overwrite, walletVars, taskVars, outsideVars
<1>6. CancelWrite(r) \/ RefundWrite(r) => TypeOK'
  <2>1. \A to \in Status : << << loaded[r].status, to >> >> \in Seq(LogEntry)
    BY DEF TypeOK, Loaded, LogEntry
  <2>2. "CANCELLED" \in Status /\ "REFUNDED" \in Status
    BY DEF Status
  <2>3. QED
    BY <1>5, <2>1, <2>2 DEF CancelWrite, RefundWrite
<1>7. RefundGateway(r) \/ RefundRefused(r) => TypeOK'
  <2>1. RefundGateway(r) => TypeOK'
    BY DEF TypeOK, RefundGateway, databaseVars, walletVars, taskVars,
           outsideVars, PC, Running
  <2>2. RefundRefused(r) => TypeOK'
    BY WorkTypes DEF TypeOK, RefundRefused, databaseVars, walletVars,
                     taskVars, outsideVars, PC, Running
  <2>3. QED
    BY <2>1, <2>2
<1>8. ASSUME WebhookWrite(r) PROVE TypeOK'
  <2>1. status' \in [ Request -> OptionalStatus ]
    BY <1>8 DEF TypeOK, WebhookWrite, Work
  <2>2. pc' \in [ Request -> PC ] /\ work' \in [ Request -> Work ]
    BY <1>8, WorkTypes DEF TypeOK, WebhookWrite, PC
  <2>3. QED
    BY <1>8, <2>1, <2>2
       DEF TypeOK, WebhookWrite, walletVars, taskVars, outsideVars
<1>9. QED
  BY <1>2, <1>3, <1>4, <1>6, <1>7, <1>8

\* So does the end of a request that wrote a payment.
LEMMA SettleKeepsTypes ==
  ASSUME TypeOK, NEW r \in Request
  PROVE  /\ Settle(r) => TypeOK'
         /\ Defer(r) => TypeOK'
         /\ Commit(r) => TypeOK'
<1>1. work[r] \in Work /\ InlineOutcome(r) \in Outcome
  BY EngineOutcomeType DEF TypeOK, InlineOutcome
<1>2. ASSUME Settle(r) PROVE TypeOK'
  <2>1. work' \in [ Request -> Work ]
    BY <1>1, <1>2, SettledTypes DEF TypeOK, Settle
  <2>2. pc' \in [ Request -> PC ]
    BY <1>2 DEF TypeOK, Settle, PC, Running
  <2>3. /\ sent' \in [ Request -> Nat ]
        /\ sentTo' \in [ Request -> Wallet \cup { Null } ]
    <3>1. CASE InlineOutcome(r) = "sent"
      <4>1. /\ sent' = [ sent EXCEPT ![target[r]] = @ + 1 ]
            /\ sentTo' = [ sentTo EXCEPT ![target[r]] = wallet ]
        BY <1>2, <3>1 DEF Settle
      <4>2. QED
        BY <4>1 DEF TypeOK
    <3>2. CASE InlineOutcome(r) # "sent"
      BY <1>2, <3>2 DEF TypeOK, Settle
    <3>3. QED
      BY <3>1, <3>2
  <2>4. QED
    BY <1>2, <2>1, <2>2, <2>3
       DEF TypeOK, Settle, databaseVars, walletVars, taskVars
<1>3. ASSUME Defer(r) PROVE TypeOK'
  <2>1. work' \in [ Request -> Work ]
    BY <1>1, <1>3, SettledTypes DEF TypeOK, Defer
  <2>2. pc' \in [ Request -> PC ]
    BY <1>3 DEF TypeOK, Defer, PC, Running
  <2>3. task' \in [ Request -> TaskState ] /\ faults' \in 0..MaxFaults
    <3>1. Publish(r)
      BY <1>3 DEF Defer
    <3>2. CASE task' = [ task EXCEPT ![r] = "queued" ] /\ UNCHANGED faults
      BY <3>2 DEF TypeOK, TaskState
    <3>3. CASE /\ faults < MaxFaults
               /\ faults' = faults + 1
               /\ task' = [ task EXCEPT ![r] = "unpublished" ]
      <4>1. task' \in [ Request -> TaskState ]
        BY <3>3 DEF TypeOK, TaskState
      <4>2. faults' \in 0..MaxFaults
        BY <3>3, PaymentsAssumption DEF TypeOK
      <4>3. QED
        BY <4>1, <4>2
    <3>4. QED
      BY <3>1, <3>2, <3>3 DEF Publish
  <2>4. QED
    BY <1>3, <2>1, <2>2, <2>3
       DEF TypeOK, Defer, databaseVars, walletVars, outsideVars
<1>4. ASSUME Commit(r) PROVE TypeOK'
  <2>1. /\ status' = [ status EXCEPT ![target[r]] = work[r].status ]
        /\ receipt' = [ receipt EXCEPT ![target[r]] = @ \/ work[r].receipt ]
        /\ settlement' = [ settlement EXCEPT ![target[r]] = work[r].settlement ]
        /\ payee' = [ payee EXCEPT ![target[r]] = work[r].payee ]
        /\ history' = [ history EXCEPT ![target[r]] = @ \o work[r].log ]
        /\ pc' = [ pc EXCEPT ![r] = "done" ]
        /\ work' = [ work EXCEPT ![r] = NoWork ]
    BY <1>4 DEF Commit
  <2>2. /\ work[r].status \in OptionalStatus
        /\ work[r].receipt \in BOOLEAN
        /\ work[r].settlement \in SettlementStatus \cup { Null }
        /\ work[r].payee \in Wallet \cup { Null }
        /\ work[r].log \in Seq(LogEntry)
    BY <1>1 DEF Work
  <2>3. history' \in [ Request -> Seq(LogEntry) ]
    BY <2>1, <2>2 DEF TypeOK
  <2>4. /\ status' \in [ Request -> OptionalStatus ]
        /\ settlement' \in [ Request -> SettlementStatus \cup { Null } ]
        /\ payee' \in [ Request -> Wallet \cup { Null } ]
    BY <2>1, <2>2 DEF TypeOK
  <2>5. receipt' \in [ Request -> BOOLEAN ]
    BY <2>1, <2>2 DEF TypeOK
  <2>6. pc' \in [ Request -> PC ] /\ work' \in [ Request -> Work ]
    BY <2>1, WorkTypes DEF TypeOK, PC
  <2>7. QED
    BY <1>4, <2>3, <2>4, <2>5, <2>6
       DEF TypeOK, Commit, walletVars, taskVars, outsideVars
<1>5. QED
  BY <1>2, <1>3, <1>4

\* So do the task, the merchant's wallets and the faults.
LEMMA TaskKeepsTypes ==
  ASSUME TypeOK, NEW r \in Request
  PROVE  /\ TaskLoad(r) => TypeOK'
         /\ TaskPlan(r) => TypeOK'
         /\ TaskReturn(r) => TypeOK'
         /\ TaskTransfer(r) => TypeOK'
         /\ TaskRetry(r) => TypeOK'
         /\ TaskCommit(r) => TypeOK'
         /\ TaskAck(r) => TypeOK'
<1>1. ASSUME TaskLoad(r) PROVE TypeOK'
  <2>1. [ NoPlan EXCEPT !.status = status[target[r]] ] \in Plan
    BY WorkTypes DEF TypeOK, Plan
  <2>2. task' \in [ Request -> TaskState ]
    BY <1>1 DEF TypeOK, TaskLoad, TaskState, TaskRunning
  <2>3. plan' \in [ Request -> Plan ]
    BY <1>1, <2>1 DEF TypeOK, TaskLoad
  <2>4. QED
    BY <1>1, <2>2, <2>3
       DEF TypeOK, TaskLoad, databaseVars, walletVars, requestVars, outsideVars
<1>2. ASSUME TaskPlan(r) PROVE TypeOK'
  <2>1. [ plan[r] EXCEPT !.settlement = settlement[target[r]],
                         !.wallet = wallet ] \in Plan
    <3>1. /\ plan[r] \in Plan
          /\ settlement[target[r]] \in SettlementStatus \cup { Null }
          /\ wallet \in Wallet \cup { Null }
      BY DEF TypeOK
    <3>2. QED
      BY <3>1 DEF Plan
  <2>2. task' \in [ Request -> TaskState ]
    BY <1>2 DEF TypeOK, TaskPlan, TaskState, TaskRunning
  <2>3. plan' \in [ Request -> Plan ]
    BY <1>2, <2>1 DEF TypeOK, TaskPlan
  <2>4. QED
    BY <1>2, <2>2, <2>3
       DEF TypeOK, TaskPlan, databaseVars, walletVars, requestVars, outsideVars
<1>3. TaskReturn(r) => TypeOK'
  BY WorkTypes DEF TypeOK, TaskReturn, databaseVars, walletVars, requestVars,
                   outsideVars, TaskState
<1>4. ASSUME TaskTransfer(r) PROVE TypeOK'
  <2>1. task' \in [ Request -> TaskState ]
    BY <1>4 DEF TypeOK, TaskTransfer, TaskState, TaskRunning
  <2>2. /\ sent' \in [ Request -> Nat ]
        /\ sentTo' \in [ Request -> Wallet \cup { Null } ]
    BY <1>4 DEF TypeOK, TaskTransfer, Destination, Plan
  <2>3. QED
    BY <1>4, <2>1, <2>2
       DEF TypeOK, TaskTransfer, databaseVars, walletVars, requestVars
<1>5. ASSUME TaskRetry(r) PROVE TypeOK'
  <2>1. plan' \in [ Request -> Plan ]
    BY <1>5, WorkTypes DEF TypeOK, TaskRetry
  <2>2. task' \in [ Request -> TaskState ]
    BY <1>5 DEF TypeOK, TaskRetry, TaskState
  <2>3. tries' \in [ Request -> 0..MaxRetries ]
    <3>1. CASE MayRetry(r)
      <4>1. tries' = [ tries EXCEPT ![r] = @ + 1 ]
        BY <1>5, <3>1 DEF TaskRetry
      <4>2. tries[r] + 1 \in 0..MaxRetries
        BY <3>1, PaymentsAssumption DEF MayRetry, TypeOK
      <4>3. QED
        BY <4>1, <4>2 DEF TypeOK
    <3>2. CASE ~MayRetry(r)
      BY <1>5, <3>2 DEF TypeOK, TaskRetry
    <3>3. QED
      BY <3>1, <3>2
  <2>4. QED
    BY <1>5, <2>1, <2>2, <2>3
       DEF TypeOK, TaskRetry, databaseVars, walletVars, requestVars, outsideVars
<1>6. ASSUME TaskCommit(r) PROVE TypeOK'
  <2> DEFINE t == target[r]
             p == plan[r]
  <2>1. /\ status' = [ status EXCEPT ![t] = EngineStatus(p.status, "sent") ]
        /\ history' = [ history EXCEPT ![t] = @ \o EngineLog(p.status, "sent") ]
        /\ settlement' = [ settlement EXCEPT ![t] =
                             EngineSettlement(p.settlement, "sent") ]
        /\ payee' = [ payee EXCEPT ![t] =
                        EnginePayee(p.settlement, @, p.wallet, "sent") ]
        /\ task' = [ task EXCEPT ![r] = "committed" ]
        /\ plan' = [ plan EXCEPT ![r] = NoPlan ]
    BY <1>6 DEF TaskCommit
  <2>2. /\ t \in Request
        /\ p.status \in OptionalStatus
        /\ p.settlement \in SettlementStatus \cup { Null }
        /\ p.wallet \in Wallet \cup { Null }
        /\ payee[t] \in Wallet \cup { Null }
        /\ "sent" \in Outcome
    BY DEF TypeOK, Plan, Outcome
  <2>3. /\ EngineStatus(p.status, "sent") \in OptionalStatus
        /\ EngineLog(p.status, "sent") \in Seq(LogEntry)
        /\ EngineSettlement(p.settlement, "sent") \in SettlementStatus \cup { Null }
        /\ EnginePayee(p.settlement, payee[t], p.wallet, "sent")
             \in Wallet \cup { Null }
    BY <2>2, EngineResultTypes
  <2>4. history' \in [ Request -> Seq(LogEntry) ]
    BY <2>1, <2>2, <2>3 DEF TypeOK
  <2>5. status' \in [ Request -> OptionalStatus ]
    BY <2>1, <2>2, <2>3 DEF TypeOK
  <2>6. settlement' \in [ Request -> SettlementStatus \cup { Null } ]
    BY <2>1, <2>2, <2>3 DEF TypeOK
  <2>7. payee' \in [ Request -> Wallet \cup { Null } ]
    BY <2>1, <2>2, <2>3 DEF TypeOK
  <2>8. task' \in [ Request -> TaskState ] /\ plan' \in [ Request -> Plan ]
    BY <2>1, WorkTypes DEF TypeOK, TaskState, TaskRunning
  <2>9. QED
    BY <1>6, <2>4, <2>5, <2>6, <2>7, <2>8
       DEF TypeOK, TaskCommit, walletVars, requestVars, outsideVars
<1>7. TaskAck(r) => TypeOK'
  BY DEF TypeOK, TaskAck, databaseVars, walletVars, requestVars, outsideVars,
         TaskState
<1>8. QED
  BY <1>1, <1>2, <1>3, <1>4, <1>5, <1>6, <1>7

\* The initial state is well typed.
LEMMA InitTypes == Init => TypeOK
BY WorkTypes, PaymentsAssumption
   DEF Init, TypeOK, OptionalStatus, PC, TaskState

\* Every step keeps the types.
LEMMA StepKeepsTypes == TypeOK /\ [Next]_vars => TypeOK'
<1> SUFFICES ASSUME TypeOK, [Next]_vars PROVE TypeOK'
  OBVIOUS
<1>1. ASSUME NEW r \in Request, Begin(r) PROVE TypeOK'
  BY <1>1, CreateKeepsTypes, UpdateKeepsTypes DEF Begin
<1>2. ASSUME NEW r \in Request, RequestStep(r) PROVE TypeOK'
  BY <1>2, CreateKeepsTypes, UpdateKeepsTypes, SettleKeepsTypes
     DEF RequestStep
<1>3. ASSUME NEW r \in Request, TaskStep(r) PROVE TypeOK'
  BY <1>3, TaskKeepsTypes DEF TaskStep
<1>4. ASSUME NEW r \in Request, Crash(r) PROVE TypeOK'
  BY <1>4, WorkTypes, PaymentsAssumption
     DEF TypeOK, Crash, databaseVars, walletVars, taskVars, outsideVars, PC
<1>5. ASSUME NEW r \in Request, TaskCrash(r) PROVE TypeOK'
  BY <1>5, WorkTypes, PaymentsAssumption
     DEF TypeOK, TaskCrash, databaseVars, walletVars, requestVars,
         outsideVars, TaskState
<1>6. ASSUME NEW w \in Wallet, AddWallet(w) PROVE TypeOK'
  BY <1>6 DEF TypeOK, AddWallet, databaseVars, requestVars, taskVars,
              outsideVars
<1>7. CASE UNCHANGED vars
  BY <1>7 DEF TypeOK, vars, databaseVars, walletVars, requestVars, taskVars,
              outsideVars
<1>8. QED
  BY <1>1, <1>2, <1>3, <1>4, <1>5, <1>6, <1>7 DEF Next

\* The variables always have their types.
THEOREM TypeCorrect == Spec => []TypeOK
<1>1. QED
  BY InitTypes, StepKeepsTypes, PTL DEF Spec

=============================================================================
