------------------------- MODULE TerminalProperties ------------------------
(***************************************************************************)
(* What terminal sessions guarantee.                                       *)
(***************************************************************************)
EXTENDS TerminalSessions, Dashboard

Done(held, taken, released, returned) ==
  [ held |-> held, taken |-> taken, released |-> released,
    returned |-> returned ]

\* What the processor may have done for a session in a state; no session rests
\* in a state that is not named.
MoneyOf(state) ==
  CASE state = "APPROVED"  -> { Done(1, 0, 0, 0) }
    [] state = "COMPLETED" -> { Done(1, 1, 0, 0) }
    [] state = "VOIDED"    -> { Done(1, 0, 1, 0) }
    [] state = "REFUNDED"  -> { Done(1, 1, 0, 1) }
    [] state = "CANCELLED" -> { Done(0, 0, 0, 0), Done(1, 0, 0, 0) }
    [] state \in { "AMOUNT_ENTERED", "PROTOCOL_SELECTED", "AUTHORIZING",
                   "DECLINED", "FAILED" } -> { Done(0, 0, 0, 0) }
    [] OTHER -> {}

(***************************************************************************)
(* Session and processor keep separate records, and the processor refuses  *)
(* neither a second capture nor a refund of what was voided: whatever      *)
(* sequence of authorize, capture, void, refund and cancel a merchant      *)
(* sends, the processor has done for a session what its state says, once.  *)
(***************************************************************************)
MoneyFollowsSession ==
  \A s \in Session :
    session[s] # Null => money[s] \in MoneyOf(session[s].state)

(***************************************************************************)
(* The processor's books and the store tell the same story: the reference  *)
(* a session holds leads to the result its state came from, and no two     *)
(* sessions hold one reference.                                            *)
(***************************************************************************)
BooksFollowSession ==
  \A s \in Session :
    session[s] # Null =>
      LET ref   == session[s].reference
          state == session[s].state
      IN  /\ state \in { "APPROVED", "COMPLETED", "REFUNDED" } =>
               ref # Null /\ books[ref] = "APPROVED"
          /\ state = "VOIDED" => ref # Null /\ books[ref] = "CANCELLED"
          /\ state = "DECLINED" => ref # Null /\ books[ref] = "DECLINED"
          /\ ref # Null => /\ books[ref] # Null
                           /\ \A t \in Session \ {s} :
                                session[t] # Null => session[t].reference # ref

(***************************************************************************)
(* An authorize that fails half-way leaves no surprise: a session rests in *)
(* APPROVED only when its protocol defers the capture, never because the   *)
(* capture of a sale did not follow; it rests in AUTHORIZING only where    *)
(* the processor is the stub, and then nothing was authorised.             *)
(***************************************************************************)
PartialAuthorizations ==
  \A s \in Session :
    session[s] # Null =>
      /\ session[s].state = "APPROVED" => session[s].outcome \in HoldsOnly
      /\ session[s].state = "AUTHORIZING" =>
           settings.processor = "stub" /\ session[s].reference = Null

(***************************************************************************)
(* A create retried with its idempotency key makes no second payment: two  *)
(* sessions of one merchant and key for which the processor held money     *)
(* were made by different processes (the store is gone after a restart).   *)
(***************************************************************************)
OnePaymentPerKey ==
  \A s, t \in Session :
    ( /\ s # t
      /\ money[s].held > 0 /\ money[t].held > 0
      /\ born[s].merchant = born[t].merchant
      /\ born[s].key = born[t].key
      /\ born[s].key # NoKey ) => born[s].life # born[t].life

(***************************************************************************)
(* While a request waits for its audit row other requests go on with its   *)
(* session, so its answer and its audit row may differ: but the session is *)
(* never behind a row, that is, the state it has can be reached from the   *)
(* state the row names, or is that state.                                  *)
(***************************************************************************)
AuditPrecedesAnswer ==
  \A row \in uncommitted \cup audit \cup lost :
    session[row.session] # Null =>
      session[row.session].state \in Reachable[row.state]

(***************************************************************************)
(* A state nobody audited is one the database failed to record, or that of *)
(* an authorisation the stub refused (its exception skips the audit).      *)
(***************************************************************************)
ChangesAudited ==
  \A s \in Session :
    ( session[s] # Null /\ session[s].state # "AUTHORIZING" ) =>
      Row(s, session[s].state) \in uncommitted \cup audit \cup lost

(***************************************************************************)
(* No processor operation is made in an environment called production, by  *)
(* either of the names the code knows: the factory knows one of them and   *)
(* require_protocol_execution both.                                        *)
(***************************************************************************)
NoSimulationInProduction ==
  [][ settings.environment \in { "production", "prod" } => UNCHANGED money ]_vars

(***************************************************************************)
(* The dashboard counts sessions by what happened to the money: of those   *)
(* it lists, approved are those whose money is held or taken and that      *)
(* nobody called off, refunded those that gave it back, declined and       *)
(* pending ones never held any, and each has a bucket.  A session that it  *)
(* leaves out is older than all it lists, and it leaves none out while the *)
(* store has no more than it asks for.                                     *)
(***************************************************************************)
DashboardFollowsMoney ==
  LET known   == { s \in Session : session[s] # Null }
      states  == [ s \in known |-> session[s].state ]
      created == [ s \in known |-> session[s].created ]
      listed  == ListAll(created)
  IN  /\ Counted(states, created, "approved") =
           { s \in listed : /\ money[s] \in { Done(1, 0, 0, 0), Done(1, 1, 0, 0) }
                            /\ session[s].state # "CANCELLED" }
      /\ Counted(states, created, "refunded") =
           { s \in listed : money[s].returned > 0 }
      /\ \A s \in Counted(states, created, "declined")
                \cup Counted(states, created, "pending") : money[s] = NothingDone
      /\ Counted(states, created, "none") = {}
      /\ \A s \in known \ listed, t \in listed : created[s] < created[t]
      /\ Cardinality(known) <= ListLimit => listed = known

\* An audit row says so, or is on its way, or the database lost it.
OnTrail(s, state) == Row(s, state) \in uncommitted \cup audit \cup lost

\* The scenarios in which the processor approves the protocol's payment with
\* the session's answer on a signature.
ScenariosOf(s, p) ==
  { x \in { "signature", "success" } :
      SignatureRequired(x, p.outcome) <=> session[s].signature }

(***************************************************************************)
(* Three places decide whether the payment of a protocol is captured at    *)
(* once or only held: the protocol adapter, the flags of the gateway's     *)
(* charge, and the terminal's authorize.  For an authorised session, given *)
(* the protocol (by its id or by a code that several share), its token and *)
(* any scenario that leads to the terminal's answer, all three hold the    *)
(* money where one does (the terminal's trail shows a rest in APPROVED),   *)
(* and gateway and terminal agree that a signature is asked for.  The      *)
(* exception is a signature that the scenario or the token asks for and    *)
(* not the protocol: the terminal captures such a sale, and where only the *)
(* token asks it does not ask for a signature; the gateway holds the       *)
(* money, and so does the adapter, which knows the token alone.            *)
(***************************************************************************)
ProtocolsDecideAlike ==
  \A s \in Session, p \in Catalog :
    ( /\ session[s] # Null
      /\ money[s].held > 0
      /\ p.outcome = session[s].outcome ) =>
      LET token    == session[s].token
          byToken  == "signature" \in token
          held     == OnTrail(s, "APPROVED")
      IN  /\ \A key \in { p.id, p.code }, scenario \in ScenariosOf(s, p) :
               LET flags == ChargeFlags(key, token, scenario)
               IN  /\ flags[1] <=> session[s].signature \/ byToken
                   /\ flags[2] <=> held \/ session[s].signature \/ byToken
          /\ AdapterStatus(p, token) =
               IF "declined" \in token  THEN "DECLINED"
               ELSE IF held \/ byToken  THEN "AUTHORIZED"
               ELSE "CAPTURED"

-----------------------------------------------------------------------------

\* The phase of a payment, read off what the processor has done.
PhaseOf(done) ==
  CASE done = Done(0, 0, 0, 0) -> "none"
    [] done = Done(1, 0, 0, 0) -> "held"
    [] done = Done(1, 1, 0, 0) -> "taken"
    [] done = Done(1, 0, 1, 0) -> "released"
    [] done = Done(1, 1, 0, 1) -> "returned"
    [] OTHER                   -> "inconsistent"

Holder == INSTANCE CardPayment
  WITH Payment <- Session, phase <- [ s \in Session |-> PhaseOf(money[s]) ]

\* The sessions implement card payments as their holders see them.
ImplementsCardPayment == Holder!Spec

=============================================================================
