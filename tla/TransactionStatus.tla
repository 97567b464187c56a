------------------------- MODULE TransactionStatus -------------------------
(***************************************************************************)
(* The life cycle of a payment: TransactionStatus of app/core/enums.py and *)
(* the table ALLOWED_TRANSITIONS of app/payments/state_machine.py with its *)
(* guard assert_transition.  Statuses are strings with the names of the    *)
(* enumeration.  "NONE" is Python's None: the status a payment has before  *)
(* its first one.                                                          *)
(***************************************************************************)

Status ==
  { "PENDING", "PROCESSING", "AUTHORIZED", "CAPTURED", "SUCCESS", "FAILED",
    "CANCELLED", "REFUNDED", "EXPIRED", "SETTLEMENT_PENDING",
    "SETTLEMENT_PROCESSING", "SETTLEMENT_COMPLETE", "COMPLETED",
    "MANUAL_REVIEW" }

AllowedTransitions ==
  [ s \in Status |->
      CASE s = "PENDING"    -> { "PROCESSING", "CANCELLED" }
        [] s = "PROCESSING" -> { "AUTHORIZED", "CAPTURED", "FAILED", "CANCELLED" }
        [] s = "AUTHORIZED" -> { "CAPTURED", "FAILED", "CANCELLED" }
        [] s = "CAPTURED"   -> { "SUCCESS", "SETTLEMENT_PENDING",
                                 "SETTLEMENT_PROCESSING", "COMPLETED",
                                 "REFUNDED", "CANCELLED" }
        [] s = "SUCCESS"    -> { "SETTLEMENT_PENDING", "SETTLEMENT_PROCESSING",
                                 "COMPLETED", "REFUNDED" }
        [] s = "SETTLEMENT_PENDING" ->
             { "SETTLEMENT_PROCESSING", "SETTLEMENT_COMPLETE", "COMPLETED",
               "MANUAL_REVIEW", "REFUNDED" }
        [] s = "SETTLEMENT_PROCESSING" ->
             { "SETTLEMENT_COMPLETE", "COMPLETED", "MANUAL_REVIEW", "FAILED" }
        [] s = "SETTLEMENT_COMPLETE" -> { "COMPLETED", "REFUNDED" }
        [] s = "COMPLETED"           -> { "REFUNDED" }
        [] s = "MANUAL_REVIEW"       -> { "SETTLEMENT_PROCESSING", "COMPLETED",
                                          "REFUNDED" }
        [] OTHER                     -> {} ]

\* What a payment may be created as: the from_status-is-None branch.
InitialStatus == { "PENDING", "PROCESSING" }

AssertTransitionKnown(from, to) ==
  IF from = "NONE" THEN to \in InitialStatus ELSE from \in Status

\* assert_transition(from, to) returns (TRUE) or raises a 409 (FALSE).
AssertTransition(from, to) ==
  IF from = "NONE" THEN to \in InitialStatus
                   ELSE from \in Status /\ to \in AllowedTransitions[from]

-----------------------------------------------------------------------------

\* Every status a payment can be driven to from s by allowed transitions: the
\* table composed with itself until paths of up to 16 transitions, longer than
\* any simple path over the 14 statuses, are covered.
Compose(R) == [ s \in Status |-> R[s] \cup UNION { R[u] : u \in R[s] } ]

AllowedPaths == Compose(Compose(Compose(Compose(AllowedTransitions))))

=============================================================================
