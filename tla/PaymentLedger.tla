---------------------------- MODULE PaymentLedger ----------------------------
(***************************************************************************)
(* What the payment service promises about a reference (an idempotency key *)
(* or a merchant reference), whatever requests, workers and crashes do: at *)
(* most one payment is ever stored under it, it stays stored, and a payout *)
(* to the merchant, once on record for a stored payment, stays on record.  *)
(***************************************************************************)
CONSTANTS Payment, Reference

VARIABLES
  stored,   \* the payments stored under a reference
  paidOut   \* the payments with a completed settlement

ledger == << stored, paidOut >>

Init ==
  /\ stored = [ p \in Reference |-> {} ]
  /\ paidOut = {}

(* A payment is stored under a free reference, paid out already or not.    *)
Store(p, t) ==
  /\ stored[p] = {}
  /\ \A q \in Reference : t \notin stored[q]
  /\ stored' = [ stored EXCEPT ![p] = { t } ]
  /\ paidOut' \in { paidOut, paidOut \cup { t } }

(* A stored payment is paid out.                                           *)
PayOut(p, t) ==
  /\ t \in stored[p]
  /\ paidOut' = paidOut \cup { t }
  /\ UNCHANGED stored

Next == \E p \in Reference, t \in Payment : Store(p, t) \/ PayOut(p, t)

Spec == Init /\ [][Next]_ledger

=============================================================================
