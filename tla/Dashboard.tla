------------------------------ MODULE Dashboard -----------------------------
(***************************************************************************)
(* The buckets the admin dashboard counts terminal sessions in             *)
(* (app/services/admin_dashboard_service.py).  It reads the newest ones of *)
(* the store in one step; the day series, the volumes and the payments of  *)
(* the database are left out.                                              *)
(***************************************************************************)
EXTENDS FiniteSets, Naturals

CONSTANT ListLimit  \* sessions the dashboard asks the store for, 1000

ASSUME ListAssumption == ListLimit \in Nat \ {0}

\* The names of the five sets that a terminal state may have; the others are
\* statuses of payments, in lower case.
ApprovedStates == { "APPROVED", "CAPTURED", "COMPLETED" }
PendingStates  ==
  { "PENDING", "CREATED", "AMOUNT_ENTERED", "PROTOCOL_SELECTED",
    "CARD_PRESENTED", "AUTHORIZING" }

\* Counts what the card holder did not get back as if it had been returned.
BucketByName(state) ==
  CASE state \in ApprovedStates \ { "COMPLETED" }   -> "approved"
    [] state \in { "DECLINED", "FAILED" }           -> "declined"
    [] state \in { "REFUNDED", "COMPLETED" }        -> "refunded"
    [] state \in { "VOIDED", "CANCELLED" }          -> "voided"
    [] state \in PendingStates                      -> "pending"
    [] OTHER                                        -> "none"

\* _bucket: the failures that no set names count as declined.
Bucket(state) ==
  CASE state \in ApprovedStates                            -> "approved"
    [] state = "DECLINED"                                  -> "declined"
    [] state = "REFUNDED"                                  -> "refunded"
    [] state \in { "VOIDED", "CANCELLED" }                 -> "voided"
    [] state \in PendingStates                             -> "pending"
    [] state \in { "FAILED", "TIMEOUT", "ERROR" }          -> "declined"
    [] OTHER                                               -> "none"

\* The sessions made after a given one, by the times they were created at.
Newer(created, s) == { t \in DOMAIN created : created[t] > created[s] }

\* Lists the oldest sessions, as a sort in the other order would.
ListAllOldest(created) ==
  { s \in DOMAIN created :
      Cardinality({ t \in DOMAIN created : created[t] < created[s] }) < ListLimit }

\* list_all(limit): the store's sessions, the newest first, up to the limit.
ListAll(created) ==
  { s \in DOMAIN created : Cardinality(Newer(created, s)) < ListLimit }

\* The sessions of a bucket, out of those listed.
Counted(states, created, bucket) ==
  { s \in ListAll(created) : Bucket(states[s]) = bucket }

=============================================================================
