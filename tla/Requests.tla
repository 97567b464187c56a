------------------------------ MODULE Requests -----------------------------
(***************************************************************************)
(* HTTP requests as the database sees them (app/database/session.py): each *)
(* has one session, which reads what others have committed, flushes, and   *)
(* commits when the handler returns or rolls back when it raises.          *)
(***************************************************************************)
CONSTANTS Request, Null

ASSUME RequestAssumption == Null \notin Request

VARIABLES
  stage,    \* how far a request is
  before    \* observation: the requests that had ended when one began

requestVars == << stage, before >>

\* "open" has read, "flushed" holds a row's lock; "done" is committed and
\* "refused" rolled back.
Stage == { "new", "open", "flushed", "done", "refused" }

RequestTypeOK ==
  /\ stage \in [ Request -> Stage ]
  /\ before \in [ Request -> SUBSET Request ]

RequestInit ==
  /\ stage = [ r \in Request |-> "new" ]
  /\ before = [ r \in Request |-> {} ]

Ended == { r \in Request : stage[r] \in { "done", "refused" } }

\* The first SELECT of a request; a guard may refuse it there and then.
Begin(r, next) ==
  /\ stage[r] = "new"
  /\ stage' = [ stage EXCEPT ![r] = next ]
  /\ before' = [ before EXCEPT ![r] = Ended ]

Advance(r, from, next) ==
  /\ stage[r] = from
  /\ stage' = [ stage EXCEPT ![r] = next ]
  /\ UNCHANGED before

\* The process stops, and the database rolls its sessions back.
RollBack ==
  /\ stage' = [ r \in Request |->
                  IF stage[r] \in { "open", "flushed" } THEN "refused"
                  ELSE stage[r] ]
  /\ UNCHANGED before

\* Neither of two requests had ended when the other began.
Overlap(r, q) == r \notin before[q] /\ q \notin before[r]

=============================================================================
