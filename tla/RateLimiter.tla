----------------------------- MODULE RateLimiter ---------------------------
(***************************************************************************)
(* RateLimitMiddleware (app/middlewares/security.py): a sliding window of  *)
(* time stamps per caller for all requests, and a second, tighter one for  *)
(* login, register and refresh.  dispatch awaits nothing before call_next: *)
(* a verdict is one step.                                                  *)
(*                                                                         *)
(* A window maps an age, in ticks, to the number of stamps of that age;    *)
(* age Window stands for every stamp too old to count that no request has  *)
(* dropped yet.  `passed` observes what was let through, by age, since the *)
(* process started: the windows are in its memory.                         *)
(***************************************************************************)
EXTENDS Naturals, FiniteSets

CONSTANTS
  Caller,     \* IP addresses
  Window,     \* 60 seconds, in ticks
  Limit,      \* rate_limit_per_minute
  AuthLimit   \* auth_rate_limit_per_minute

ASSUME LimitAssumption ==
  /\ Window \in Nat \ {0} /\ Limit \in Nat \ {0} /\ AuthLimit \in Nat \ {0}

VARIABLES
  hits,
  authHits,
  passed,      \* observation: requests let through
  authPassed   \* observation: those of them to the authentication routes

limiterVars == << hits, authHits, passed, authPassed >>

Age == 0 .. Window

NoHits == [ a \in Age |-> 0 ]

\* The entries of a list of stamps, and its length.
Stamps(window) == UNION { { a } \X (1 .. window[a]) : a \in Age }

Size(window) == Cardinality(Stamps(window))

LimiterTypeOK ==
  /\ hits \in [ Caller -> [ Age -> 0 .. Limit ] ]
  /\ authHits \in [ Caller -> [ Age -> 0 .. AuthLimit ] ]
  /\ \A c \in Caller : Size(hits[c]) <= Limit /\ Size(authHits[c]) <= AuthLimit
  /\ { passed, authPassed } \subseteq [ Caller -> [ Age -> Nat ] ]

LimiterInit ==
  /\ hits = [ c \in Caller |-> NoHits ]
  /\ authHits = hits
  /\ passed = hits /\ authPassed = hits

\* A mutant: the window is a tick short.
PrunedEarly(window) ==
  [ a \in Age |-> IF a + 1 >= Window THEN 0 ELSE window[a] ]

\* Stamps are kept while now - stamp < 60.
Pruned(window) == [ window EXCEPT ![Window] = 0 ]

\* A mutant: one more than the limit.
FullLate(window, limit) == Size(window) > limit

Full(window, limit) == Size(window) >= limit

Stamped(window) == [ window EXCEPT ![0] = @ + 1 ]

AuthOps == { "login", "register", "refresh" }

\* What remains of the two windows of a caller, in the order of the code: a
\* request the second one refuses has been counted by the first.
GlobalPass(c) == ~ Full(Pruned(hits[c]), Limit)
AuthPass(c, op) == op \in AuthOps => ~ Full(Pruned(authHits[c]), AuthLimit)
Passes(c, op) == GlobalPass(c) /\ AuthPass(c, op)

\* A mutant: refused attempts count, so that the oldest stamps go.
HitsAfterCountingAll(c) ==
  IF GlobalPass(c) THEN Stamped(Pruned(hits[c])) ELSE [ NoHits EXCEPT ![0] = Limit ]

HitsAfter(c) ==
  IF GlobalPass(c) THEN Stamped(Pruned(hits[c])) ELSE Pruned(hits[c])

AuthHitsAfter(c, op) ==
  IF ~ GlobalPass(c) \/ op \notin AuthOps THEN authHits[c]
  ELSE IF AuthPass(c, op) THEN Stamped(Pruned(authHits[c]))
  ELSE Pruned(authHits[c])

Dispatch(c, op) ==
  /\ hits' = [ hits EXCEPT ![c] = HitsAfter(c) ]
  /\ authHits' = [ authHits EXCEPT ![c] = AuthHitsAfter(c, op) ]
  /\ passed' = IF Passes(c, op) THEN [ passed EXCEPT ![c] = Stamped(@) ] ELSE passed
  /\ authPassed' = IF Passes(c, op) /\ op \in AuthOps
                   THEN [ authPassed EXCEPT ![c] = Stamped(@) ] ELSE authPassed

Older(window) ==
  [ a \in Age |-> CASE a = 0 -> 0
                    [] a = Window -> window[Window] + window[Window - 1]
                    [] OTHER -> window[a - 1] ]

\* The observation forgets what is older than a window.
OlderSeen(seen) == [ Older(seen) EXCEPT ![Window] = 0 ]

Tick ==
  /\ hits' = [ c \in Caller |-> Older(hits[c]) ]
  /\ authHits' = [ c \in Caller |-> Older(authHits[c]) ]
  /\ passed' = [ c \in Caller |-> OlderSeen(passed[c]) ]
  /\ authPassed' = [ c \in Caller |-> OlderSeen(authPassed[c]) ]

\* The windows go with the process.
Forget ==
  /\ hits' = [ c \in Caller |-> NoHits ]
  /\ authHits' = [ c \in Caller |-> NoHits ]
  /\ passed' = [ c \in Caller |-> NoHits ]
  /\ authPassed' = [ c \in Caller |-> NoHits ]

=============================================================================
