------------------------------- MODULE Accounts ----------------------------
(***************************************************************************)
(* Authentication behind the rate limiter: a request is dispatched, and    *)
(* one that is let through runs its handler; one that is refused may be    *)
(* sent again.  A stop of the process loses the limiter's windows and the  *)
(* requests under way.                                                     *)
(***************************************************************************)
EXTENDS RateLimiter, RefreshTokens

CONSTANTS
  Workload,    \* what the requests of a behaviour may ask for
  MaxCrashes   \* bound: stops of the process

ASSUME AccountAssumption ==
  /\ \A w \in Workload, r \in Request :
       /\ w[r].caller \in Caller
       /\ w[r].op \in { "refresh", "logout" } => w[r].token \in Request
  /\ MaxCrashes \in Nat

VARIABLES
  admitted,    \* requests the limiter has let through
  crashes

vars == << limiterVars, requestVars, asked, tokenVars, admitted, crashes >>

Init ==
  /\ asked \in Workload
  /\ LimiterInit /\ RequestInit /\ TokenInit
  /\ admitted = {} /\ crashes = 0

\* Nobody sends a token before it is issued.
Sendable(r) ==
  asked[r].op \in { "refresh", "logout" } => token[asked[r].token] # Null

Arrive(r) ==
  LET c == asked[r].caller
  IN  /\ stage[r] = "new" /\ r \notin admitted
      /\ Sendable(r)
      /\ Dispatch(c, asked[r].op)
      /\ admitted' = IF Passes(c, asked[r].op) THEN admitted \cup { r } ELSE admitted
      /\ UNCHANGED << requestVars, asked, tokenVars, crashes >>

Handle(r) ==
  /\ r \in admitted
  /\ TokenStep(r)
  /\ UNCHANGED << limiterVars, asked, admitted, crashes >>

Time ==
  \/ Tick /\ UNCHANGED tokenVars
  \/ (\E t \in Request : Expire(t)) /\ UNCHANGED limiterVars

Crash ==
  /\ crashes < MaxCrashes
  /\ crashes' = crashes + 1
  /\ Forget /\ RollBack
  /\ admitted' = {}
  /\ UNCHANGED << asked, tokenVars >>

Pass == Time /\ UNCHANGED << requestVars, asked, admitted, crashes >>

Next ==
  \/ \E r \in Request : Arrive(r) \/ Handle(r)
  \/ Pass
  \/ Crash

\* Time goes on and callers try again; of the handlers nothing is assumed.
Fairness ==
  /\ WF_vars(Tick /\ UNCHANGED << tokenVars, requestVars, asked, admitted, crashes >>)
  /\ \A r \in Request : WF_vars(Arrive(r))

Spec == Init /\ [][Next]_vars /\ Fairness

=============================================================================
