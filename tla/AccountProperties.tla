------------------------- MODULE AccountProperties -------------------------
(***************************************************************************)
(* What logins, refresh tokens and the rate limiter guarantee.             *)
(***************************************************************************)
EXTENDS Accounts

TypeOK ==
  /\ asked \in Workload
  /\ LimiterTypeOK /\ RequestTypeOK /\ TokenTypeOK
  /\ admitted \subseteq Request /\ crashes \in 0 .. MaxCrashes

Answered(r, ops) == stage[r] = "done" /\ asked[r].op \in ops

(***************************************************************************)
(* A refresh or a logout uses its token up: no refresh that begins after   *)
(* it was answered gets a new pair with that token.  Only requests that    *)
(* overlap use one token twice, since nothing locks the row between        *)
(* get_active_by_jti and revoke.                                           *)
(***************************************************************************)
UsedTokensStayUsed ==
  \A r, q \in Request :
    /\ Answered(r, { "refresh", "logout" }) /\ Answered(q, { "refresh" })
    /\ r # q /\ asked[r].token = asked[q].token
    => r \notin before[q]

(***************************************************************************)
(* A login has one active refresh token, however often it was rotated and  *)
(* whatever crashed, unless two refreshes of one token of that line        *)
(* overlapped.                                                             *)
(***************************************************************************)
OneActivePerLogin ==
  \A a, b \in Request :
    /\ Active(a) /\ Active(b) /\ a # b /\ line[a] = line[b]
    => \E r, q \in Request :
         /\ Answered(r, { "refresh" }) /\ Answered(q, { "refresh" }) /\ r # q
         /\ asked[r].token = asked[q].token /\ line[r] = line[a]
         /\ Overlap(r, q)

(***************************************************************************)
(* Between two starts of the process no caller gets more requests through  *)
(* within any 60 seconds than its limits, wherever the 60 seconds begin,   *)
(* and its lists of time stamps are no longer than that.                   *)
(***************************************************************************)
AdmittedWithinLimit ==
  \A c \in Caller : Size(passed[c]) <= Limit /\ Size(authPassed[c]) <= AuthLimit

(***************************************************************************)
(* A lockout ends: a caller that only tries again, as fast as it likes,    *)
(* gets every request through.  A request a window refuses is not stamped  *)
(* in it; what the window of the authentication routes refuses is stamped  *)
(* in the other, which only delays the caller.                             *)
(***************************************************************************)
LockoutsEnd ==
  \A r \in Request :
    (stage[r] = "new" /\ Sendable(r)) ~> (r \in admitted)

=============================================================================
