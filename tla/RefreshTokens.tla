---------------------------- MODULE RefreshTokens --------------------------
(***************************************************************************)
(* Login, refresh and logout (app/services/auth_service.py) over the table *)
(* refresh_tokens.  A refresh reads its token, then checks hashes and the  *)
(* user, then revokes the row it holds and issues another; others read and *)
(* commit between.  The revocation is an UPDATE by primary key, whatever   *)
(* the row says by then.                                                   *)
(*                                                                         *)
(* A token is named by the request that issues it.  Access tokens, hashes  *)
(* and the encoding of tokens are left out.                                *)
(***************************************************************************)
EXTENDS Requests

ASSUME TokenAssumption == Null \notin { "active", "revoked" }

VARIABLES
  asked,    \* the operation and the token a request brings
  token,    \* revoked_at of the row a request inserted
  expired,  \* tokens past their expires_at
  line      \* observation: the login a token descends from

tokenVars == << token, expired, line >>

TokenTypeOK ==
  /\ token \in [ Request -> { Null, "active", "revoked" } ]
  /\ expired \subseteq { r \in Request : token[r] # Null }
  /\ line \in [ Request -> Request \cup { Null } ]
  /\ \A r \in Request : (line[r] = Null) = (token[r] = Null)

TokenInit ==
  /\ token = [ r \in Request |-> Null ]
  /\ expired = {}
  /\ line = [ r \in Request |-> Null ]

\* A mutant: revoked tokens are found too.
ActiveOrRevoked(t) == token[t] # Null /\ t \notin expired

\* get_active_by_jti
Active(t) == token[t] = "active" /\ t \notin expired

BeginLogin(r) ==
  /\ asked[r].op = "login"
  /\ Begin(r, "open")
  /\ UNCHANGED tokenVars

\* _issue_tokens
WriteLogin(r) ==
  /\ asked[r].op = "login"
  /\ Advance(r, "open", "done")
  /\ token' = [ token EXCEPT ![r] = "active" ]
  /\ line' = [ line EXCEPT ![r] = r ]
  /\ UNCHANGED expired

\* A caller brings a token it was answered with.
BeginRefresh(r) ==
  /\ asked[r].op = "refresh"
  /\ token[asked[r].token] # Null
  /\ Begin(r, IF Active(asked[r].token) THEN "open" ELSE "refused")
  /\ UNCHANGED tokenVars

\* A mutant: the old token stays.
RotatedKeepingOld(r) == [ token EXCEPT ![r] = "active" ]

Rotated(r) == [ token EXCEPT ![asked[r].token] = "revoked", ![r] = "active" ]

WriteRefresh(r) ==
  /\ asked[r].op = "refresh"
  /\ Advance(r, "open", "done")
  /\ token' = Rotated(r)
  /\ line' = [ line EXCEPT ![r] = line[asked[r].token] ]
  /\ UNCHANGED expired

\* A logout with a token that is not active answers alike and does nothing.
BeginLogout(r) ==
  /\ asked[r].op = "logout"
  /\ token[asked[r].token] # Null
  /\ Begin(r, IF Active(asked[r].token) THEN "open" ELSE "done")
  /\ UNCHANGED tokenVars

WriteLogout(r) ==
  /\ asked[r].op = "logout"
  /\ Advance(r, "open", "done")
  /\ token' = [ token EXCEPT ![asked[r].token] = "revoked" ]
  /\ UNCHANGED << expired, line >>

TokenStep(r) ==
  \/ BeginLogin(r) \/ WriteLogin(r)
  \/ BeginRefresh(r) \/ WriteRefresh(r)
  \/ BeginLogout(r) \/ WriteLogout(r)

Expire(t) ==
  /\ token[t] # Null
  /\ t \notin expired
  /\ expired' = expired \cup { t }
  /\ UNCHANGED << token, line >>

=============================================================================
