---------------------------- MODULE AccountProofs --------------------------
(***************************************************************************)
(* Proofs about refresh tokens and the rate limiter, for any number of     *)
(* requests, callers and crashes, any limits and any window.  The limiter  *)
(* only delays a request, so each has an invariant of its own: the tokens  *)
(* and the sessions that use them, then the lists of time stamps and what  *)
(* they let through.                                                       *)
(***************************************************************************)
EXTENDS AccountProperties, FiniteSetTheorems, TLAPS

Uses == { "refresh", "logout" }

\* No refresh was answered with this token brought.
Unrotated(t) ==
  \A r \in Request : Answered(r, { "refresh" }) => asked[r].token # t

\* Two refreshes of one token of a login that overlapped were both answered.
Forked(login) ==
  \E r, q \in Request :
    /\ Answered(r, { "refresh" }) /\ Answered(q, { "refresh" }) /\ r # q
    /\ asked[r].token = asked[q].token /\ line[r] = login
    /\ Overlap(r, q)

-----------------------------------------------------------------------------
(* The inductive invariant *)

\* A request issues its token when it commits, and its line is then known.
IssuedByDone ==
  \A r \in Request :
    token[r] # Null => /\ stage[r] = "done"
                       /\ line[r] \in Request /\ token[line[r]] # Null

\* A request that has begun brings a token that was issued.
BroughtIssued ==
  \A r \in Request :
    asked[r].op \in Uses /\ stage[r] # "new" => token[asked[r].token] # Null

\* A token is used up by the first request that is answered for it.
UsedUp == \A r \in Request : Answered(r, Uses) => ~Active(asked[r].token)

\* What had ended when a request began has ended.
EndedStays == \A q \in Request : before[q] \subseteq Ended

\* A refresh that began after its token was used is refused.
LateRefused ==
  \A r, q \in Request :
    /\ Answered(r, Uses) /\ asked[r].token = asked[q].token /\ r # q
    /\ asked[q].op = "refresh" /\ stage[q] \in { "open", "done" }
    => r \notin before[q]

\* A rotated token is of the line of the one it replaces.
RotatedInLine ==
  \A r \in Request :
    Answered(r, { "refresh" }) =>
      token[r] # Null /\ line[r] = line[asked[r].token]

\* A line without a fork ends in one token.
OneEndPerLine ==
  \A a, b \in Request :
    /\ token[a] # Null /\ token[b] # Null /\ a # b /\ line[a] = line[b]
    /\ Unrotated(a) /\ Unrotated(b)
    => Forked(line[a])

TokenInv ==
  /\ asked \in Workload /\ RequestTypeOK /\ TokenTypeOK
  /\ IssuedByDone /\ BroughtIssued /\ UsedUp /\ EndedStays
  /\ LateRefused /\ RotatedInLine /\ OneEndPerLine

-----------------------------------------------------------------------------
(* How a step may change the records *)

\* A request that brings a token brings the name of one.
LEMMA Brings ==
  ASSUME asked \in Workload, NEW r \in Request, asked[r].op \in Uses
  PROVE  asked[r].token \in Request
BY AccountAssumption DEF Uses

\* What is answered stays answered, issued tokens keep their line, and a fork
\* stays, in a step that keeps these.
LEMMA ForkStays ==
  ASSUME NEW login, Forked(login), asked' = asked,
         \A r \in Request : stage[r] = "done" =>
           stage'[r] = "done" /\ before'[r] = before[r] /\ line'[r] = line[r]
  PROVE  Forked(login)'
BY DEF Forked, Answered, Overlap

\* Nothing has happened in the initial states.
LEMMA InitTokens == Init => TokenInv
BY RequestAssumption
   DEF Init, RequestInit, TokenInit, TokenInv, RequestTypeOK, TokenTypeOK, Stage,
       IssuedByDone, BroughtIssued, UsedUp, EndedStays, LateRefused,
       RotatedInLine, OneEndPerLine, Answered, Ended

\* A request that begins leaves the tokens alone: a refresh is let in only with
\* an active one, which nobody has used.
LEMMA BeginKeeps ==
  ASSUME TokenInv, NEW r \in Request, NEW next, Begin(r, next),
         UNCHANGED << asked, tokenVars >>,
         next \in { "open", "refused", "done" },
         asked[r].op \in Uses => token[asked[r].token] # Null,
         asked[r].op \in Uses /\ next = "open" => Active(asked[r].token),
         asked[r].op = "refresh" => next # "done",
         asked[r].op = "logout" /\ next = "done" => ~Active(asked[r].token)
  PROVE  TokenInv'
<1> USE DEF Begin, tokenVars
<1>1. (asked \in Workload /\ RequestTypeOK /\ TokenTypeOK)'
  BY DEF TokenInv, RequestTypeOK, TokenTypeOK, Stage, Ended
<1>2. \A q \in Request : q # r => stage'[q] = stage[q] /\ before'[q] = before[q]
  BY DEF TokenInv, RequestTypeOK
<1>3. stage[r] = "new" /\ stage'[r] = next /\ before'[r] = Ended
  BY DEF TokenInv, RequestTypeOK
<1>4. token[r] = Null
  BY <1>3 DEF TokenInv, IssuedByDone
<1>5. IssuedByDone'
  BY <1>2, <1>4 DEF TokenInv, IssuedByDone
<1>6. BroughtIssued'
  BY <1>2 DEF TokenInv, BroughtIssued
<1>7. UsedUp'
  BY <1>2, <1>3 DEF TokenInv, UsedUp, Answered, Active, Uses
<1>8. EndedStays'
  BY <1>2, <1>3 DEF TokenInv, EndedStays, Ended
<1>9. LateRefused'
  <2> SUFFICES ASSUME NEW p \in Request, NEW q \in Request, Answered(p, Uses)',
                      asked[p].token = asked[q].token, p # q,
                      asked[q].op = "refresh", stage'[q] \in { "open", "done" }
               PROVE  p \notin before'[q]
    BY DEF LateRefused
  <2>1. CASE q = r
    <3>1. Active(asked[r].token)
      BY <2>1, <1>3 DEF Uses
    <3>2. ~Answered(p, Uses)
      BY <2>1, <3>1 DEF TokenInv, UsedUp
    <3>3. p \notin Ended
      BY <3>2, <1>2, <2>1 DEF Answered, Ended
    <3>4. QED
      BY <3>3, <2>1, <1>3
  <2>2. CASE q # r /\ p = r
    BY <2>2, <1>2, <1>3 DEF TokenInv, EndedStays, Ended
  <2>3. CASE q # r /\ p # r
    BY <2>3, <1>2 DEF TokenInv, LateRefused, Answered
  <2>4. QED
    BY <2>1, <2>2, <2>3
<1>10. \A q \in Request : Answered(q, { "refresh" })' <=> Answered(q, { "refresh" })
  BY <1>2, <1>3 DEF Answered, Uses
<1>11. RotatedInLine'
  BY <1>10 DEF TokenInv, RotatedInLine
<1>12. OneEndPerLine'
  <2> SUFFICES ASSUME NEW a \in Request, NEW b \in Request,
                      token[a] # Null, token[b] # Null, a # b, line[a] = line[b],
                      Unrotated(a)', Unrotated(b)'
               PROVE  Forked(line[a])'
    BY DEF OneEndPerLine
  <2>1. Forked(line[a])
    BY <1>10 DEF TokenInv, OneEndPerLine, Unrotated
  <2>2. \A q \in Request : stage[q] = "done" => q # r
    BY <1>3
  <2>3. QED
    BY <2>1, <2>2, <1>2, ForkStays
<1>13. QED
  BY <1>1, <1>5, <1>6, <1>7, <1>8, <1>9, <1>11, <1>12 DEF TokenInv

\* A request that commits was open, and had ended before no other began.
LEMMA CommitKeeps ==
  ASSUME TokenInv, NEW r \in Request, Advance(r, "open", "done"), asked' = asked
  PROVE  /\ RequestTypeOK' /\ EndedStays' /\ LateRefused'
         /\ stage[r] = "open" /\ stage'[r] = "done" /\ token[r] = Null
         /\ \A q \in Request : q # r => stage'[q] = stage[q]
         /\ before' = before
<1> USE DEF Advance
<1>1. RequestTypeOK'
  BY DEF TokenInv, RequestTypeOK, Stage
<1>2. stage[r] = "open" /\ stage'[r] = "done" /\ before' = before
  BY DEF TokenInv, RequestTypeOK
<1>3. \A q \in Request : q # r => stage'[q] = stage[q]
  BY DEF TokenInv, RequestTypeOK
<1>4. token[r] = Null
  BY <1>2 DEF TokenInv, IssuedByDone
<1>5. EndedStays'
  BY <1>2, <1>3 DEF TokenInv, EndedStays, Ended
<1>6. LateRefused'
  <2> SUFFICES ASSUME NEW p \in Request, NEW q \in Request, Answered(p, Uses)',
                      asked[p].token = asked[q].token, p # q,
                      asked[q].op = "refresh", stage'[q] \in { "open", "done" }
               PROVE  p \notin before[q]
    BY <1>2 DEF LateRefused
  <2>1. CASE p = r
    BY <2>1, <1>2 DEF TokenInv, EndedStays, Ended
  <2>2. CASE p # r
    <3>1. Answered(p, Uses)
      BY <2>2, <1>3 DEF Answered
    <3>2. stage[q] \in { "open", "done" }
      BY <1>2, <1>3
    <3>3. QED
      BY <3>1, <3>2 DEF TokenInv, LateRefused
  <2>3. QED
    BY <2>1, <2>2
<1>7. QED
  BY <1>1, <1>2, <1>3, <1>4, <1>5, <1>6

\* A login starts a line of its own.
LEMMA LoginKeeps ==
  ASSUME TokenInv, NEW r \in Request, WriteLogin(r), asked' = asked
  PROVE  TokenInv'
<1>1. /\ asked[r].op = "login" /\ Advance(r, "open", "done")
      /\ token' = [ token EXCEPT ![r] = "active" ]
      /\ line' = [ line EXCEPT ![r] = r ] /\ expired' = expired
  BY DEF WriteLogin
<1>2. /\ RequestTypeOK' /\ EndedStays' /\ LateRefused'
      /\ stage[r] = "open" /\ stage'[r] = "done" /\ token[r] = Null
      /\ \A q \in Request : q # r => stage'[q] = stage[q]
      /\ before' = before
  BY <1>1, CommitKeeps
<1>3. /\ token'[r] = "active" /\ line'[r] = r
      /\ \A q \in Request : q # r => token'[q] = token[q] /\ line'[q] = line[q]
  BY <1>1 DEF TokenInv, TokenTypeOK
<1>4. (asked \in Workload)' /\ TokenTypeOK'
  BY <1>1, RequestAssumption, TokenAssumption
     DEF TokenInv, TokenTypeOK
<1>5. IssuedByDone'
  BY <1>2, <1>3, RequestAssumption DEF TokenInv, IssuedByDone
<1>6. BroughtIssued'
  <2> SUFFICES ASSUME NEW q \in Request, asked[q].op \in Uses, stage'[q] # "new"
               PROVE  token'[asked[q].token] # Null
    BY <1>1 DEF BroughtIssued
  <2>1. q # r
    BY <1>1 DEF Uses
  <2>2. token[asked[q].token] # Null
    BY <2>1, <1>2 DEF TokenInv, BroughtIssued
  <2>3. QED
    BY <2>2, <1>2, <1>3, Brings DEF TokenInv
<1>7. \A q \in Request : asked[q].op \in Uses => Answered(q, Uses)' = Answered(q, Uses)
  BY <1>1, <1>2 DEF Answered, Uses
<1>8. \A q \in Request : Answered(q, { "refresh" })' <=> Answered(q, { "refresh" })
  BY <1>1, <1>2 DEF Answered
<1>9. UsedUp'
  <2> SUFFICES ASSUME NEW q \in Request, Answered(q, Uses)'
               PROVE  ~Active(asked[q].token)'
    BY <1>1 DEF UsedUp
  <2>1. q # r /\ asked[q].op \in Uses /\ stage[q] = "done"
    BY <1>1, <1>2 DEF Answered, Uses
  <2>2. asked[q].token \in Request /\ token[asked[q].token] # Null
    BY <2>1, Brings DEF TokenInv, BroughtIssued
  <2>3. ~Active(asked[q].token)
    BY <2>1 DEF TokenInv, UsedUp, Answered
  <2>4. QED
    BY <1>1, <1>2, <1>3, <2>2, <2>3 DEF Active
<1>10. RotatedInLine'
  <2> SUFFICES ASSUME NEW q \in Request, Answered(q, { "refresh" })
               PROVE  token'[q] # Null /\ line'[q] = line'[asked[q].token]
    BY <1>1, <1>8 DEF RotatedInLine
  <2>1. q # r /\ asked[q].op \in Uses /\ stage[q] = "done"
    BY <1>1 DEF Answered, Uses
  <2>2. asked[q].token \in Request /\ token[asked[q].token] # Null
    BY <2>1, Brings DEF TokenInv, BroughtIssued
  <2>3. QED
    BY <2>1, <2>2, <1>2, <1>3 DEF TokenInv, RotatedInLine
<1>11. OneEndPerLine'
  <2> SUFFICES ASSUME NEW a \in Request, NEW b \in Request,
                      token'[a] # Null, token'[b] # Null, a # b,
                      line'[a] = line'[b], Unrotated(a)', Unrotated(b)'
               PROVE  Forked(line[a])'
    BY DEF OneEndPerLine
  <2>1. \A q \in Request : q # r /\ token'[q] # Null => line'[q] # r
    <3>1. \A q \in Request : token[q] # Null => token[line[q]] # Null
      BY DEF TokenInv, IssuedByDone
    <3>2. QED
      BY <3>1, <1>2, <1>3
  <2>2. a # r /\ b # r
    BY <2>1, <1>3
  <2>3. line'[a] = line[a] /\ line'[b] = line[b]
    BY <2>2, <1>3
  <2>4. Forked(line[a])
    <3>1. Unrotated(a) /\ Unrotated(b)
      BY <1>1, <1>8 DEF Unrotated
    <3>2. token[a] # Null /\ token[b] # Null /\ line[a] = line[b]
      BY <2>2, <2>3, <1>3
    <3>3. QED
      BY <3>1, <3>2 DEF TokenInv, OneEndPerLine
  <2>5. PICK login : login = line[a]
    OBVIOUS
  <2>6. Forked(login)'
    <3>1. \A q \in Request : stage[q] = "done" =>
            stage'[q] = "done" /\ before'[q] = before[q] /\ line'[q] = line[q]
      BY <1>2, <1>3
    <3>2. QED
      BY <3>1, <2>4, <2>5, <1>1, ForkStays
  <2>7. QED
    BY <2>3, <2>5, <2>6, Zenon
<1>12. QED
  BY <1>2, <1>4, <1>5, <1>6, <1>9, <1>10, <1>11 DEF TokenInv

\* A logout revokes its token, and issues none.
LEMMA LogoutKeeps ==
  ASSUME TokenInv, NEW r \in Request, WriteLogout(r), asked' = asked
  PROVE  TokenInv'
<1> DEFINE t == asked[r].token
<1>1. /\ asked[r].op = "logout" /\ Advance(r, "open", "done")
      /\ token' = [ token EXCEPT ![t] = "revoked" ]
      /\ line' = line /\ expired' = expired
  BY DEF WriteLogout
<1>2. /\ RequestTypeOK' /\ EndedStays' /\ LateRefused'
      /\ stage[r] = "open" /\ stage'[r] = "done" /\ token[r] = Null
      /\ \A q \in Request : q # r => stage'[q] = stage[q]
      /\ before' = before
  BY <1>1, CommitKeeps
<1>3. t \in Request /\ token[t] # Null
  BY <1>1, <1>2, Brings DEF TokenInv, BroughtIssued, Uses
<1>4. /\ token'[t] = "revoked"
      /\ \A q \in Request : q # t => token'[q] = token[q]
      /\ \A q \in Request : token'[q] # Null <=> token[q] # Null
  BY <1>1, <1>3, RequestAssumption, TokenAssumption
     DEF TokenInv, TokenTypeOK
<1> HIDE DEF t
<1>5. (asked \in Workload)' /\ TokenTypeOK'
  BY <1>1, <1>3, <1>4 DEF TokenInv, TokenTypeOK
<1>6. IssuedByDone'
  BY <1>1, <1>2, <1>4 DEF TokenInv, IssuedByDone
<1>7. BroughtIssued'
  BY <1>1, <1>2, <1>4, Brings DEF TokenInv, BroughtIssued
<1>8. \A q \in Request : Answered(q, { "refresh" })' <=> Answered(q, { "refresh" })
  BY <1>1, <1>2 DEF Answered
<1>9. UsedUp'
  <2> SUFFICES ASSUME NEW q \in Request, Answered(q, Uses)'
               PROVE  ~Active(asked[q].token)'
    BY <1>1 DEF UsedUp
  <2>1. CASE asked[q].token = t
    BY <2>1, <1>1, <1>4 DEF Active
  <2>2. CASE asked[q].token # t
    <3>1. Answered(q, Uses)
      BY <2>2, <1>1, <1>2 DEF Answered, t
    <3>2. ~Active(asked[q].token) /\ asked[q].token \in Request
      BY <3>1, Brings DEF TokenInv, UsedUp, Answered
    <3>3. QED
      BY <3>2, <2>2, <1>1, <1>4 DEF Active
  <2>3. QED
    BY <2>1, <2>2
<1>10. RotatedInLine'
  BY <1>1, <1>4, <1>8 DEF TokenInv, RotatedInLine
<1>11. OneEndPerLine'
  <2> SUFFICES ASSUME NEW a \in Request, NEW b \in Request,
                      token[a] # Null, token[b] # Null, a # b,
                      line[a] = line[b], Unrotated(a)', Unrotated(b)'
               PROVE  Forked(line[a])'
    BY <1>1, <1>4 DEF OneEndPerLine
  <2>1. Forked(line[a])
    BY <1>1, <1>8 DEF TokenInv, OneEndPerLine, Unrotated
  <2>2. \A q \in Request : stage[q] = "done" => q # r
    BY <1>2
  <2>3. QED
    BY <2>1, <2>2, <1>1, <1>2, ForkStays
<1>12. QED
  BY <1>2, <1>5, <1>6, <1>7, <1>9, <1>10, <1>11 DEF TokenInv

\* A refresh revokes its token and issues one of the same line.  When another
\* refresh has rotated that token, the two overlapped.
LEMMA RefreshKeeps ==
  ASSUME TokenInv, NEW r \in Request, WriteRefresh(r), asked' = asked
  PROVE  TokenInv'
<1> DEFINE t == asked[r].token
<1>1. /\ asked[r].op = "refresh" /\ Advance(r, "open", "done")
      /\ token' = [ token EXCEPT ![t] = "revoked", ![r] = "active" ]
      /\ line' = [ line EXCEPT ![r] = line[t] ] /\ expired' = expired
  BY DEF WriteRefresh, Rotated
<1>2. /\ RequestTypeOK' /\ EndedStays' /\ LateRefused'
      /\ stage[r] = "open" /\ stage'[r] = "done" /\ token[r] = Null
      /\ \A q \in Request : q # r => stage'[q] = stage[q]
      /\ before' = before
  BY <1>1, CommitKeeps
<1>3. t \in Request /\ token[t] # Null /\ t # r
  BY <1>1, <1>2, Brings DEF TokenInv, BroughtIssued, Uses
<1>4. /\ token'[t] = "revoked" /\ token'[r] = "active"
      /\ \A q \in Request : q \notin { r, t } => token'[q] = token[q]
      /\ \A q \in Request : q # r => (token'[q] # Null <=> token[q] # Null)
      /\ token'[r] # Null
  BY <1>1, <1>3, TokenAssumption DEF TokenInv, TokenTypeOK
<1>5. /\ line'[r] = line[t]
      /\ \A q \in Request : q # r => line'[q] = line[q]
  BY <1>1 DEF TokenInv, TokenTypeOK
<1> HIDE DEF t
<1>6. line[t] \in Request /\ token[line[t]] # Null /\ line[t] # r
  BY <1>2, <1>3 DEF TokenInv, IssuedByDone
<1>7. (asked \in Workload)' /\ TokenTypeOK'
  <2>1. token' \in [ Request -> { Null, "active", "revoked" } ]
    BY <1>1 DEF TokenInv, TokenTypeOK
  <2>2. line' \in [ Request -> Request \cup { Null } ]
    BY <1>1, <1>6 DEF TokenInv, TokenTypeOK
  <2>3. expired' \subseteq { q \in Request : token'[q] # Null }
    BY <1>1, <1>4 DEF TokenInv, TokenTypeOK
  <2>4. \A q \in Request : (line'[q] = Null) = (token'[q] = Null)
    BY <1>4, <1>5, <1>6, RequestAssumption DEF TokenInv, TokenTypeOK
  <2>5. QED
    BY <2>1, <2>2, <2>3, <2>4 DEF TokenInv, TokenTypeOK
<1>8. IssuedByDone'
  <2> SUFFICES ASSUME NEW q \in Request, token'[q] # Null
               PROVE  /\ stage'[q] = "done"
                      /\ line'[q] \in Request /\ token'[line'[q]] # Null
    BY DEF IssuedByDone
  <2>1. CASE q = r
    BY <2>1, <1>2, <1>4, <1>5, <1>6
  <2>2. CASE q # r
    <3>1. stage[q] = "done" /\ line[q] \in Request /\ token[line[q]] # Null
      BY <2>2, <1>4 DEF TokenInv, IssuedByDone
    <3>2. QED
      BY <3>1, <2>2, <1>2, <1>4, <1>5
  <2>3. QED
    BY <2>1, <2>2
<1>9. BroughtIssued'
  <2> SUFFICES ASSUME NEW q \in Request, asked[q].op \in Uses, stage'[q] # "new"
               PROVE  token'[asked[q].token] # Null
    BY <1>1 DEF BroughtIssued
  <2>1. token[asked[q].token] # Null /\ asked[q].token \in Request
    BY <1>2, Brings DEF TokenInv, BroughtIssued
  <2>2. QED
    BY <2>1, <1>4
<1>10. \A q \in Request, ops \in { Uses, { "refresh" } } :
         q # r => (Answered(q, ops)' <=> Answered(q, ops))
  BY <1>1, <1>2 DEF Answered
<1>11. Answered(r, Uses)' /\ Answered(r, { "refresh" })'
  BY <1>1, <1>2 DEF Answered, Uses
<1>12. UsedUp'
  <2> SUFFICES ASSUME NEW q \in Request, Answered(q, Uses)'
               PROVE  ~Active(asked[q].token)'
    BY <1>1 DEF UsedUp
  <2>1. asked[q].token \in Request /\ token[asked[q].token] # Null
    <3>1. asked[q].op \in Uses /\ stage[q] # "new"
      BY <1>1, <1>2 DEF Answered
    <3>2. QED
      BY <3>1, Brings DEF TokenInv, BroughtIssued
  <2>2. asked[q].token # r
    BY <2>1, <1>2
  <2>3. CASE asked[q].token = t
    BY <2>3, <1>1, <1>4 DEF Active
  <2>4. CASE asked[q].token # t
    <3>1. Answered(q, Uses)
      BY <2>4, <1>10 DEF t
    <3>2. ~Active(asked[q].token)
      BY <3>1 DEF TokenInv, UsedUp
    <3>3. QED
      BY <3>2, <2>1, <2>2, <2>4, <1>1, <1>4 DEF Active
  <2>5. QED
    BY <2>3, <2>4
<1>13. RotatedInLine'
  <2> SUFFICES ASSUME NEW q \in Request, Answered(q, { "refresh" })'
               PROVE  token'[q] # Null /\ line'[q] = line'[asked[q].token]
    BY <1>1 DEF RotatedInLine
  <2>1. CASE q = r
    BY <2>1, <1>3, <1>4, <1>5 DEF t
  <2>2. CASE q # r
    <3>1. token[q] # Null /\ line[q] = line[asked[q].token]
      BY <2>2, <1>10 DEF TokenInv, RotatedInLine
    <3>2. asked[q].op \in Uses /\ stage[q] # "new"
      BY <2>2, <1>1, <1>2 DEF Answered, Uses
    <3>3. asked[q].token \in Request /\ asked[q].token # r
      BY <3>2, <1>2, Brings DEF TokenInv, BroughtIssued
    <3>4. QED
      BY <3>1, <3>3, <2>2, <1>4, <1>5
  <2>3. QED
    BY <2>1, <2>2
<1>14. \A login : Forked(login) => Forked(login)'
  <2>1. \A q \in Request : stage[q] = "done" =>
          stage'[q] = "done" /\ before'[q] = before[q] /\ line'[q] = line[q]
    BY <1>2, <1>5
  <2>2. QED
    BY <2>1, <1>1, ForkStays
<1>15. \A a \in Request : Unrotated(a)' => a # t /\ Unrotated(a)
  BY <1>1, <1>2, <1>10, <1>11 DEF Unrotated, Answered, t
<1>16. ASSUME NEW login, login = line[t], NEW b \in Request, b # r,
              token[b] # Null, line[b] = login, Unrotated(b)'
       PROVE  Forked(login)'
  <2>1. b # t /\ Unrotated(b)
    BY <1>15, <1>16
  <2>2. CASE Unrotated(t)
    <3>1. Forked(login)
      BY <2>1, <2>2, <1>3, <1>16 DEF TokenInv, OneEndPerLine
    <3>2. QED
      BY <3>1, <1>14
  <2>3. CASE ~Unrotated(t)
    <3>1. PICK q \in Request : Answered(q, { "refresh" }) /\ asked[q].token = t
      BY <2>3 DEF Unrotated
    <3>2. q # r /\ line[q] = line[t]
      BY <3>1, <1>2 DEF TokenInv, RotatedInLine, Answered
    <3>3. /\ Answered(q, { "refresh" })' /\ Answered(q, Uses)'
          /\ stage'[q] = "done" /\ asked[q].op = "refresh"
      BY <3>1, <3>2, <1>1, <1>2 DEF Answered, Uses
    <3>4. Overlap(r, q)'
      BY <3>1, <3>2, <3>3, <1>1, <1>2, <1>11 DEF LateRefused, Overlap, t
    <3>5. QED
      BY <3>1, <3>2, <3>3, <3>4, <1>1, <1>5, <1>11, <1>16 DEF Forked, t
  <2>4. QED
    BY <2>2, <2>3
<1>17. OneEndPerLine'
  <2> SUFFICES ASSUME NEW a \in Request, NEW b \in Request,
                      token'[a] # Null, token'[b] # Null, a # b,
                      line'[a] = line'[b], Unrotated(a)', Unrotated(b)'
               PROVE  Forked(line[a])'
    BY DEF OneEndPerLine
  <2>1. PICK login : login = line'[a]
    OBVIOUS
  <2>2. CASE a = r
    <3>1. b # r /\ token[b] # Null /\ line[b] = login /\ login = line[t]
      BY <2>1, <2>2, <1>4, <1>5
    <3>2. QED
      BY <3>1, <2>1, <1>16, Zenon
  <2>3. CASE b = r
    <3>1. a # r /\ token[a] # Null /\ line[a] = login /\ login = line[t]
      BY <2>1, <2>3, <1>4, <1>5
    <3>2. QED
      BY <3>1, <2>1, <1>16, Zenon
  <2>4. CASE a # r /\ b # r
    <3>1. Unrotated(a) /\ Unrotated(b)
      BY <1>15
    <3>2. token[a] # Null /\ token[b] # Null /\ line[a] = line[b] /\ login = line[a]
      BY <2>1, <2>4, <1>4, <1>5
    <3>3. Forked(login)
      BY <3>1, <3>2 DEF TokenInv, OneEndPerLine
    <3>4. QED
      BY <3>3, <2>1, <1>14, Zenon
  <2>5. QED
    BY <2>2, <2>3, <2>4
<1>18. QED
  BY <1>2, <1>7, <1>8, <1>9, <1>12, <1>13, <1>17 DEF TokenInv

\* An expiry only takes tokens away, and a crash only refuses what was open.
LEMMA ExpiryKeeps ==
  ASSUME TokenInv, UNCHANGED << asked, requestVars, token, line >>,
         expired \subseteq expired',
         expired' \subseteq { r \in Request : token[r] # Null }
  PROVE  TokenInv'
<1> USE DEF requestVars
<1>1. (asked \in Workload /\ RequestTypeOK /\ TokenTypeOK)'
  BY DEF TokenInv, RequestTypeOK, TokenTypeOK, Stage
<1>2. UsedUp'
  BY DEF TokenInv, UsedUp, Answered, Active
<1>3. (IssuedByDone /\ BroughtIssued /\ EndedStays /\ LateRefused /\ RotatedInLine)'
  BY DEF TokenInv, IssuedByDone, BroughtIssued, EndedStays, LateRefused,
         RotatedInLine, Answered, Ended
<1>4. OneEndPerLine'
  BY DEF TokenInv, OneEndPerLine, Unrotated, Forked, Answered, Overlap
<1>5. QED
  BY <1>1, <1>2, <1>3, <1>4 DEF TokenInv

\* A crash rolls its requests back, and leaves the tokens as they are.
LEMMA CrashKeeps ==
  ASSUME TokenInv, RollBack, UNCHANGED << asked, tokenVars >>
  PROVE  TokenInv'
<1> USE DEF RollBack, tokenVars
<1>1. (asked \in Workload /\ RequestTypeOK /\ TokenTypeOK)'
  BY DEF TokenInv, RequestTypeOK, TokenTypeOK, Stage
<1>2. \A r \in Request :
        /\ stage'[r] = "new" <=> stage[r] = "new"
        /\ stage'[r] = "done" <=> stage[r] = "done"
        /\ stage'[r] # "open"
        /\ stage[r] = "refused" => stage'[r] = "refused"
  OBVIOUS
<1>3. \A r \in Request, ops \in { Uses, { "refresh" } } :
        Answered(r, ops)' <=> Answered(r, ops)
  BY <1>2 DEF Answered
<1>4. (IssuedByDone /\ BroughtIssued)'
  BY <1>2 DEF TokenInv, IssuedByDone, BroughtIssued
<1>5. UsedUp'
  BY <1>3 DEF TokenInv, UsedUp, Active
<1>6. EndedStays'
  BY <1>2 DEF TokenInv, EndedStays, Ended
<1>7. LateRefused'
  BY <1>2, <1>3 DEF TokenInv, LateRefused
<1>8. RotatedInLine'
  BY <1>3 DEF TokenInv, RotatedInLine
<1>9. OneEndPerLine'
  BY <1>3 DEF TokenInv, OneEndPerLine, Unrotated, Forked, Overlap
<1>10. QED
  BY <1>1, <1>4, <1>5, <1>6, <1>7, <1>8, <1>9 DEF TokenInv

-----------------------------------------------------------------------------

\* Each step of a handler keeps the invariant.
LEMMA HandlerKeeps ==
  ASSUME TokenInv, NEW r \in Request, TokenStep(r), asked' = asked
  PROVE  TokenInv'
<1>1. CASE BeginLogin(r)
  BY <1>1, BeginKeeps DEF BeginLogin, Uses
<1>2. CASE WriteLogin(r)
  BY <1>2, LoginKeeps
<1>3. CASE BeginRefresh(r)
  <2>1. PICK next : /\ next = IF Active(asked[r].token) THEN "open" ELSE "refused"
                    /\ Begin(r, next)
    BY <1>3 DEF BeginRefresh
  <2>2. QED
    BY <2>1, <1>3, BeginKeeps DEF BeginRefresh
<1>4. CASE WriteRefresh(r)
  BY <1>4, RefreshKeeps
<1>5. CASE BeginLogout(r)
  <2>1. PICK next : /\ next = IF Active(asked[r].token) THEN "open" ELSE "done"
                    /\ Begin(r, next)
    BY <1>5 DEF BeginLogout
  <2>2. QED
    BY <2>1, <1>5, BeginKeeps DEF BeginLogout
<1>6. CASE WriteLogout(r)
  BY <1>6, LogoutKeeps
<1>7. QED
  BY <1>1, <1>2, <1>3, <1>4, <1>5, <1>6 DEF TokenStep

\* The limiter, time and crashes keep it too.
LEMMA NextTokens ==
  ASSUME TokenInv, [Next]_vars
  PROVE  TokenInv'
<1>1. CASE \E r \in Request : Arrive(r)
  BY <1>1, ExpiryKeeps DEF Arrive, tokenVars, TokenInv, TokenTypeOK
<1>2. CASE \E r \in Request : Handle(r)
  BY <1>2, HandlerKeeps DEF Handle
<1>3. CASE Pass
  <2>1. CASE UNCHANGED tokenVars
    BY <2>1, <1>3, ExpiryKeeps DEF Pass, tokenVars, TokenInv, TokenTypeOK
  <2>2. CASE \E t \in Request : Expire(t)
    <3>1. PICK t \in Request : Expire(t)
      BY <2>2
    <3>2. QED
      BY <3>1, <1>3, ExpiryKeeps DEF Pass, Expire, TokenInv, TokenTypeOK
  <2>3. QED
    BY <2>1, <2>2, <1>3 DEF Pass, Time
<1>4. CASE Crash
  BY <1>4, CrashKeeps DEF Crash
<1>5. CASE UNCHANGED vars
  BY <1>5, ExpiryKeeps DEF vars, tokenVars, TokenInv, TokenTypeOK
<1>6. QED
  BY <1>1, <1>2, <1>3, <1>4, <1>5 DEF Next

(***************************************************************************)
(* The bookkeeping of refresh tokens: who issued a token, who used it up,  *)
(* and where the lines of the logins end, in every state.                  *)
(***************************************************************************)
THEOREM TokenInvariant == Spec => []TokenInv
<1>1. Init => TokenInv
  BY InitTokens
<1>2. TokenInv /\ [Next]_vars => TokenInv'
  BY NextTokens
<1>3. QED
  BY <1>1, <1>2, PTL DEF Spec

(***************************************************************************)
(* No token is used again by a refresh that began after it was used        *)
(* (AuthService.refresh and logout), however many requests bring it.       *)
(***************************************************************************)
THEOREM SingleUse == Spec => []UsedTokensStayUsed
<1>1. TokenInv => UsedTokensStayUsed
  BY DEF TokenInv, LateRefused, UsedTokensStayUsed, Answered, Uses
<1>2. QED
  BY <1>1, TokenInvariant, PTL

(***************************************************************************)
(* Rotation leaves each login one active token (AuthService.refresh),      *)
(* unless two refreshes of one token overlapped.                           *)
(***************************************************************************)
THEOREM OneActive == Spec => []OneActivePerLogin
<1>1. TokenInv => OneActivePerLogin
  <2> SUFFICES ASSUME TokenInv, NEW a \in Request, NEW b \in Request,
                      Active(a), Active(b), a # b, line[a] = line[b]
               PROVE  Forked(line[a])
    BY DEF OneActivePerLogin, Forked
  <2>1. token[a] # Null /\ token[b] # Null
    BY TokenAssumption DEF Active
  <2>2. Unrotated(a) /\ Unrotated(b)
    BY DEF TokenInv, UsedUp, Unrotated, Answered, Uses
  <2>3. QED
    BY <2>1, <2>2 DEF TokenInv, OneEndPerLine
<1>2. QED
  BY <1>1, TokenInvariant, PTL

-----------------------------------------------------------------------------
(* The lists of time stamps *)

Windows == [ Age -> Nat ]

\* A stamp is an age and a place among those of that age.
LEMMA InStamps ==
  ASSUME NEW w \in Windows
  PROVE  /\ \A a \in Age : \A k \in 1 .. w[a] : << a, k >> \in Stamps(w)
         /\ \A s \in Stamps(w) :
              \E a \in Age : \E k \in 1 .. w[a] : s = << a, k >>
BY DEF Stamps

\* A list of stamps is finite.
LEMMA StampsFinite ==
  ASSUME NEW w \in Windows
  PROVE  IsFiniteSet(Stamps(w)) /\ Size(w) \in Nat
<1> DEFINE column(a) == { a } \X (1 .. w[a])
           columns == { column(a) : a \in Age }
           F == [ a \in Age |-> column(a) ]
<1>1. \A a \in Age : IsFiniteSet(column(a))
  <2> TAKE a \in Age
  <2>1. w[a] \in Int
    BY DEF Windows
  <2>2. IsFiniteSet(1 .. w[a])
    BY <2>1, FS_Interval
  <2>3. QED
    BY <2>2, FS_Singleton, FS_Product
<1>2. IsFiniteSet(columns)
  <2>1. IsFiniteSet(Age)
    BY LimitAssumption, FS_Interval DEF Age
  <2>2. F \in Surjection(Age, columns)
    BY DEF Surjection
  <2>3. QED
    BY <2>1, <2>2, FS_Surjection
<1>3. IsFiniteSet(UNION columns)
  <2>1. \A C \in columns : IsFiniteSet(C)
    BY <1>1
  <2> HIDE DEF columns
  <2>2. QED
    BY <1>2, <2>1, FS_UNION
<1>4. QED
  BY <1>3, FS_CardinalityType DEF Stamps, Size

\* Fewer stamps of each age make a list no longer.
LEMMA FewerStamps ==
  ASSUME NEW v \in Windows, NEW w \in Windows, \A a \in Age : v[a] <= w[a]
  PROVE  Size(v) <= Size(w)
<1>1. Stamps(v) \subseteq Stamps(w)
  <2> SUFFICES ASSUME NEW a \in Age, NEW k \in 1 .. v[a]
               PROVE  << a, k >> \in Stamps(w)
    BY InStamps
  <2>1. k \in 1 .. w[a]
    BY DEF Windows
  <2>2. QED
    BY <2>1, InStamps
<1>2. QED
  BY <1>1, StampsFinite, FS_Subset DEF Size

\* No age has more stamps than the list.
LEMMA AgeWithinSize ==
  ASSUME NEW w \in Windows, NEW a \in Age
  PROVE  w[a] <= Size(w)
<1>1. w[a] \in Nat
  BY DEF Windows
<1>2. IsFiniteSet(1 .. w[a]) /\ Cardinality(1 .. w[a]) = w[a]
  <2>1. Cardinality(1 .. w[a]) = IF 1 > w[a] THEN 0 ELSE w[a] - 1 + 1
    BY <1>1, FS_Interval
  <2>2. IsFiniteSet(1 .. w[a])
    BY <1>1, FS_Interval
  <2>3. QED
    BY <1>1, <2>1, <2>2
<1>3. [ k \in 1 .. w[a] |-> << a, k >> ] \in Injection(1 .. w[a], Stamps(w))
  BY InStamps DEF Injection, IsInjective
<1>4. QED
  BY <1>2, <1>3, StampsFinite, FS_Injection DEF Size

\* A new stamp makes the list one longer.
LEMMA StampedSize ==
  ASSUME NEW w \in Windows
  PROVE  Stamped(w) \in Windows /\ Size(Stamped(w)) = Size(w) + 1
<1>1. /\ Stamped(w) \in Windows /\ 0 \in Age /\ w[0] \in Nat
      /\ Stamped(w)[0] = w[0] + 1
      /\ \A a \in Age : a # 0 => Stamped(w)[a] = w[a]
  BY LimitAssumption DEF Stamped, Windows, Age
<1>2. Stamps(Stamped(w)) = Stamps(w) \cup { << 0, w[0] + 1 >> }
  <2>1. ASSUME NEW s \in Stamps(Stamped(w))
        PROVE  s \in Stamps(w) \cup { << 0, w[0] + 1 >> }
    <3>1. PICK a \in Age : \E k \in 1 .. Stamped(w)[a] : s = << a, k >>
      BY <1>1, InStamps
    <3>2. PICK k \in 1 .. Stamped(w)[a] : s = << a, k >>
      BY <3>1
    <3>3. k \in 1 .. w[a] \/ (a = 0 /\ k = w[0] + 1)
      BY <3>2, <1>1
    <3>4. QED
      BY <3>2, <3>3, InStamps
  <2>2. ASSUME NEW s \in Stamps(w)
        PROVE  s \in Stamps(Stamped(w))
    <3>1. PICK a \in Age : \E k \in 1 .. w[a] : s = << a, k >>
      BY InStamps
    <3>2. PICK k \in 1 .. w[a] : s = << a, k >>
      BY <3>1
    <3>3. k \in 1 .. Stamped(w)[a]
      BY <3>2, <1>1
    <3>4. QED
      BY <3>2, <3>3, <1>1, InStamps
  <2>3. << 0, w[0] + 1 >> \in Stamps(Stamped(w))
    BY <1>1, InStamps
  <2>4. QED
    BY <2>1, <2>2, <2>3
<1>3. << 0, w[0] + 1 >> \notin Stamps(w)
  <2> SUFFICES ASSUME NEW a \in Age, NEW k \in 1 .. w[a],
                      << 0, w[0] + 1 >> = << a, k >>
               PROVE  FALSE
    BY InStamps
  <2>1. QED
    BY <1>1
<1>4. IsFiniteSet(Stamps(w))
  BY StampsFinite
<1>5. Cardinality(Stamps(w) \cup { << 0, w[0] + 1 >> }) = Cardinality(Stamps(w)) + 1
  BY <1>3, <1>4, FS_AddElement
<1>6. QED
  BY <1>1, <1>2, <1>5 DEF Size

\* Pruning only drops stamps.
LEMMA PrunedSize ==
  ASSUME NEW w \in Windows
  PROVE  /\ Pruned(w) \in Windows /\ Size(Pruned(w)) <= Size(w)
         /\ \A a \in Age : Pruned(w)[a] = IF a = Window THEN 0 ELSE w[a]
<1>1. /\ Pruned(w) \in Windows
      /\ \A a \in Age : Pruned(w)[a] = IF a = Window THEN 0 ELSE w[a]
  BY LimitAssumption DEF Pruned, Windows, Age
<1>2. \A a \in Age : Pruned(w)[a] <= w[a]
  BY <1>1 DEF Windows
<1>3. QED
  BY <1>1, <1>2, FewerStamps

\* Time drops no stamp and makes none: each keeps a place of its own.
LEMMA OlderSize ==
  ASSUME NEW w \in Windows
  PROVE  Older(w) \in Windows /\ Size(Older(w)) <= Size(w)
<1> DEFINE from == [ s \in Stamps(Older(w)) |->
                       IF s[1] # Window THEN << s[1] - 1, s[2] >>
                       ELSE IF s[2] <= w[Window] THEN << Window, s[2] >>
                       ELSE << Window - 1, s[2] - w[Window] >> ]
<1>1. /\ Older(w) \in Windows
      /\ Older(w)[0] = 0
      /\ Older(w)[Window] = w[Window] + w[Window - 1]
      /\ \A a \in Age : a \notin { 0, Window } => Older(w)[a] = w[a - 1]
      /\ Window \in Age /\ Window - 1 \in Age
      /\ w[Window] \in Nat /\ w[Window - 1] \in Nat
  <2>1. \A a \in Age : a # 0 => a - 1 \in Age
    BY LimitAssumption DEF Age
  <2>2. Window \in Age /\ Window # 0 /\ 0 \in Age
    BY LimitAssumption DEF Age
  <2>3. QED
    BY <2>1, <2>2 DEF Older, Windows
<1>2. \A s \in Stamps(Older(w)) :
        /\ s = << s[1], s[2] >> /\ s[1] \in Age /\ s[1] # 0
        /\ s[2] \in 1 .. Older(w)[s[1]]
  <2> TAKE s \in Stamps(Older(w))
  <2>1. PICK a \in Age : \E k \in 1 .. Older(w)[a] : s = << a, k >>
    BY <1>1, InStamps
  <2>2. PICK k \in 1 .. Older(w)[a] : s = << a, k >>
    BY <2>1
  <2>3. QED
    BY <2>1, <2>2, <1>1
<1>3. \A s \in Stamps(Older(w)) : from[s] \in Stamps(w)
  <2> TAKE s \in Stamps(Older(w))
  <2>1. CASE s[1] # Window
    <3>1. s[1] - 1 \in Age /\ s[2] \in 1 .. w[s[1] - 1]
      BY <2>1, <1>1, <1>2, LimitAssumption DEF Age
    <3>2. QED
      BY <2>1, <3>1, InStamps
  <2>2. CASE s[1] = Window /\ s[2] <= w[Window]
    <3>1. s[2] \in 1 .. w[Window]
      BY <2>2, <1>1, <1>2
    <3>2. QED
      BY <2>2, <3>1, <1>1, InStamps
  <2>3. CASE s[1] = Window /\ ~(s[2] <= w[Window])
    <3>1. s[2] - w[Window] \in 1 .. w[Window - 1]
      BY <2>3, <1>1, <1>2
    <3>2. QED
      BY <2>3, <3>1, <1>1, InStamps
  <2>4. QED
    BY <2>1, <2>2, <2>3
<1>4. ASSUME NEW s \in Stamps(Older(w)), NEW t \in Stamps(Older(w)),
             from[s] = from[t]
      PROVE  s = t
  <2>1. /\ s[1] \in Int /\ t[1] \in Int /\ s[2] \in Int /\ t[2] \in Int
        /\ s[1] <= Window /\ t[1] <= Window
        /\ s[2] >= 1 /\ t[2] >= 1
        /\ s[1] = Window => s[2] <= w[Window] + w[Window - 1]
        /\ t[1] = Window => t[2] <= w[Window] + w[Window - 1]
    BY <1>1, <1>2, LimitAssumption DEF Age
  <2>2. /\ s[1] # Window /\ s[1] # Window - 1 + 1 => s[2] <= Older(w)[s[1]]
    BY <1>1, <1>2
  <2>3. QED
    BY <1>4, <1>1, <1>2, <2>1, LimitAssumption
<1>5. from \in Injection(Stamps(Older(w)), Stamps(w))
  <2> HIDE DEF from
  <2>1. from \in [ Stamps(Older(w)) -> Stamps(w) ]
    BY <1>3 DEF from
  <2>2. QED
    BY <2>1, <1>4 DEF Injection, IsInjective
<1>6. QED
  BY <1>1, <1>5, StampsFinite, FS_Injection DEF Size

-----------------------------------------------------------------------------
(* What is kept and what was seen *)

\* Every request let through within a window has a stamp of its age.
Observed(seen, kept) ==
  \A a \in Age : seen[a] <= IF a = Window THEN 0 ELSE kept[a]

\* The lists are within their limits, and cover what was let through.
LimiterInv ==
  /\ { hits, authHits, passed, authPassed } \subseteq [ Caller -> Windows ]
  /\ \A c \in Caller :
       /\ Size(hits[c]) <= Limit /\ Size(authHits[c]) <= AuthLimit
       /\ Observed(passed[c], hits[c]) /\ Observed(authPassed[c], authHits[c])

\* An empty list.
LEMMA NoHitsSize == NoHits \in Windows /\ Size(NoHits) = 0 /\ Observed(NoHits, NoHits)
<1>1. NoHits \in Windows /\ \A a \in Age : NoHits[a] = 0
  BY DEF NoHits, Windows
<1>2. Stamps(NoHits) = {}
  <2> SUFFICES ASSUME NEW a \in Age, NEW k \in 1 .. NoHits[a] PROVE FALSE
    BY <1>1, InStamps
  <2>1. QED
    BY <1>1
<1>3. QED
  BY <1>1, <1>2, FS_EmptySet DEF Size, Observed

\* A request that a budget lets through finds room for its stamp, and is seen.
LEMMA Counted ==
  ASSUME NEW w \in Windows, NEW limit \in Nat, Size(w) <= limit,
         NEW seen \in Windows, Observed(seen, w)
  PROVE  /\ Pruned(w) \in Windows /\ Size(Pruned(w)) <= limit
         /\ Observed(seen, Pruned(w))
         /\ ~Full(Pruned(w), limit) =>
              /\ Stamped(Pruned(w)) \in Windows
              /\ Size(Stamped(Pruned(w))) <= limit
              /\ Stamped(seen) \in Windows
              /\ Observed(seen, Stamped(Pruned(w)))
              /\ Observed(Stamped(seen), Stamped(Pruned(w)))
<1>1. /\ Pruned(w) \in Windows /\ Size(Pruned(w)) <= Size(w)
      /\ \A a \in Age : Pruned(w)[a] = IF a = Window THEN 0 ELSE w[a]
  BY PrunedSize
<1>2. Size(w) \in Nat /\ Size(Pruned(w)) \in Nat
  BY <1>1, StampsFinite
<1>3. Observed(seen, Pruned(w))
  BY <1>1 DEF Observed
<1>4. ASSUME ~Full(Pruned(w), limit)
      PROVE  /\ Stamped(Pruned(w)) \in Windows /\ Size(Stamped(Pruned(w))) <= limit
  BY <1>1, <1>2, <1>4, StampedSize DEF Full
<1>5. Stamped(seen) \in Windows
  BY StampedSize
<1>6. \A v \in Windows, a \in Age :
        Stamped(v)[a] = IF a = 0 THEN v[0] + 1 ELSE v[a]
  BY LimitAssumption DEF Stamped, Windows, Age
<1>7. /\ Observed(seen, Stamped(Pruned(w)))
      /\ Observed(Stamped(seen), Stamped(Pruned(w)))
  <2>1. \A v \in Windows, a \in Age : v[a] \in Nat
    BY DEF Windows
  <2>2. Window # 0
    BY LimitAssumption
  <2>3. QED
    BY <1>1, <1>3, <1>6, <2>1, <2>2 DEF Observed
<1>8. QED
  BY <1>1, <1>2, <1>3, <1>4, <1>5, <1>7

\* What was seen ages with the stamps.
LEMMA Aged ==
  ASSUME NEW w \in Windows, NEW seen \in Windows, Observed(seen, w)
  PROVE  OlderSeen(seen) \in Windows /\ Observed(OlderSeen(seen), Older(w))
<1>1. /\ \A v \in Windows : \A a \in Age :
           Older(v)[a] = IF a = 0 THEN 0
                         ELSE IF a = Window THEN v[Window] + v[Window - 1]
                         ELSE v[a - 1]
  BY LimitAssumption DEF Older, Age
<1>2. Older(seen) \in Windows
  BY OlderSize
<1>3. /\ OlderSeen(seen) \in Windows
      /\ \A a \in Age :
           OlderSeen(seen)[a] = IF a = Window THEN 0 ELSE Older(seen)[a]
  BY <1>2, LimitAssumption DEF OlderSeen, Windows, Age
<1>4. \A a \in Age : a # 0 => a - 1 \in Age /\ a - 1 # Window
  BY LimitAssumption DEF Age
<1>5. QED
  BY <1>1, <1>3, <1>4, LimitAssumption DEF Observed

\* The process starts with empty lists, and again after a stop.
LEMMA InitLimiter == LimiterInit => LimiterInv
BY NoHitsSize, LimitAssumption DEF LimiterInit, LimiterInv

\* A new process starts with empty windows.
LEMMA ForgetKeeps == Forget => LimiterInv'
BY NoHitsSize, LimitAssumption DEF Forget, LimiterInv

\* Time makes every list older.
LEMMA TickKeeps == LimiterInv /\ Tick => LimiterInv'
<1> SUFFICES ASSUME LimiterInv, Tick
             PROVE  LimiterInv'
  OBVIOUS
<1>1. ASSUME NEW c \in Caller
      PROVE  /\ hits[c] \in Windows /\ authHits[c] \in Windows
             /\ passed[c] \in Windows /\ authPassed[c] \in Windows
             /\ hits'[c] = Older(hits[c]) /\ authHits'[c] = Older(authHits[c])
             /\ passed'[c] = OlderSeen(passed[c])
             /\ authPassed'[c] = OlderSeen(authPassed[c])
  BY DEF LimiterInv, Tick
<1>2. ASSUME NEW c \in Caller
      PROVE  /\ hits'[c] \in Windows /\ authHits'[c] \in Windows
             /\ passed'[c] \in Windows /\ authPassed'[c] \in Windows
  BY <1>1, OlderSize, Aged DEF LimiterInv
<1>3. { hits', authHits', passed', authPassed' } \subseteq [ Caller -> Windows ]
  <2>1. { hits', authHits', passed', authPassed' } \subseteq
          { [ c \in Caller |-> hits'[c] ], [ c \in Caller |-> authHits'[c] ],
            [ c \in Caller |-> passed'[c] ], [ c \in Caller |-> authPassed'[c] ] }
    BY DEF Tick
  <2>2. QED
    BY <1>2, <2>1
<1>4. ASSUME NEW c \in Caller
      PROVE  /\ Size(hits'[c]) <= Limit /\ Size(authHits'[c]) <= AuthLimit
             /\ Observed(passed'[c], hits'[c])
             /\ Observed(authPassed'[c], authHits'[c])
  <2>1. Size(hits[c]) <= Limit /\ Size(authHits[c]) <= AuthLimit
    BY DEF LimiterInv
  <2>2. /\ Size(Older(hits[c])) <= Size(hits[c])
        /\ Size(Older(authHits[c])) <= Size(authHits[c])
        /\ Older(hits[c]) \in Windows /\ Older(authHits[c]) \in Windows
    BY <1>1, OlderSize
  <2>3. /\ Size(Older(hits[c])) \in Nat /\ Size(Older(authHits[c])) \in Nat
        /\ Size(hits[c]) \in Nat /\ Size(authHits[c]) \in Nat
    BY <1>1, <2>2, StampsFinite
  <2>4. /\ Observed(OlderSeen(passed[c]), Older(hits[c]))
        /\ Observed(OlderSeen(authPassed[c]), Older(authHits[c]))
    BY <1>1, Aged DEF LimiterInv
  <2>5. QED
    BY <1>1, <2>1, <2>2, <2>3, <2>4, LimitAssumption
<1>5. QED
  BY <1>3, <1>4 DEF LimiterInv

\* A verdict of the limiter, for each way through its two budgets.
LEMMA DispatchKeeps ==
  ASSUME LimiterInv, NEW c \in Caller, NEW op, Dispatch(c, op)
  PROVE  LimiterInv'
<1>1. /\ hits[c] \in Windows /\ authHits[c] \in Windows
      /\ passed[c] \in Windows /\ authPassed[c] \in Windows
      /\ Size(hits[c]) <= Limit /\ Size(authHits[c]) <= AuthLimit
      /\ Observed(passed[c], hits[c]) /\ Observed(authPassed[c], authHits[c])
      /\ Limit \in Nat /\ AuthLimit \in Nat
  BY LimitAssumption DEF LimiterInv
<1>2. /\ Pruned(hits[c]) \in Windows /\ Size(Pruned(hits[c])) <= Limit
      /\ Observed(passed[c], Pruned(hits[c]))
      /\ ~Full(Pruned(hits[c]), Limit) =>
              /\ Stamped(Pruned(hits[c])) \in Windows
              /\ Size(Stamped(Pruned(hits[c]))) <= Limit
              /\ Stamped(passed[c]) \in Windows
              /\ Observed(passed[c], Stamped(Pruned(hits[c])))
              /\ Observed(Stamped(passed[c]), Stamped(Pruned(hits[c])))
  BY <1>1, Counted
<1>3. /\ Pruned(authHits[c]) \in Windows /\ Size(Pruned(authHits[c])) <= AuthLimit
      /\ Observed(authPassed[c], Pruned(authHits[c]))
      /\ ~Full(Pruned(authHits[c]), AuthLimit) =>
              /\ Stamped(Pruned(authHits[c])) \in Windows
              /\ Size(Stamped(Pruned(authHits[c]))) <= AuthLimit
              /\ Stamped(authPassed[c]) \in Windows
              /\ Observed(authPassed[c], Stamped(Pruned(authHits[c])))
              /\ Observed(Stamped(authPassed[c]), Stamped(Pruned(authHits[c])))
  BY <1>1, Counted
<1> DEFINE seen == IF Passes(c, op) THEN Stamped(passed[c]) ELSE passed[c]
           authSeen == IF Passes(c, op) /\ op \in AuthOps
                       THEN Stamped(authPassed[c]) ELSE authPassed[c]
<1>4. /\ HitsAfter(c) \in Windows /\ Size(HitsAfter(c)) <= Limit
      /\ seen \in Windows /\ Observed(seen, HitsAfter(c))
  BY <1>1, <1>2 DEF HitsAfter, Passes, GlobalPass
<1>5. /\ AuthHitsAfter(c, op) \in Windows /\ Size(AuthHitsAfter(c, op)) <= AuthLimit
      /\ authSeen \in Windows /\ Observed(authSeen, AuthHitsAfter(c, op))
  BY <1>1, <1>3 DEF AuthHitsAfter, Passes, AuthPass
<1>6. /\ hits' = [ hits EXCEPT ![c] = HitsAfter(c) ]
      /\ authHits' = [ authHits EXCEPT ![c] = AuthHitsAfter(c, op) ]
      /\ passed' = [ passed EXCEPT ![c] = seen ]
      /\ authPassed' = [ authPassed EXCEPT ![c] = authSeen ]
  <2>1. passed = [ passed EXCEPT ![c] = passed[c] ]
    BY DEF LimiterInv
  <2>2. authPassed = [ authPassed EXCEPT ![c] = authPassed[c] ]
    BY DEF LimiterInv
  <2>3. QED
    BY <2>1, <2>2 DEF Dispatch
<1> HIDE DEF seen, authSeen
<1>7. QED
  BY <1>4, <1>5, <1>6 DEF LimiterInv

\* The lengths bound the entries.
LEMMA LimiterTyped == LimiterInv => LimiterTypeOK
<1> SUFFICES ASSUME LimiterInv
             PROVE  LimiterTypeOK
  OBVIOUS
<1>1. ASSUME NEW w \in Windows, NEW limit \in Nat, Size(w) <= limit
      PROVE  w \in [ Age -> 0 .. limit ]
  <2>1. \A a \in Age : w[a] \in Nat /\ w[a] <= Size(w)
    BY AgeWithinSize DEF Windows
  <2>2. Size(w) \in Nat
    BY StampsFinite
  <2>3. \A a \in Age : w[a] \in 0 .. limit
    BY <1>1, <2>1, <2>2
  <2>4. QED
    BY <2>3 DEF Windows
<1>2. hits \in [ Caller -> [ Age -> 0 .. Limit ] ]
  <2>1. \A c \in Caller : hits[c] \in [ Age -> 0 .. Limit ]
    BY <1>1, LimitAssumption DEF LimiterInv
  <2>2. QED
    BY <2>1 DEF LimiterInv
<1>3. authHits \in [ Caller -> [ Age -> 0 .. AuthLimit ] ]
  <2>1. \A c \in Caller : authHits[c] \in [ Age -> 0 .. AuthLimit ]
    BY <1>1, LimitAssumption DEF LimiterInv
  <2>2. QED
    BY <2>1 DEF LimiterInv
<1>4. QED
  BY <1>2, <1>3 DEF LimiterTypeOK, LimiterInv, Windows

\* What was let through is no more than what has a stamp.
LEMMA LimiterBounds == LimiterInv => AdmittedWithinLimit
<1> SUFFICES ASSUME LimiterInv, NEW c \in Caller
             PROVE  Size(passed[c]) <= Limit /\ Size(authPassed[c]) <= AuthLimit
  BY DEF AdmittedWithinLimit
<1>1. /\ hits[c] \in Windows /\ authHits[c] \in Windows
      /\ passed[c] \in Windows /\ authPassed[c] \in Windows
      /\ Size(hits[c]) <= Limit /\ Size(authHits[c]) <= AuthLimit
      /\ Observed(passed[c], hits[c]) /\ Observed(authPassed[c], authHits[c])
      /\ Limit \in Nat /\ AuthLimit \in Nat
  BY LimitAssumption DEF LimiterInv
<1>2. \A v \in Windows, w \in Windows :
        Observed(v, w) => \A a \in Age : v[a] <= w[a]
  BY DEF Observed, Windows
<1>3. Size(passed[c]) <= Size(hits[c]) /\ Size(authPassed[c]) <= Size(authHits[c])
  BY <1>1, <1>2, FewerStamps
<1>4. QED
  BY <1>1, <1>3, StampsFinite

\* The handlers leave the limiter alone.
LEMMA LimiterNext == LimiterInv /\ asked \in Workload /\ [Next]_vars => LimiterInv'
<1> SUFFICES ASSUME LimiterInv, asked \in Workload, [Next]_vars
             PROVE  LimiterInv'
  OBVIOUS
<1>1. CASE UNCHANGED limiterVars
  BY <1>1 DEF limiterVars, LimiterInv
<1>2. ASSUME NEW r \in Request, Arrive(r)
      PROVE  LimiterInv'
  <2>1. asked[r].caller \in Caller
    BY AccountAssumption
  <2>2. QED
    BY <1>2, <2>1, DispatchKeeps DEF Arrive
<1>3. CASE Tick
  BY <1>3, TickKeeps
<1>4. CASE Crash
  BY <1>4, ForgetKeeps DEF Crash
<1>5. QED
  BY <1>1, <1>2, <1>3, <1>4 DEF Next, Handle, Pass, Time, vars

-----------------------------------------------------------------------------
(* Both together *)

AccountInv ==
  /\ TokenInv /\ LimiterInv
  /\ admitted \subseteq Request /\ crashes \in 0 .. MaxCrashes

\* Each step keeps the invariant of the accounts.
LEMMA NextAccounts == AccountInv /\ [Next]_vars => AccountInv'
<1> SUFFICES ASSUME AccountInv, [Next]_vars
             PROVE  AccountInv'
  OBVIOUS
<1>1. TokenInv' /\ LimiterInv'
  BY NextTokens, LimiterNext DEF AccountInv, TokenInv
<1>2. admitted' \subseteq Request
  BY DEF AccountInv, Next, Arrive, Handle, Pass, Crash, vars
<1>3. crashes' \in 0 .. MaxCrashes
  BY AccountAssumption DEF AccountInv, Next, Arrive, Handle, Pass, Crash, vars
<1>4. QED
  BY <1>1, <1>2, <1>3 DEF AccountInv

(***************************************************************************)
(* The tokens are kept as TokenInv says and the lists of time stamps as    *)
(* LimiterInv says, for any workload, limits and length of the window.     *)
(***************************************************************************)
THEOREM AccountInvariant == Spec => []AccountInv
<1>1. Init => AccountInv
  BY InitTokens, InitLimiter, AccountAssumption DEF Init, AccountInv
<1>2. AccountInv /\ [Next]_vars => AccountInv'
  BY NextAccounts
<1>3. QED
  BY <1>1, <1>2, PTL DEF Spec

(***************************************************************************)
(* Every variable of the accounts keeps its type; in particular no list of *)
(* time stamps outgrows its limit, so the limiter's memory is bounded for  *)
(* each caller.                                                            *)
(***************************************************************************)
THEOREM AccountTypes == Spec => []TypeOK
<1>1. AccountInv => TypeOK
  BY LimiterTyped DEF AccountInv, TokenInv, TypeOK
<1>2. QED
  BY <1>1, AccountInvariant, PTL

(***************************************************************************)
(* The limiter (RateLimitMiddleware.dispatch) lets no caller have more     *)
(* requests in any window than its two limits, wherever the window begins. *)
(***************************************************************************)
THEOREM AdmissionBound == Spec => []AdmittedWithinLimit
<1>1. AccountInv => AdmittedWithinLimit
  BY LimiterBounds DEF AccountInv
<1>2. QED
  BY <1>1, AccountInvariant, PTL

=============================================================================
