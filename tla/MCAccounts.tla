----------------------------- MODULE MCAccounts ----------------------------
(* Logins, refreshes and logouts behind the limiter, on a small instance.  *)
EXTENDS AccountProperties, TLC

CONSTANTS r1, r2, r3, r4

Ask(op, t, c) == [ op |-> op, token |-> t, caller |-> c ]

Line(y, z) ==
  (r1 :> Ask("login", Null, "a")) @@ (r2 :> Ask("refresh", r1, "b"))
  @@ (r3 :> Ask(y[1], y[2], "b")) @@ (r4 :> Ask(z[1], z[2], "a"))

\* One login, a refresh, and two requests with its token or a rotated one.
Lines ==
  { Line(y, z) : y \in { << "refresh", r1 >>, << "refresh", r2 >> },
                 z \in { << "refresh", r1 >>, << "logout", r1 >>, << "refresh", r3 >> } }
  \cup { Line(<< "logout", r1 >>, << "refresh", r2 >>) }

\* One caller sends four requests, with more logins than it may make.
Storms ==
  { (r1 :> Ask("login", Null, "a")) @@ (r2 :> Ask("login", Null, "a"))
    @@ (r3 :> Ask("login", Null, "a")) @@ (r4 :> Ask(op, r1, "a")) :
      op \in { "logout", "refresh" } }

MCWorkload == Lines \cup Storms

=============================================================================
