----------------------------- MODULE MCMerchant ----------------------------
(* Merchant records on a small instance.                                   *)
EXTENDS MerchantProperties, TLC, FiniteSets

Symmetry == Permutations(Request)

Operation(op, m) == [ op |-> op, merchant |-> m ]
Create(m, company) == [ op |-> "create", merchant |-> m, company |-> company ]
Wallet(m, address, primary) ==
  [ op |-> "wallet", merchant |-> m, address |-> address, primary |-> primary ]

\* The other merchant signs up, with a company of the client's name or
\* registration; both add wallets, the client's own among them.
WalletOperations ==
  { Operation("signup", "other"), Create("other", { "name" }),
    Create("other", { "registration" }), Wallet("other", "a1", TRUE),
    Wallet("client", "client wallet", FALSE) }
  \cup { Wallet("client", a, TRUE) : a \in { "a1", "a2" } }

Register(m, model, fields) ==
  [ op |-> "register", merchant |-> m, model |-> model, fields |-> fields ]
Heartbeat(m, fields) ==
  [ op |-> "heartbeat", merchant |-> m, fields |-> fields ]

DeviceOperations ==
  { Register("client", "V2", {}), Register("client", "V3", { "printer" }),
    Heartbeat("client", { "reader" }),
    Register("other", "V3", {}), Heartbeat("other", { "reader" }) }

MCWorkload == [ Request -> WalletOperations ] \cup [ Request -> DeviceOperations ]

=============================================================================
