----------------------------- MODULE MCTerminal ----------------------------
(* Terminal sessions on small instances.                                   *)
EXTENDS TerminalProperties, TLC

Symmetry == Permutations(Session) \cup Permutations(Reference)

SymmetryOfReferences == Permutations(Reference)

\* A pre-authorisation, a sale of an ambiguous code, no protocol, and an
\* unknown one.
MCRequested ==
  { [ code |-> c, type |-> "AUTH" ] : c \in { NoCode, "101.6", "999" } }
  \cup { [ code |-> "101.3", type |-> "VOID" ] }

\* Scenarios asked for by name, by the token and by the cents.
MCCard ==
  { [ scenario |-> NoScenario, token |-> {}, cents |-> c ] : c \in { 0, 13 } }
  \cup { [ scenario |-> NoScenario, token |-> { "error" }, cents |-> 0 ],
         [ scenario |-> "cancelled", token |-> {}, cents |-> 13 ] }

\* Every id and code of the catalogue, for three types of transaction.
AllRequested ==
  { [ code |-> c, type |-> t ] :
      c \in { p.id : p \in Catalog } \cup { p.code : p \in Catalog }
              \cup { NoCode, "999" },
      t \in { "SALE", "COMPLETION", "AUTH" } }

\* Every scenario or none, with every token, and the cents that decline.
AllCards ==
  [ scenario : Scenario \cup { NoScenario }, token : Token, cents : { 0, 13 } ]

\* The default, an alias for the stub, both names of production.
MCDeployment ==
  { [ environment |-> "sandbox", default |-> "mock_sandbox", provider |-> "" ],
    [ environment |-> "sandbox", default |-> "mock_sandbox",
      provider |-> "certified" ],
    [ environment |-> "prod", default |-> "mock_sandbox", provider |-> "mock" ],
    [ environment |-> "production", default |-> "acquirer", provider |-> "" ],
    [ environment |-> "sandbox", default |-> "visa", provider |-> "" ] }

=============================================================================
