-------------------------- MODULE MerchantWallets --------------------------
(***************************************************************************)
(* Merchants, their accounts and their payout wallets, and the seed that   *)
(* runs at every start of the container: AuthService.register,             *)
(* MerchantService.create_merchant and add_wallet, scripts/seed.py.        *)
(*                                                                         *)
(* A handler reads, decides, and flushes; between its first SELECT and its *)
(* flush others commit.  From the flush to the commit it only makes    *)
(* its response, so flush and commit are one step: a request that waits in *)
(* its flush for a unique index goes on when the other row is committed.   *)
(*                                                                         *)
(* A wallet row is named by the request, or the number of the start, that  *)
(* inserted it.  Networks are folded into addresses.                       *)
(***************************************************************************)
EXTENDS Requests, Naturals

CONSTANTS
  Merchant,
  Client,        \* the merchant the seed keeps (MERCHANT_OWNER_EMAIL)
  Address,
  ClientAddress, \* BONYAN_WALLET_TRC20
  Placeholder,   \* PENDING_CLIENT_TRC20_TRUST_WALLET
  MaxStarts      \* bound: starts of the process

ASSUME WalletAssumption ==
  /\ Client \in Merchant
  /\ { ClientAddress, Placeholder } \subseteq Address
  /\ MaxStarts \in Nat
  /\ Null \notin Merchant
  /\ Request \cap Nat = {}

VARIABLES
  asked,      \* the operation a request asks for
  read,       \* the primary wallets a request has loaded
  account,    \* users and merchant_profiles
  identity,   \* what of the client's company a profile carries
  wallet,     \* merchant_wallets
  reference,  \* rows of reference data
  server,     \* "down", "serving", or "failed" to start
  starts

walletVars == << read, account, identity, wallet, reference >>

\* 0 names the wallet inserted by an earlier version.
RowName == Request \cup 0 .. MaxStarts

Row == [ merchant : Merchant, address : Address, primary : BOOLEAN ]

\* company_name = BONYAN_COMPANY, commercial_registration = BONYAN_CR.  Other
\* names and registrations are left out.
Identity == { "name", "registration" }

\* Rows the seed looks up by key and adds when they are missing.
ReferenceData ==
  { "roles", "gateways", "methods", "countries", "currencies", "languages",
    "exchange", "treasury", "admin" }
SiteContent == { "services", "projects", "faq", "testimonials" }

WalletTypeOK ==
  /\ read \in [ Request -> SUBSET RowName ]
  /\ account \in [ Merchant -> { "none", "user", "profile" } ]
  /\ identity \in [ Merchant -> SUBSET Identity ]
  /\ wallet \in [ RowName -> Row \cup { Null } ]
  /\ reference \subseteq ReferenceData \cup SiteContent
  /\ server \in { "down", "serving", "failed" }
  /\ starts \in 0 .. MaxStarts

Rows(table, m) ==
  { n \in DOMAIN table : table[n] # Null /\ table[n].merchant = m }

\* get_primary answers with any of these.
Primaries(table, m) == { n \in Rows(table, m) : table[n].primary }

\* uq_merchant_wallet_address_network.
AddressTaken(table, m, address) ==
  \E n \in Rows(table, m) : table[n].address = address

WalletInit ==
  /\ read = [ r \in Request |-> {} ]
  /\ server = "down" /\ starts = 0
  /\ \/ \* an empty schema
        /\ account = [ m \in Merchant |-> "none" ]
        /\ identity = [ m \in Merchant |-> {} ]
        /\ wallet = [ n \in RowName |-> Null ]
        /\ reference = {}
     \/ \* a database an earlier version has seeded and served
        /\ \E others \in { "none", "profile" }, company \in { {}, { "name" } } :
             /\ others = "none" => company = {}
             /\ account = [ m \in Merchant |->
                              IF m = Client THEN "profile" ELSE others ]
             /\ identity = [ m \in Merchant |->
                               IF m = Client THEN Identity ELSE company ]
        /\ \E address \in { ClientAddress, Placeholder } :
             wallet = [ n \in RowName |->
                          IF n = 0 THEN [ merchant |-> Client, primary |-> TRUE,
                                          address |-> address ]
                          ELSE Null ]
        /\ reference = ReferenceData \ { "gateways" }

-----------------------------------------------------------------------------
(* Accounts: get_by_email, get_by_owner, and the unique indexes behind them. *)

\* A phone is taken to be as much one user's own as the e-mail is.
Held(op) == IF op = "signup" THEN "none" ELSE "user"
Gained(op) == IF op = "signup" THEN "user" ELSE "profile"

\* A request for a profile comes with an access token of the user.
BeginAccount(r) ==
  LET op == asked[r].op
      m  == asked[r].merchant
  IN  /\ op \in { "signup", "create" }
      /\ op = "create" => account[m] # "none"
      /\ Begin(r, IF \/ account[m] # Held(op)
                     \/ op = "signup" /\ "roles" \notin reference
                  THEN "refused" ELSE "open")
      /\ UNCHANGED walletVars

\* The unique index on commercial_registration; company names may repeat.
RegistrationTaken(company) ==
  "registration" \in company /\ \E m \in Merchant : "registration" \in identity[m]

WriteAccount(r) ==
  LET op == asked[r].op
      m  == asked[r].merchant
      inserted == /\ account[m] = Held(op)
                  /\ op = "create" => ~ RegistrationTaken(asked[r].company)
  IN  /\ op \in { "signup", "create" }
      /\ Advance(r, "open", IF inserted THEN "done" ELSE "refused")
      /\ account' = IF inserted THEN [ account EXCEPT ![m] = Gained(op) ]
                    ELSE account
      /\ identity' = IF inserted /\ op = "create"
                     THEN [ identity EXCEPT ![m] = asked[r].company ]
                     ELSE identity
      /\ UNCHANGED << read, wallet, reference >>

-----------------------------------------------------------------------------
(* add_wallet                                                                *)

\* Only a primary wallet replaces others, the primary ones it can see.
Replaced(r) ==
  IF asked[r].primary THEN Primaries(wallet, asked[r].merchant) ELSE {}

\* The lists of wallets are loaded; the profile may be missing.
BeginWallet(r) ==
  LET m == asked[r].merchant
  IN  /\ asked[r].op = "wallet"
      /\ account[m] # "none"
      /\ Begin(r, IF account[m] = "profile" THEN "open" ELSE "refused")
      /\ read' = [ read EXCEPT ![r] =
                     IF account[m] = "profile" THEN Replaced(r) ELSE {} ]
      /\ UNCHANGED << account, identity, wallet, reference >>

\* A mutant: the others stay primary.
WithWalletBesideOthers(r) ==
  [ wallet EXCEPT ![r] = [ merchant |-> asked[r].merchant,
                           address  |-> asked[r].address,
                           primary  |-> asked[r].primary ] ]

\* UPDATE of each wallet that was loaded as primary, then the INSERT.
WithWallet(r) ==
  [ n \in RowName |->
      IF n = r THEN [ merchant |-> asked[r].merchant,
                      address  |-> asked[r].address,
                      primary  |-> asked[r].primary ]
      ELSE IF n \in read[r] THEN [ wallet[n] EXCEPT !.primary = FALSE ]
      ELSE wallet[n] ]

WriteWallet(r) ==
  LET taken == AddressTaken(wallet, asked[r].merchant, asked[r].address)
  IN  /\ asked[r].op = "wallet"
      /\ Advance(r, "open", IF taken THEN "refused" ELSE "done")
      /\ wallet' = IF taken THEN wallet ELSE WithWallet(r)
      /\ UNCHANGED << read, account, identity, reference >>

WalletStep(r) ==
  BeginAccount(r) \/ WriteAccount(r) \/ BeginWallet(r) \/ WriteWallet(r)

-----------------------------------------------------------------------------
(* The seed: one transaction, before anybody is served.                      *)

\* The client's user and profile are added when there is no such user, and
\* flushed; the wallet added with them is not (autoflush is off), so later
\* queries of the seed do not see it.
FirstAdded == IF account[Client] = "none" THEN { Client } ELSE {}

Flushed == [ m \in Merchant |->
               IF m \in FirstAdded THEN Identity ELSE identity[m] ]

\* The profile _sync_bonyan_merchant takes for the client's: any of the
\* client's company name, else the client's own, else none.
Synced ==
  LET named == { m \in Merchant : "name" \in Flushed[m] }
  IN  IF named # {} THEN named
      ELSE { m \in { Client } : account[m] = "profile" }

\* A mutant: only placeholders are corrected.
RewrittenPlaceholder(m) ==
  { [ wallet EXCEPT ![n].address = IF @ = Placeholder THEN ClientAddress ELSE @ ] :
      n \in Primaries(wallet, m) }

\* Among the wallets it can see, any primary one.
Rewritten(m) ==
  { [ wallet EXCEPT ![n].address = ClientAddress ] : n \in Primaries(wallet, m) }

\* A mutant: the wallet is added, whatever is there.
SyncAddedAlways(m) == { m }

SyncAdded(m) == IF Primaries(wallet, m) = {} THEN { m } ELSE {}

\* The unique indexes over what the seed rewrote and added.
SeedCommits(company, table, synced) ==
  /\ \A m, k \in Merchant :
       "registration" \in company[m] \cap company[k] => m = k
  /\ FirstAdded \cap synced = {}
  /\ \A m \in FirstAdded \cup synced : ~ AddressTaken(table, m, ClientAddress)
  /\ \A m \in Merchant : \A n, k \in Rows(table, m) :
       table[n].address = table[k].address => n = k

\* A seed that commits adds a wallet for one merchant at most: two merchants
\* would both have the registration.
Seeded(table, added, name) ==
  IF added = {} THEN table
  ELSE [ table EXCEPT ![name] = [ merchant |-> CHOOSE m \in added : TRUE,
                                  address |-> ClientAddress, primary |-> TRUE ] ]

SeedWrites(company, table, synced) ==
  IF SeedCommits(company, table, synced)
  THEN /\ wallet' = Seeded(table, FirstAdded \cup synced, starts + 1)
       /\ account' = [ account EXCEPT ![Client] =
                         IF @ = "none" THEN "profile" ELSE @ ]
       /\ identity' = company
       /\ reference' = reference \cup ReferenceData \cup SiteContent
       /\ server' = "serving"
  ELSE /\ server' = "failed"
       /\ UNCHANGED << wallet, account, identity, reference >>

Seed ==
  \/ /\ Synced = {}
     /\ SeedWrites(Flushed, wallet, {})
  \/ \E m \in Synced :
       \E table \in IF Primaries(wallet, m) = {} THEN { wallet } ELSE Rewritten(m) :
         SeedWrites([ Flushed EXCEPT ![m] = Identity ], table, SyncAdded(m))

\* start.sh: with RUN_SEED_ON_START a seed that raises ends the container.
Start ==
  /\ server # "serving"
  /\ starts < MaxStarts
  /\ starts' = starts + 1
  /\ \/ Seed
     \/ server' = "serving" /\ UNCHANGED << wallet, account, identity, reference >>
  /\ UNCHANGED << requestVars, asked, read >>

\* A stop, a crash, or a deployment.
Stop ==
  /\ server = "serving"
  /\ server' = "down"
  /\ RollBack
  /\ UNCHANGED << asked, starts, walletVars >>

=============================================================================
