-------------------------- MODULE MerchantRecords --------------------------
(***************************************************************************)
(* The records of merchants together: accounts, wallets and a device, as   *)
(* the requests one API process serves change them, and its starts and     *)
(* stops.                                                                  *)
(***************************************************************************)
EXTENDS MerchantWallets, DeviceRecords

CONSTANT Workload   \* what the requests of a behaviour may ask for

DeviceOps == { "register", "heartbeat" }
WalletOps == { "signup", "create", "wallet" }

ASSUME WorkloadAssumption ==
  \A w \in Workload, r \in Request :
    /\ w[r].merchant \in Merchant
    /\ w[r].op \in WalletOps \cup DeviceOps
    /\ w[r].op = "create" => w[r].company \subseteq Identity
    /\ w[r].op = "wallet" => w[r].address \in Address /\ w[r].primary \in BOOLEAN
    /\ w[r].op \in DeviceOps => w[r].fields \subseteq Field
    /\ w[r].op = "register" => w[r].model \in Model

ASSUME NullAssumption == Null \notin Row \cup Device(Merchant) \cup Info

vars == << requestVars, asked, walletVars, server, starts, deviceVars >>

Init ==
  /\ asked \in Workload
  /\ RequestInit /\ WalletInit /\ DeviceInit

Serve(r) ==
  /\ server = "serving"
  /\ UNCHANGED << asked, server, starts >>
  /\ \/ WalletStep(r) /\ UNCHANGED deviceVars
     \/ /\ DeviceStep(r, asked[r], account[asked[r].merchant] = "profile")
        /\ UNCHANGED walletVars

Next ==
  \/ \E r \in Request : Serve(r)
  \/ Start /\ UNCHANGED deviceVars
  \/ Stop /\ UNCHANGED deviceVars

Spec == Init /\ [][Next]_vars

=============================================================================
