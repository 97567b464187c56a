------------------------- MODULE MerchantProperties ------------------------
(***************************************************************************)
(* What the records of merchants keep.                                     *)
(***************************************************************************)
EXTENDS MerchantRecords

TypeOK ==
  /\ asked \in Workload
  /\ RequestTypeOK /\ WalletTypeOK /\ DeviceTypeOK(Merchant)

Ok(r, op) == stage[r] = "done" /\ asked[r].op = op

(***************************************************************************)
(* Settlements go to a wallet get_primary picks.  Once a request for a     *)
(* primary wallet is committed the merchant has one, and whichever is      *)
(* picked is not older: it never was inserted by a start or by a request   *)
(* that had ended when that request began.  So only add_wallet requests    *)
(* that overlap can leave two.  This is about the row: whose address it    *)
(* carries is the matter of SeedRestoresPayee.                             *)
(***************************************************************************)
LatestPrimaryPays ==
  \A r \in Request :
    Ok(r, "wallet") /\ asked[r].primary =>
      LET payees == Primaries(wallet, asked[r].merchant)
      IN  /\ payees # {}
          /\ payees \subseteq Request \ before[r]

(***************************************************************************)
(* Two starts of one database end alike unless a merchant stepped in (the  *)
(* seed calls its synchronisation idempotent).  A seed raises for three    *)
(* reasons only: the database has no user of the client; add_wallet has    *)
(* put a wallet of the client's address aside, beside the primary one;     *)
(* another profile carries the client's company name, by which the seed    *)
(* looks its profile up.                                                   *)
(***************************************************************************)
SeedFailureCauses ==
  server = "failed" =>
    \/ account[Client] = "none"
    \/ /\ \E r \in Request : Ok(r, "wallet") /\ asked[r].merchant = Client
       /\ \E n \in Rows(wallet, Client) :
            /\ wallet[n].address = ClientAddress
            /\ Primaries(wallet, Client) \ { n } # {}
    \/ \E m \in Merchant \ { Client } : "name" \in identity[m]

(***************************************************************************)
(* A start that seeded pays the client: every primary wallet of the client *)
(* carries the address the client sent, unless requests that overlapped    *)
(* had left two, of which the seed corrects one.  A start that fails       *)
(* changes nothing.                                                        *)
(***************************************************************************)
SeedRestoresPayee ==
  [][ Start /\ Seed /\ server' = "serving" /\ account'[Client] = "profile" =>
        \/ \A n \in Primaries(wallet', Client) : wallet'[n].address = ClientAddress
        \/ \E n, k \in Primaries(wallet, Client) : n # k /\ Overlap(n, k) ]_vars

(***************************************************************************)
(* Status reports of requests that overlap are merged: what a committed    *)
(* request reported of a device is on record until a request reports the   *)
(* same field that had not ended when this one began.  heartbeat decides   *)
(* on a copy of the record, which the row lock of its first flush keeps    *)
(* from being stale.                                                       *)
(***************************************************************************)
ReportsKept ==
  \A r \in Request :
    (Ok(r, "register") \/ Ok(r, "heartbeat")) =>
      \A f \in asked[r].fields :
        info.status[f] # Null /\ info.status[f] \notin before[r]

(***************************************************************************)
(* sunmi_devices and device_information both hold the model.  They differ  *)
(* only when requests overlapped: one registered the model of the one, and *)
(* the other, with what it had read before, wrote the information.         *)
(***************************************************************************)
ModelsAgreeUnlessOverlap ==
  device # Null =>
    /\ info # Null
    /\ device.model # info.model =>
         device.by # info.by /\ Overlap(device.by, info.by)

(***************************************************************************)
(* README.md names the merchant that is there after the seed, and the two  *)
(* commands that create schema and seed: a seed completes.                 *)
(***************************************************************************)
SeedCompletes == server # "failed"

=============================================================================
