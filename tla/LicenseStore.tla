---------------------------- MODULE LicenseStore ----------------------------
(***************************************************************************)
(* The operations of registry.Store as functions from the old registry to  *)
(* the new one.  Every mutation of the code runs under the exclusive file  *)
(* lock and becomes visible by one rename, so each is a single function    *)
(* application here; RegistryFile.tla shows why that is sound.             *)
(*                                                                         *)
(* The registry is three maps.  A license keeps its status and its owning  *)
(* account (None for an admin-minted key); its product is that of its key. *)
(* A host and an account keep their status.  Dates, names, notes and the   *)
(* informational serverid of a license decide nothing and are left out.    *)
(***************************************************************************)
EXTENDS Subscription

CONSTANTS Accounts,   \* ACME account thumbprints
          Hosts       \* server ids ("dir" of verify.php)

ASSUME StoreAssumption == None \notin Accounts /\ None \notin Hosts

License == [status : Statuses, account : Accounts \cup {None}]

ASSUME LicenseAssumption == None \notin License

Licenses == [Keys -> License \cup {None}]
ServerMap == [Hosts -> Statuses \cup {None}]
AccountMap == [Accounts -> Statuses \cup {None}]

-----------------------------------------------------------------------------
(* Licenses *)

Known(lics, key) == lics[key] # None
Active(lics, key) == Known(lics, key) /\ ActiveStatus(lics[key].status)

(* Faulty variant: the owner is not compared. *)
HeldByAnyone(lics, account, product) == {k \in Keys : k.product = product /\ Known(lics, k)}

(* The keys an account holds for a product, and those of them still active. *)
Held(lics, account, product) ==
  {k \in Keys : /\ k.product = product
                /\ Known(lics, k)
                /\ lics[k].account = account}
Live(lics, account, product) ==
  {k \in Held(lics, account, product) : ActiveStatus(lics[k].status)}

AddLicense(lics, key, status, account) ==
  [lics EXCEPT ![key] = [status |-> status, account |-> account]]

RemoveLicense(lics, key) == [lics EXCEPT ![key] = None]

SetLicenseStatus(lics, key, status) ==
  IF Known(lics, key)
  THEN [lics EXCEPT ![key] = [status |-> status, account |-> lics[key].account]]
  ELSE lics

-----------------------------------------------------------------------------
(* Accounts and hosts *)

UpsertAccount(accs, account, status) == [accs EXCEPT ![account] = status]

SetAccountStatus(accs, account, status) ==
  [accs EXCEPT ![account] = IF accs[account] = None THEN None ELSE status]

InitialStatus(autoApprove) == IF autoApprove THEN "APPROVED" ELSE "PENDING"

(* Faulty variant: auto-approval reaches every known host. *)
UpsertServerAlways(srvs, host, autoApprove) ==
  [srvs EXCEPT ![host] = IF autoApprove \/ @ = None THEN InitialStatus(autoApprove) ELSE @]

UpsertServer(srvs, host, autoApprove) ==
  [srvs EXCEPT ![host] =
     CASE srvs[host] = None -> InitialStatus(autoApprove)
       [] srvs[host] = "PENDING" /\ autoApprove -> "APPROVED"
       [] OTHER -> srvs[host]]

SetServerStatus(srvs, host, status) ==
  [srvs EXCEPT ![host] = IF srvs[host] = None THEN None ELSE status]

RemoveServer(srvs, host) == [srvs EXCEPT ![host] = None]
=============================================================================
