-------------------------- MODULE MCLicenseService --------------------------
(***************************************************************************)
(* Finite instances of LicenseService.  A set of calls says what may       *)
(* arrive; the requests are interchangeable, so every set below is closed  *)
(* under permuting them.  3 is a socket count no key can encode.           *)
(***************************************************************************)
EXTENDS LicenseService, TLC

CONSTANTS a1, a2, h1, h2, pve, pbs, r1, r2, r3, r4, x1

Symmetry == Permutations(Requests)

Key(product, sockets, serial) ==
  [product |-> product, sockets |-> sockets, serial |-> serial]

MintedKeys == {Key(pve, s, r) : s \in ValidSockets, r \in Requests}

(* One account orders PVE keys of growing size, again and again, registers anew
   and revokes its keys, and an unnamed host checks them. *)
OrderCalls ==
       {OrderCall(a1, {pve}, s, "c") : s \in {None, 1, 2}}
  \cup {RegisterCall(a1, FALSE)}
  \cup {RevokeCall(a1, Key(pve, 1, r)) : r \in Requests}
  \cup {VerifyCall(None, Key(pve, 1, r), FALSE) : r \in Requests}

(* Two accounts; registrations from trusted and other networks, orders for
   both products, and revocations by the client. *)
OwnerCalls ==
       {OrderCall(a1, {pve, pbs}, 1, "c")}
  \cup {OrderCall(a2, {pve}, s, "c") : s \in {None, 3}}
  \cup {RevokeCall(a, k) : a \in Accounts, k \in MintedKeys}
  \cup {RegisterCall(a1, b) : b \in BOOLEAN}

(* Registrations from trusted and other networks, and one order. *)
RegisterCalls ==
  {RegisterCall(a1, b) : b \in BOOLEAN} \cup {OrderCall(a1, {pve}, 1, "c")}

(* Orders that cannot be minted: no such tier, no such level. *)
UnmintableCalls ==
  {OrderCall(a1, {pve}, s, "c") : s \in {1, 3}}

(* One host checks a key that an order minted or the admin added, from trusted
   and other networks. *)
AdminKeys == {Key(pve, 1, s) : s \in Serials \ Requests}
VerifyCalls ==
       {OrderCall(a1, {pve}, 1, "c")}
  \cup {VerifyCall(h1, k, FALSE) : k \in MintedKeys}
  \cup {VerifyCall(h1, k, TRUE) : k \in AdminKeys}
  \cup {VerifyCall(None, k, FALSE) : k \in MintedKeys}

(* Two accounts and a host at once, on the keys of both. *)
ClientAndHostCalls == OwnerCalls \cup VerifyCalls
MintedAndAdminKeys == MintedKeys \cup AdminKeys

(* Bounds on what happens at once.  While only clients call, nothing is decided
   on hosts and no admin key exists; while a host asks, the only other calls are
   the first account's orders for one product, under approval, and the server
   does not die; an account that never calls does not exist. *)
Kinds == {call[r].kind : r \in Requests}
NotCalling == {a \in Accounts : \A r \in Requests : call[r].account # a}

ClientsApart ==
  Kinds \cap {"verify", "none"} = {} =>
    /\ \A h \in Hosts : servers[h] = None
    /\ batch.left = {}
    /\ \A k \in AdminKeys : licenses[k] = None
HostApart ==
  "verify" \in Kinds =>
    /\ \A a \in Accounts : accounts[a] \in {None, "APPROVED"}
    /\ \A r \in Requests :
      /\ call[r].kind \in {"verify", "none"} \/ call[r] = OrderCall(a1, {pve}, 1, "c")
      /\ pc[r] # "lost"
CallersExist == "none" \notin Kinds => \A a \in NotCalling : accounts[a] = None

(* All that the steps and the properties of MCLicenseService_shared.cfg read:
   states that differ in the history `withdrawn' alone are one. *)
Observed == <<licenses, servers, accounts, pc, call, loc, reply, batch, since>>
=============================================================================
