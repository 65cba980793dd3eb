--------------------------- MODULE MCAdminCommands ---------------------------
(* A finite instance of AdminCommands: k1 is a proper lab key, k2 one that only
   --force lets in, k3 a key of a real subscription. *)
EXTENDS AdminCommands, TLC

CONSTANTS k1, k2, k3, h1, h2, a1, p1, p2, d1, d2

Symmetry == Permutations(Processes) \cup Permutations(Hosts)

E(key, status, due) == [key |-> key, status |-> status, due |-> due]

SomeEntries ==
  {E(k1, "REVOKED", d2), E(k1, "bad", "bad"), E(k2, None, None), E(k3, None, None)}

(* One issued to an account, and one that an admin added and revoked. *)
SomeStored ==
  {[status |-> "APPROVED", account |-> a1, due |-> d1],
   [status |-> "REVOKED", account |-> None, due |-> d1]}

(* Commands about licenses, hosts and accounts have no variable of the registry
   in common: commands of one area only run at a time, in a registry that has
   nothing else. *)
LicenseKinds == {"add", "import", "set-due", "remove", "export"}
HostKinds == {"hosts", "remove-host"}
AccountKinds == {"account"}

Empty(f) == \A x \in DOMAIN f : f[x] = None
Busy(kinds) == \A p \in Processes : cmd[p] # NoCommand => cmd[p].kind \in kinds

OneArea ==
  \/ Busy(LicenseKinds) /\ Empty(servers) /\ Empty(accounts)
  \/ Busy(HostKinds) /\ Empty(licenses) /\ Empty(accounts) /\ file = None
  \/ Busy(AccountKinds) /\ Empty(licenses) /\ Empty(servers) /\ file = None
=============================================================================
