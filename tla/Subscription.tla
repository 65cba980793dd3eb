---------------------------- MODULE Subscription ----------------------------
(***************************************************************************)
(* The domain values of the license proxy: statuses, subscription keys and *)
(* the key generator (package internal/subscription).                      *)
(*                                                                         *)
(* A key such as "pve2c-1ab3f9a2c1" is kept as the parts the program reads *)
(* back out of it: the product code, the socket digit (0 when the format   *)
(* has none) and a serial that stands for the random hex digits.  The      *)
(* level letter is only displayed, so it is not part of a key here; it     *)
(* still decides whether the generator accepts a request.                  *)
(***************************************************************************)
EXTENDS Naturals, SubscriptionStatus

CONSTANTS Products,      \* product codes the server issues keys for
          PVE,           \* the one product licensed per socket
          ValidSockets,  \* socket counts a PVE key may encode; {1,2,4,8} in the code
          Serials,       \* stands for the random part of a key
          None           \* absent record, empty string, unset option

ASSUME SubscriptionAssumption ==
  /\ PVE \in Products
  /\ ValidSockets \subseteq Nat \ {0}
  /\ 1 \in ValidSockets
  /\ None \notin Nat

Keys ==
       [product : Products \ {PVE}, sockets : {0}, serial : Serials]
  \cup [product : {PVE}, sockets : ValidSockets, serial : Serials]

ASSUME KeyAssumption == None \notin Keys

-----------------------------------------------------------------------------
ASSUME StatusAssumption == None \notin Statuses

-----------------------------------------------------------------------------
(* The level "" selects the default "c"; "x" below stands for any other text. *)
ValidLevels == {"", "c", "b", "s", "p"}
Levels == ValidLevels \cup {"x"}

(***************************************************************************)
(* A socket count as it arrives in an order: None for the empty string, a  *)
(* number for a string strconv.Atoi accepts; 0 also stands for text Atoi   *)
(* rejects, which the code treats the same way (no upgrade, no key).       *)
(***************************************************************************)
SocketInputs == Nat \cup {None}

(* The socket digit a generated key carries. *)
KeyDigit(product, sockets) ==
  IF product # PVE THEN 0 ELSE IF sockets = None THEN 1 ELSE sockets

(* Faulty variant: no check that a key of that tier exists. *)
GenerateAnyTier(product, level, sockets, serial) ==
  IF level \in ValidLevels
  THEN {[product |-> product, sockets |-> KeyDigit(product, sockets), serial |-> serial]}
  ELSE {}

(* The keys the generator can return: none when it rejects its arguments.  *)
GenerateKey(product, level, sockets, serial) ==
  {k \in Keys : /\ level \in ValidLevels
                /\ k.product = product
                /\ k.sockets = KeyDigit(product, sockets)
                /\ k.serial = serial}

(* Faulty variants: one socket short, and one too eager. *)
UpgradeTooLate(product, sockets, key) ==
  product = PVE /\ sockets # None /\ sockets > key.sockets + 1
UpgradeTooEarly(product, sockets, key) ==
  product = PVE /\ sockets # None /\ sockets >= key.sockets

(* An order for more PVE sockets than the key covers needs a bigger key.   *)
NeedsSocketUpgrade(product, sockets, key) ==
  /\ product = PVE
  /\ sockets # None
  /\ sockets > key.sockets
=============================================================================
