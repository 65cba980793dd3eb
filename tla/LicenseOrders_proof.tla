------------------------ MODULE LicenseOrders_proof ------------------------
(***************************************************************************)
(* Theorems about LicenseService: what an order hands out, for any number  *)
(* of orders, accounts and products, whatever the operator does meanwhile. *)
(***************************************************************************)
EXTENDS LicenseVerify_proof

-----------------------------------------------------------------------------
(* What the store operations do to the keys an account holds *)

LEMMA RevokedLive ==
  ASSUME NEW lics \in Licenses, NEW k \in Keys, NEW a, NEW p
  PROVE  /\ Held(SetLicenseStatus(lics, k, "REVOKED"), a, p) = Held(lics, a, p)
         /\ Live(SetLicenseStatus(lics, k, "REVOKED"), a, p) = Live(lics, a, p) \ {k}
<1> DEFINE after == SetLicenseStatus(lics, k, "REVOKED")
<1>1. ASSUME NEW j \in Keys, j # k
      PROVE  after[j] = lics[j]
  BY <1>1, SMT DEF SetLicenseStatus, Licenses
<1>2. Known(lics, k) => after[k] = [status |-> "REVOKED", account |-> lics[k].account]
  BY SMT DEF SetLicenseStatus, Licenses
<1>3. ~Known(lics, k) => after = lics
  BY DEF SetLicenseStatus
<1>4. Known(lics, k) => /\ after[k].account = lics[k].account
                        /\ ~ActiveStatus(after[k].status)
  BY <1>2 DEF ActiveStatus
<1>5. Known(lics, k) => Known(after, k)
  BY <1>2, LicenseAssumption, SMT DEF Known, Licenses, License, Statuses
<1> HIDE DEF after
<1>6. Held(after, a, p) = Held(lics, a, p)
  BY <1>1, <1>3, <1>4, <1>5 DEF Held, Known
<1>7. ASSUME NEW j \in Held(lics, a, p)
      PROVE  ActiveStatus(after[j].status) <=> ActiveStatus(lics[j].status) /\ j # k
  BY <1>1, <1>4, <1>7 DEF Held
<1>8. Live(after, a, p) = Live(lics, a, p) \ {k}
  BY <1>6, <1>7 DEF Live
<1> QED
  BY <1>6, <1>8 DEF after

LEMMA AddedLive ==
  ASSUME NEW lics \in Licenses, NEW k \in Keys, NEW s, NEW owner, NEW a, NEW p
  PROVE  /\ Live(AddLicense(lics, k, s, owner), a, p) \subseteq Live(lics, a, p) \cup {k}
         /\ a # owner => Live(AddLicense(lics, k, s, owner), a, p) \subseteq Live(lics, a, p)
         /\ p # k.product =>
              /\ Held(AddLicense(lics, k, s, owner), a, p) = Held(lics, a, p)
              /\ Live(AddLicense(lics, k, s, owner), a, p) = Live(lics, a, p)
<1> DEFINE after == AddLicense(lics, k, s, owner)
<1>1. /\ after[k].account = owner
      /\ \A j \in Keys : j # k => after[j] = lics[j]
  BY AddSetsOwner
<1> HIDE DEF after
<1>2. Live(after, a, p) \subseteq Live(lics, a, p) \cup {k}
  BY <1>1 DEF Live, Held, Known
<1>3. a # owner => k \notin Live(after, a, p)
  BY <1>1 DEF Live, Held
<1>4. p # k.product => Held(after, a, p) = Held(lics, a, p)
  BY <1>1 DEF Held, Known
<1>5. p # k.product => Live(after, a, p) = Live(lics, a, p)
  BY <1>1, <1>4 DEF Live, Held
<1> QED
  BY <1>2, <1>3, <1>4, <1>5 DEF after

LEMMA RemovedLive ==
  ASSUME NEW lics \in Licenses, NEW k \in Keys, NEW a, NEW p
  PROVE  Live(RemoveLicense(lics, k), a, p) \subseteq Live(lics, a, p)
<1> DEFINE after == RemoveLicense(lics, k)
<1>1. after[k] = None /\ \A j \in Keys : j # k => after[j] = lics[j]
  BY SMT DEF RemoveLicense, Licenses
<1> HIDE DEF after
<1>2. Live(after, a, p) \subseteq Live(lics, a, p)
  BY <1>1 DEF Live, Held, Known
<1> QED
  BY <1>2 DEF after

-----------------------------------------------------------------------------
(* What a request does to the licenses *)

LEMMA OwnWrites ==
  ASSUME TInv, NEW r \in Requests, Step(r)
  PROVE  \/ licenses' = licenses
         \/ /\ RevSet(r)
            /\ call[r].key \in Keys
            /\ licenses' = SetLicenseStatus(licenses, call[r].key, "REVOKED")
         \/ /\ OrdRevoke(r)
            /\ loc[r].key \in Keys
            /\ licenses' = SetLicenseStatus(licenses, loc[r].key, "REVOKED")
         \/ /\ OrdMint(r)
            /\ \E k \in GenerateKey(loc[r].product, call[r].level, call[r].sockets, r) :
                 licenses' = AddLicense(licenses, k, "APPROVED", call[r].account) /\ Issue(r, k)
<1>1. CASE RevSet(r)
  <2>1. call[r] \in Calls /\ call[r].kind = "revoke"
    BY <1>1 DEF RevSet, TInv, ControlOK
  <2>2. call[r].key \in Keys
    BY <2>1, ServiceAssumption DEF WellFormed
  <2> QED
    BY <1>1, <2>2 DEF RevSet
<1>2. CASE OrdRevoke(r)
  BY <1>2 DEF OrdRevoke, TInv, ControlOK
<1>3. CASE OrdMint(r)
  BY <1>3 DEF OrdMint
<1>4. CASE ~(RevSet(r) \/ OrdRevoke(r) \/ OrdMint(r))
  BY <1>4 DEF Step, RegRead, RegWrite, OrdGate, OrdLookup, RevGet, VerUpsert, VerGet, registry
<1> QED
  BY <1>1, <1>2, <1>3, <1>4

(* Only the lookup and the revocation lead to a revocation or a mint. *)
LEMMA OnlyLookup ==
  ASSUME TInv, NEW r \in Requests, Step(r), pc'[r] \in {"ord_revoke", "ord_mint"}
  PROVE  \/ /\ OrdLookup(r) /\ pc'[r] = "ord_revoke" /\ loc'[r].product = loc[r].product
            /\ loc'[r].key \in Live(licenses, call[r].account, loc[r].product)
            /\ NeedsSocketUpgrade(loc[r].product, call[r].sockets, loc'[r].key)
         \/ /\ OrdLookup(r) /\ pc'[r] = "ord_mint" /\ loc' = loc
            /\ Held(licenses, call[r].account, loc[r].product) = {}
         \/ /\ OrdRevoke(r) /\ pc'[r] = "ord_mint" /\ loc' = loc
            /\ licenses' = SetLicenseStatus(licenses, loc[r].key, "REVOKED")
<1>1. ASSUME NEW s, Goto(r, s)
      PROVE  s = pc'[r]
  BY <1>1, SMT DEF Goto, TInv, StateOK
<1>2. ASSUME NEW p, NEW k, Issue(r, k) \/ Pend(r, p) \/ Refuse(r, p) \/ Fail(r, p)
      PROVE  FALSE
  <2>1. Goto(r, "done") \/ Goto(r, "ord_gate")
    BY <1>2 DEF Issue, Pend, Refuse, Fail, Settle
  <2> QED
    BY <1>1, <2>1
<1>3. CASE OrdGate(r)
  <2>1. Goto(r, "ord_lookup")
    BY <1>2, <1>3 DEF OrdGate
  <2> QED
    BY <1>1, <2>1
<1>4. CASE OrdLookup(r)
  <2> DEFINE p == loc[r].product
             live == Live(licenses, call[r].account, p)
  <2>1. \/ \E k \in live : /\ NeedsSocketUpgrade(p, call[r].sockets, k)
                           /\ loc' = [loc EXCEPT ![r].key = k]
                           /\ Goto(r, "ord_revoke")
        \/ /\ Held(licenses, call[r].account, p) = {}
           /\ Goto(r, "ord_mint") /\ loc' = loc
    BY <1>2, <1>4 DEF OrdLookup
  <2>2. ASSUME NEW k \in live, loc' = [loc EXCEPT ![r].key = k]
        PROVE  loc'[r].key = k /\ loc'[r].product = p
    BY <2>2, SMT DEF TInv, StateOK, Locals
  <2> HIDE DEF live
  <2> QED
    BY <1>1, <1>4, <2>1, <2>2 DEF live
<1>5. CASE OrdRevoke(r)
  <2>1. /\ licenses' = SetLicenseStatus(licenses, loc[r].key, "REVOKED")
        /\ Goto(r, "ord_mint") /\ loc' = loc
    BY <1>2, <1>5 DEF OrdRevoke
  <2> QED
    BY <1>1, <1>5, <2>1
<1>6. CASE OrdMint(r)
  BY <1>2, <1>6 DEF OrdMint
<1>7. CASE RegRead(r) \/ RegWrite(r) \/ RevGet(r) \/ RevSet(r) \/ VerUpsert(r) \/ VerGet(r)
  <2>1. Goto(r, "reg_write") \/ Goto(r, "rev_set") \/ Goto(r, "ver_get") \/ Goto(r, "done")
    BY <1>7 DEF RegRead, RegWrite, RevGet, RevSet, VerUpsert, VerGet, Finish
  <2> QED
    BY <1>1, <2>1
<1> QED
  BY <1>3, <1>4, <1>5, <1>6, <1>7 DEF Step

(* A key in an answer was there before, was found, or was minted just now. *)
LEMMA IssuedCases ==
  ASSUME TInv, OwnersOK, Next, NEW q \in Requests, NEW k \in reply'[q].issued
  PROVE  /\ call'[q] = call[q]
         /\ \/ k \in reply[q].issued /\ pc[q] # "idle"
            \/ /\ OrdLookup(q) /\ Observe(q)
               /\ k \in Live(licenses, call[q].account, loc[q].product)
               /\ ~NeedsSocketUpgrade(loc[q].product, call[q].sockets, k)
            \/ /\ OrdMint(q) /\ Observe(q)
               /\ k \in GenerateKey(loc[q].product, call[q].level, call[q].sockets, q)
<1>1. CASE reply'[q] = reply[q] /\ call'[q] = call[q]
  BY <1>1 DEF OwnersOK, RequestOwned
<1>2. CASE Arrive(q)
  <2>1. pc[q] = "idle" /\ reply' = reply
    BY <1>2 DEF Arrive
  <2> QED
    BY <2>1 DEF OwnersOK, RequestOwned
<1>3. CASE Step(q) /\ Observe(q)
  <2>1. pc[q] # "idle"
    BY <1>3 DEF Step, RegRead, RegWrite, OrdGate, OrdLookup, OrdRevoke, OrdMint,
       RevGet, RevSet, VerUpsert, VerGet
  <2>2. call'[q] = call[q]
    BY <2>1, CallStays
  <2> QED
    BY <1>3, <2>1, <2>2, IssuedHow
<1> QED
  BY <1>1, <1>2, <1>3, StepCases

-----------------------------------------------------------------------------
(* Sockets *)

LEMMA KeySockets ==
  ASSUME NEW k \in Keys
  PROVE  k.sockets \in Nat
<1>1. k.sockets = 0 \/ k.sockets \in ValidSockets
  <2>1. CASE k \in [product : Products \ {PVE}, sockets : {0}, serial : Serials]
    BY <2>1
  <2>2. CASE k \in [product : {PVE}, sockets : ValidSockets, serial : Serials]
    BY <2>2
  <2> QED
    BY <2>1, <2>2 DEF Keys
<1>2. ValidSockets \subseteq Nat
  BY SubscriptionAssumption
<1>3. 0 \in Nat
  BY SMT
<1> QED
  BY <1>1, <1>2, <1>3

LEMMA NextSockets ==
  ASSUME TInv, OwnersOK, IssuedCoversSockets, [Next]_vars
  PROVE  IssuedCoversSockets'
<1>1. CASE UNCHANGED vars
  BY <1>1 DEF vars, IssuedCoversSockets
<1>2. ASSUME Next, NEW q \in Requests, NEW k \in reply'[q].issued,
             k.product = PVE, call'[q].sockets # None
      PROVE  call'[q].sockets =< k.sockets
  <2>1. call'[q] = call[q]
    BY <1>2, IssuedCases
  <2>2. CASE k \in reply[q].issued
    BY <1>2, <2>1, <2>2 DEF IssuedCoversSockets
  <2>3. call[q].sockets \in Nat
    <3>1. call[q] \in Call
      BY DEF TInv, StateOK
    <3> QED
      BY <1>2, <2>1, <3>1, SMT DEF Call, SocketInputs
  <2>4. CASE /\ k \in Live(licenses, call[q].account, loc[q].product)
             /\ ~NeedsSocketUpgrade(loc[q].product, call[q].sockets, k)
    <3>1. k \in Keys /\ k.product = loc[q].product
      BY <2>4 DEF Live, Held
    <3>2. ~(call[q].sockets > k.sockets)
      BY <1>2, <2>1, <2>4, <3>1 DEF NeedsSocketUpgrade
    <3>3. k.sockets \in Nat
      BY <3>1, KeySockets
    <3> QED
      BY <2>1, <2>3, <3>2, <3>3, SMT
  <2>5. CASE k \in GenerateKey(loc[q].product, call[q].level, call[q].sockets, q)
    <3>1. k.sockets = call[q].sockets
      BY <1>2, <2>1, <2>5 DEF GenerateKey, KeyDigit
    <3> QED
      BY <2>1, <2>3, <3>1, SMT
  <2> QED
    BY <1>2, <2>2, <2>4, <2>5, IssuedCases
<1> QED
  BY <1>1, <1>2 DEF IssuedCoversSockets

(* A key that is handed out for PVE covers the sockets the order asked for,
   found, minted, or minted after an upgrade. *)
THEOREM SocketsAreCovered == Spec => []IssuedCoversSockets
<1>1. Init => IssuedCoversSockets
  BY SMT DEF Init, IssuedCoversSockets, NoReply, Answer
<1>2. TInv /\ OwnersOK /\ IssuedCoversSockets /\ [Next]_vars => IssuedCoversSockets'
  BY NextSockets
<1> QED
  BY <1>1, <1>2, TypedInvariant, OwnersInvariant, PTL DEF Spec, Typed

-----------------------------------------------------------------------------
(***************************************************************************)
(* Revocations.  A product that has been barred since the order began is   *)
(* barred now, so the lookup refuses it and leads to no mint.              *)
(***************************************************************************)
BarredNow(r) == Running(r) => since[r].barred \subseteq Barred(call[r], licenses)
PastBarred(r) == pc[r] \in {"ord_revoke", "ord_mint"} => loc[r].product \notin since[r].barred

BarredOK ==
  /\ \A r \in Requests : BarredNow(r) /\ PastBarred(r)
  /\ RevokedNotReissued

LEMMA OrderHistory ==
  ASSUME NEW q \in Requests, NEW self, Observe(self), Running(q)
  PROVE  /\ since'[q].barred \subseteq since[q].barred
         /\ q # self => since'[q].barred \subseteq Barred(call[q], licenses')
         /\ since'[q].covered \subseteq since[q].covered
         /\ q # self => since'[q].covered \subseteq Covered(call[q], licenses')
<1>1. since'[q] = Witnessed(q, q = self)
  BY DEF Observe
<1> DEFINE kept(set, now) == IF q = self THEN set ELSE set \cap now
<1>2. /\ Witnessed(q, q = self).barred = kept(since[q].barred, Barred(call[q], licenses'))
      /\ Witnessed(q, q = self).covered = kept(since[q].covered, Covered(call[q], licenses'))
  BY DEF Witnessed
<1> QED
  BY <1>1, <1>2

LEMMA ShrinkingHistory ==
  ASSUME TInv, Next, NEW q \in Requests, pc[q] # "idle"
  PROVE  /\ since'[q].barred \subseteq since[q].barred
         /\ since'[q].covered \subseteq since[q].covered
<1>1. PICK self : Observe(self) /\ (self # q \/ Running(q))
  <2>1. CASE Step(q) /\ Observe(q)
    BY <2>1 DEF Running, Step, RegRead, RegWrite, OrdGate, OrdLookup, OrdRevoke, OrdMint,
       RevGet, RevSet, VerUpsert, VerGet
  <2>2. CASE Arrive(q)
    BY <2>2 DEF Arrive
  <2> QED
    BY <2>1, <2>2, StepCases
<1>2. CASE Running(q)
  BY <1>1, <1>2, OrderHistory
<1>3. CASE ~Running(q)
  BY <1>1, <1>3, HistoryKept
<1> QED
  BY <1>2, <1>3

(* An order's own steps keep what is barred barred. *)
LEMMA OwnBarred ==
  ASSUME TInv, NEW r \in Requests, Step(r), PastBarred(r),
         NEW p \in since[r].barred, p \in Barred(call[r], licenses)
  PROVE  p \in Barred(call[r], licenses')
<1> DEFINE a == call[r].account
<1>1. licenses \in Licenses
  BY DEF TInv, StateOK
<1>2. /\ p \in call[r].products
      /\ Held(licenses, a, p) # {} /\ Live(licenses, a, p) = {}
  BY DEF Barred
<1>3. ASSUME NEW k \in Keys, licenses' = SetLicenseStatus(licenses, k, "REVOKED")
      PROVE  Held(licenses', a, p) # {} /\ Live(licenses', a, p) = {}
  BY <1>1, <1>2, <1>3, RevokedLive
<1>4. ASSUME OrdMint(r), NEW k \in GenerateKey(loc[r].product, call[r].level, call[r].sockets, r),
             licenses' = AddLicense(licenses, k, "APPROVED", call[r].account)
      PROVE  Held(licenses', a, p) # {} /\ Live(licenses', a, p) = {}
  <2>1. k \in Keys /\ k.product = loc[r].product
    BY <1>4 DEF GenerateKey
  <2>2. p # loc[r].product
    BY <1>4 DEF OrdMint, PastBarred
  <2> QED
    BY <1>1, <1>2, <1>4, <2>1, <2>2, AddedLive
<1>5. Held(licenses', a, p) # {} /\ Live(licenses', a, p) = {}
  BY <1>2, <1>3, <1>4, OwnWrites
<1> QED
  BY <1>2, <1>5 DEF Barred

LEMMA NextBarred ==
  ASSUME TInv, OwnersOK, BarredOK, [Next]_vars
  PROVE  BarredOK'
<1>1. CASE UNCHANGED vars
  BY <1>1 DEF vars, BarredOK, BarredNow, PastBarred, RevokedNotReissued, Running
<1>2. ASSUME Next, NEW q \in Requests
      PROVE  BarredNow(q)' /\ PastBarred(q)'
  <2>1. ASSUME NEW self, Observe(self), self # q, pc'[q] \in {pc[q], "lost"},
               call'[q] = call[q], loc'[q] = loc[q]
        PROVE  BarredNow(q)' /\ PastBarred(q)'
    <3>1. CASE Running(q)
      <4>1. /\ since'[q].barred \subseteq since[q].barred
            /\ since'[q].barred \subseteq Barred(call[q], licenses')
        BY <2>1, <3>1, OrderHistory
      <4>2. pc'[q] \in {"ord_revoke", "ord_mint"} => pc[q] = pc'[q]
        BY <2>1
      <4> QED
        BY <2>1, <4>1, <4>2 DEF BarredOK, BarredNow, PastBarred
    <3>2. CASE ~Running(q)
      <4>1. ~Running(q)' /\ pc'[q] \notin {"ord_revoke", "ord_mint"}
        BY <2>1, <3>2 DEF Running
      <4> QED
        BY <4>1 DEF BarredNow, PastBarred
    <3> QED
      BY <3>1, <3>2
  <2>2. CASE Arrive(q) /\ Observe(q)
    <3>1. /\ since'[q] = Arrived(call'[q]) /\ licenses' = licenses
          /\ pc'[q] \notin {"ord_revoke", "ord_mint"}
      BY <2>2, Arrival, HistoryBegins DEF registry
    <3>2. since'[q].barred = Barred(call'[q], licenses)
      BY <3>1 DEF Arrived
    <3> QED
      BY <3>1, <3>2 DEF BarredNow, PastBarred
  <2>3. CASE Step(q) /\ Observe(q)
    <3>1. Running(q) /\ pc[q] # "idle"
      BY <2>3 DEF Running, Step, RegRead, RegWrite, OrdGate, OrdLookup, OrdRevoke, OrdMint,
         RevGet, RevSet, VerUpsert, VerGet
    <3>2. call'[q] = call[q] /\ since'[q].barred \subseteq since[q].barred
      BY <1>2, <2>3, <3>1, CallStays, OrderHistory
    <3>3. since[q].barred \subseteq Barred(call[q], licenses) /\ PastBarred(q)
      BY <3>1 DEF BarredOK, BarredNow
    <3>4. BarredNow(q)'
      BY <2>3, <3>2, <3>3, OwnBarred DEF BarredNow
    <3>5. ASSUME pc'[q] \in {"ord_revoke", "ord_mint"}, loc'[q].product \in since'[q].barred
          PROVE  FALSE
      <4>1. loc'[q].product = loc[q].product
        BY <2>3, <3>5, OnlyLookup
      <4>2. loc[q].product \in Barred(call[q], licenses)
        BY <3>2, <3>3, <3>5, <4>1
      <4>3. /\ Held(licenses, call[q].account, loc[q].product) # {}
            /\ Live(licenses, call[q].account, loc[q].product) = {}
        BY <4>2 DEF Barred
      <4>4. OrdRevoke(q)
        BY <2>3, <3>5, <4>3, OnlyLookup
      <4>5. loc[q].product \notin since[q].barred
        BY <3>3, <4>4 DEF OrdRevoke, PastBarred
      <4> QED
        BY <3>2, <3>5, <4>1, <4>5
    <3> QED
      BY <3>4, <3>5 DEF PastBarred
  <2> QED
    BY <1>2, <2>1, <2>2, <2>3, StepCases
<1>3. ASSUME Next, NEW q \in Requests, NEW k \in reply'[q].issued
      PROVE  k.product \notin since'[q].barred
  <2>1. CASE k \in reply[q].issued /\ pc[q] # "idle"
    <3>1. k.product \notin since[q].barred
      BY <2>1 DEF BarredOK, RevokedNotReissued
    <3>2. since'[q].barred \subseteq since[q].barred
      BY <1>3, <2>1, ShrinkingHistory
    <3> QED
      BY <3>1, <3>2
  <2>2. CASE OrdLookup(q) /\ Observe(q) /\ k \in Live(licenses, call[q].account, loc[q].product)
    <3>1. Running(q)
      BY <2>2 DEF OrdLookup, Running
    <3>2. since'[q].barred \subseteq Barred(call[q], licenses)
      BY <2>2, <3>1, OrderHistory DEF BarredOK, BarredNow
    <3>3. k.product = loc[q].product /\ loc[q].product \notin Barred(call[q], licenses)
      BY <2>2 DEF Live, Held, Barred
    <3> QED
      BY <3>2, <3>3
  <2>3. CASE /\ OrdMint(q) /\ Observe(q)
             /\ k \in GenerateKey(loc[q].product, call[q].level, call[q].sockets, q)
    <3>1. Running(q) /\ pc[q] = "ord_mint"
      BY <2>3 DEF OrdMint, Running
    <3>2. since'[q].barred \subseteq since[q].barred
      BY <2>3, <3>1, OrderHistory
    <3>3. k.product \notin since[q].barred
      BY <2>3, <3>1 DEF GenerateKey, BarredOK, PastBarred
    <3> QED
      BY <3>2, <3>3
  <2> QED
    BY <1>3, <2>1, <2>2, <2>3, IssuedCases
<1> QED
  BY <1>1, <1>2, <1>3 DEF BarredOK, RevokedNotReissued

(* If all that an account held for a product throughout an order was revoked,
   the order hands out nothing for it, and in particular mints nothing. *)
THEOREM RevocationsStand == Spec => []RevokedNotReissued
<1>1. Init => BarredOK
  <2>1. Init => \A r \in Requests : pc[r] = "idle" /\ reply[r].issued = {}
    BY SMT DEF Init, NoReply, Answer
  <2> QED
    BY <2>1 DEF BarredOK, BarredNow, PastBarred, RevokedNotReissued, Running
<1>2. TInv /\ OwnersOK /\ BarredOK /\ [Next]_vars => BarredOK'
  BY NextBarred
<1>3. BarredOK => RevokedNotReissued
  BY DEF BarredOK
<1> QED
  BY <1>1, <1>2, <1>3, TypedInvariant, OwnersInvariant, PTL DEF Spec, Typed

-----------------------------------------------------------------------------
(***************************************************************************)
(* One order at a time.  What the lookup found stays true up to the mint,  *)
(* because only another order of the account could add a key meanwhile.    *)
(***************************************************************************)
OneOrder ==
  \A q, r \in Requests :
    /\ Running(q) /\ call[q].kind = "order"
    /\ Running(r) /\ call[r].kind = "order"
    /\ call[q].account = call[r].account
    => q = r

FoundLive(r) ==
  LET live == Live(licenses, call[r].account, loc[r].product)
  IN /\ pc[r] = "ord_mint" => live = {}
     /\ pc[r] = "ord_revoke" => live \subseteq {loc[r].key}

OneKeyOK == OneOrder /\ OneActiveKey /\ \A r \in Requests : FoundLive(r)

(* Accounts gain active keys by mints of their own orders only. *)
LEMMA LiveGrows ==
  ASSUME TInv, [Next]_vars, NEW a \in Accounts, NEW p
  PROVE  \/ Live(licenses', a, p) \subseteq Live(licenses, a, p)
         \/ \E r \in Requests, k \in Keys :
              /\ OrdMint(r) /\ call[r].account = a /\ loc[r].product = p
              /\ Live(licenses', a, p) \subseteq Live(licenses, a, p) \cup {k}
<1>1. licenses \in Licenses /\ a # None
  BY StoreAssumption DEF TInv, StateOK
<1>2. ASSUME licenses' = licenses
      PROVE  Live(licenses', a, p) \subseteq Live(licenses, a, p)
  BY <1>2
<1>3. ASSUME \E k \in Keys : licenses' = SetLicenseStatus(licenses, k, "REVOKED")
      PROVE  Live(licenses', a, p) \subseteq Live(licenses, a, p)
  BY <1>1, <1>3, RevokedLive
<1>4. CASE \E s : \E k \in Keys : licenses' = AddLicense(licenses, k, s, None)
  BY <1>1, <1>4, AddedLive
<1>5. CASE \E k \in Keys : licenses' = RemoveLicense(licenses, k)
  BY <1>1, <1>5, RemovedLive
<1>6. CASE Operator
  <2>1. licenses' = licenses \/ AdminAdd \/ AdminGenerate \/ AdminRevoke \/ AdminRemove
    BY <1>6 DEF Operator, AdminAccount, AdminHost, AdminRemoveHost, BatchList, BatchSet, registry
  <2>2. CASE AdminAdd
    BY <1>4, <2>2, ServiceAssumption DEF AdminAdd
  <2>3. CASE AdminGenerate
    BY <1>4, <2>3, GeneratedKeys DEF AdminGenerate
  <2>4. CASE AdminRevoke
    BY <1>3, <2>4 DEF AdminRevoke
  <2>5. CASE AdminRemove
    BY <1>5, <2>5 DEF AdminRemove
  <2> QED
    BY <1>2, <2>1, <2>2, <2>3, <2>4, <2>5
<1>7. ASSUME NEW r \in Requests, Step(r)
      PROVE  \/ Live(licenses', a, p) \subseteq Live(licenses, a, p)
             \/ \E k \in Keys :
                  /\ OrdMint(r) /\ call[r].account = a /\ loc[r].product = p
                  /\ Live(licenses', a, p) \subseteq Live(licenses, a, p) \cup {k}
  <2>1. CASE \E k \in GenerateKey(loc[r].product, call[r].level, call[r].sockets, r) :
               licenses' = AddLicense(licenses, k, "APPROVED", call[r].account)
    <3>1. PICK k \in Keys : /\ k.product = loc[r].product
                            /\ licenses' = AddLicense(licenses, k, "APPROVED", call[r].account)
      BY <2>1 DEF GenerateKey
    <3>2. /\ Live(licenses', a, p) \subseteq Live(licenses, a, p) \cup {k}
          /\ a # call[r].account \/ p # k.product =>
               Live(licenses', a, p) \subseteq Live(licenses, a, p)
      BY <1>1, <3>1, AddedLive
    <3>3. OrdMint(r) \/ licenses' = licenses \/ \E j \in Keys : licenses' = SetLicenseStatus(licenses, j, "REVOKED")
      BY <1>7, OwnWrites
    <3> QED
      BY <1>2, <1>3, <3>1, <3>2, <3>3
  <2>2. CASE licenses' = licenses \/ \E j \in Keys : licenses' = SetLicenseStatus(licenses, j, "REVOKED")
    BY <1>2, <1>3, <2>2
  <2> QED
    BY <1>7, <2>1, <2>2, OwnWrites
<1>8. CASE Restart \/ UNCHANGED vars \/ \E r \in Requests : Arrive(r)
  BY <1>2, <1>8 DEF Restart, vars, Arrive, registry
<1> QED
  BY <1>6, <1>7, <1>8 DEF Next

LEMMA NextOneOrder ==
  ASSUME TInv, OneOrder, Next, OneOrderPerAccount
  PROVE  OneOrder'
<1>1. ASSUME NEW q \in Requests, Running(q)', ~Arrive(q)
      PROVE  Running(q) /\ call'[q] = call[q]
  <2>1. pc'[q] \in {pc[q], "lost"} \/ Step(q)
    BY <1>1, StepCases
  <2>2. Running(q)
    BY <1>1, <2>1 DEF Running, Step, RegRead, RegWrite, OrdGate, OrdLookup, OrdRevoke, OrdMint,
       RevGet, RevSet, VerUpsert, VerGet
  <2>3. pc[q] # "idle"
    BY <2>2 DEF Running
  <2> QED
    BY <2>2, <2>3, CallStays
<1>2. ASSUME NEW q \in Requests, Arrive(q), call'[q].kind = "order", NEW r \in Requests, r # q,
             Running(r), call[r].kind = "order", call[r].account = call'[q].account
      PROVE  FALSE
  <2>1. PICK c \in Calls :
          /\ c.kind = "order" =>
               ~\E s \in Requests : Running(s) /\ call[s].kind = "order" /\ call[s].account = c.account
          /\ call' = [call EXCEPT ![q] = c]
    BY <1>2 DEF Arrive
  <2>2. call'[q] = c
    BY <2>1, SMT DEF TInv, StateOK
  <2> QED
    BY <1>2, <2>1, <2>2
<1>3. ASSUME NEW q \in Requests, Arrive(q), NEW r \in Requests, Arrive(r)
      PROVE  q = r
  <2>1. pc[r] = "idle" /\ pc'[r] # "idle"
    BY <1>3, Arrival
  <2> QED
    BY <1>3, <2>1, OthersStay
<1>4. ASSUME NEW q \in Requests, NEW r \in Requests,
             Running(q)', call'[q].kind = "order", Running(r)', call'[r].kind = "order",
             call'[q].account = call'[r].account
      PROVE  q = r
  <2>1. CASE Arrive(q) /\ ~Arrive(r)
    BY <1>1, <1>2, <1>4, <2>1
  <2>2. CASE ~Arrive(q) /\ Arrive(r)
    BY <1>1, <1>2, <1>4, <2>2
  <2>3. CASE ~Arrive(q) /\ ~Arrive(r)
    BY <1>1, <1>4, <2>3 DEF OneOrder
  <2> QED
    BY <1>3, <2>1, <2>2, <2>3
<1> QED
  BY <1>4 DEF OneOrder

LEMMA NextFoundLive ==
  ASSUME TInv, OneKeyOK, Next, NEW q \in Requests
  PROVE  FoundLive(q)'
<1> DEFINE a == call[q].account
           p == loc[q].product
<1> SUFFICES ASSUME pc'[q] \in {"ord_revoke", "ord_mint"} PROVE FoundLive(q)'
  BY DEF FoundLive
<1>1. ASSUME pc'[q] = pc[q], call'[q] = call[q], loc'[q] = loc[q]
      PROVE  FoundLive(q)'
  <2>1. a \in Accounts /\ call[q].kind = "order" /\ Running(q)
    BY <1>1, OrderAccount DEF OrderPCs, TInv, ControlOK, Running
  <2>2. CASE Live(licenses', a, p) \subseteq Live(licenses, a, p)
    BY <1>1, <2>2 DEF OneKeyOK, FoundLive
  <2>3. ASSUME NEW r \in Requests, OrdMint(r), call[r].account = a
        PROVE  FALSE
    <3>1. Running(r) /\ call[r].kind = "order"
      BY <2>3 DEF OrdMint, Running, TInv, ControlOK, OrderPCs
    <3>2. r = q
      BY <2>1, <2>3, <3>1 DEF OneKeyOK, OneOrder
    <3>3. Step(q)
      BY <2>3, <3>2 DEF Step
    <3>4. ~OrdMint(q)
      BY <3>3, OnlyLookup DEF OrdMint, OrdLookup, OrdRevoke
    <3> QED
      BY <2>3, <3>2, <3>4
  <2> QED
    BY <2>1, <2>2, <2>3, LiveGrows
<1>2. CASE Step(q)
  <2>1. pc[q] # "idle"
    BY <1>2 DEF Step, RegRead, RegWrite, OrdGate, OrdLookup, OrdRevoke, OrdMint,
       RevGet, RevSet, VerUpsert, VerGet
  <2>2. call'[q] = call[q]
    BY <2>1, CallStays
  <2>3. licenses \in Licenses
    BY DEF TInv, StateOK
  <2>4. CASE OrdLookup(q) /\ pc'[q] = "ord_revoke" /\ loc'[q].product = p
             /\ loc'[q].key \in Live(licenses, a, p)
    <3>1. licenses' = licenses /\ a \in Accounts /\ p \in Products
      <4>1. loc[q] \in Locals /\ p \in loc[q].todo
        BY <2>4 DEF OrdLookup, TInv, StateOK, ControlOK, OrderPCs
      <4>2. p \in Products
        BY <4>1, SMT DEF Locals
      <4> QED
        BY <2>4, <4>2, OrderAccount DEF OrdLookup, registry, OrderPCs
    <3>2. Live(licenses, a, p) \subseteq {loc'[q].key}
      BY <2>4, <3>1 DEF OneKeyOK, OneActiveKey
    <3> QED
      BY <2>2, <2>4, <3>1, <3>2 DEF FoundLive
  <2>5. CASE OrdLookup(q) /\ pc'[q] = "ord_mint" /\ loc' = loc /\ Held(licenses, a, p) = {}
    BY <2>2, <2>5 DEF OrdLookup, registry, FoundLive, Live
  <2>6. CASE OrdRevoke(q) /\ pc'[q] = "ord_mint" /\ loc' = loc
             /\ licenses' = SetLicenseStatus(licenses, loc[q].key, "REVOKED")
    <3>1. loc[q].key \in Keys /\ Live(licenses, a, p) \subseteq {loc[q].key}
      BY <2>6 DEF OrdRevoke, TInv, ControlOK, OneKeyOK, FoundLive
    <3>2. Live(licenses', a, p) = {}
      BY <2>3, <2>6, <3>1, RevokedLive
    <3> QED
      BY <2>2, <2>6, <3>2 DEF FoundLive
  <2> QED
    BY <1>2, <2>4, <2>5, <2>6, OnlyLookup
<1>3. CASE Arrive(q)
  BY <1>3, Arrival
<1> QED
  BY <1>1, <1>2, <1>3, StepCases

LEMMA NextOneKey ==
  ASSUME TInv, OneKeyOK, Next
  PROVE  OneActiveKey'
<1>1. ASSUME NEW a \in Accounts, NEW p \in Products,
             NEW k1 \in Live(licenses', a, p), NEW k2 \in Live(licenses', a, p)
      PROVE  k1 = k2
  <2>1. CASE Live(licenses', a, p) \subseteq Live(licenses, a, p)
    BY <1>1, <2>1 DEF OneKeyOK, OneActiveKey
  <2>2. CASE \E r \in Requests, k \in Keys :
               /\ OrdMint(r) /\ call[r].account = a /\ loc[r].product = p
               /\ Live(licenses', a, p) \subseteq Live(licenses, a, p) \cup {k}
    <3>1. Live(licenses, a, p) = {}
      BY <2>2 DEF OrdMint, OneKeyOK, FoundLive
    <3> QED
      BY <1>1, <2>2, <3>1
  <2> QED
    BY <2>1, <2>2, LiveGrows
<1> QED
  BY <1>1 DEF OneActiveKey

LEMMA InitOneKey ==
  ASSUME Init
  PROVE  OneKeyOK
<1>1. \A r \in Requests : pc[r] = "idle"
  BY SMT DEF Init
<1>2. \A k \in Keys : ~Known(licenses, k)
  BY SMT DEF Init, Known
<1>3. \A a, p : Live(licenses, a, p) = {}
  BY <1>2 DEF Live, Held
<1> QED
  BY <1>1, <1>3 DEF OneKeyOK, OneOrder, OneActiveKey, FoundLive, Running

LEMMA OneKeyInvariant == ASSUME OneOrderPerAccount PROVE Spec => []OneKeyOK
<1>1. TInv /\ OneKeyOK /\ [Next]_vars => OneKeyOK'
  <2>1. CASE UNCHANGED vars
    BY <2>1 DEF vars, OneKeyOK, OneOrder, OneActiveKey, FoundLive, Running
  <2>2. ASSUME TInv, OneKeyOK, Next
        PROVE  OneKeyOK'
    BY <2>2, NextOneOrder, NextFoundLive, NextOneKey DEF OneKeyOK
  <2> QED
    BY <2>1, <2>2
<1> QED
  BY <1>1, InitOneKey, TypedInvariant, PTL DEF Spec, Typed

(* As long as the orders of an account do not overlap, no account ever owns two
   active keys for one product, whatever the operator does. *)
THEOREM OneKeyEach == OneOrderPerAccount /\ Spec => []OneActiveKey
<1> SUFFICES ASSUME OneOrderPerAccount PROVE Spec => []OneActiveKey
  OBVIOUS
<1>1. OneKeyOK => OneActiveKey
  BY DEF OneKeyOK
<1>2. Spec => []OneKeyOK
  BY OneKeyInvariant
<1> QED
  BY <1>1, <1>2, PTL

-----------------------------------------------------------------------------
(***************************************************************************)
(* Orders are idempotent.  An order that reaches its mint found no key     *)
(* that was enough, and its own earlier mints were for other products:     *)
(* every key with its serial is in its answer, and a product in the answer *)
(* is no longer to do.                                                     *)
(***************************************************************************)
CoveredNow(r) ==
  Running(r) /\ call[r].kind = "order" => since[r].covered \subseteq Covered(call[r], licenses)
PastCovered(r) ==
  /\ pc[r] \in {"ord_revoke", "ord_mint"} => loc[r].product \notin since[r].covered
  /\ pc[r] = "ord_revoke" => loc[r].key.product = loc[r].product

Settled(r) ==
  \A k \in reply[r].issued :
    /\ pc[r] # "idle" /\ call[r].kind = "order"
    /\ Running(r) => k.product \notin loc[r].todo

Minted ==
  \A k \in Keys : Known(licenses, k) /\ k.serial \in Requests => k \in reply[k.serial].issued

IdempotentOK ==
  /\ \A r \in Requests : CoveredNow(r) /\ PastCovered(r)
  /\ \A r \in Requests : Settled(r)
  /\ Minted
  /\ NoNeedlessReissue

(* The list of products to do only gets shorter, and loses what is settled. *)
LEMMA TodoShrinks ==
  ASSUME TInv, NEW r \in Requests, Step(r), call[r].kind = "order"
  PROVE  /\ loc'[r].todo \subseteq loc[r].todo
         /\ reply' = reply \/ pc[r] = "ord_gate" \/ loc[r].product \notin loc'[r].todo
         /\ reply[r].issued \subseteq reply'[r].issued
<1>1. loc[r] \in Locals /\ reply[r] \in Reply
  BY DEF TInv, StateOK
<1>2. ASSUME NEW p, NEW answer, Settle(r, p, answer), answer \in Reply
      PROVE  /\ loc'[r].todo = loc[r].todo \ {p}
             /\ reply'[r].issued = answer.issued
  <2>1. loc'[r] = Blank(loc[r].todo \ {p})
    BY <1>2, SMT DEF Settle, TInv, StateOK
  <2>2. reply'[r].issued = answer.issued
    BY <1>2, SMT DEF Settle, Reply, TInv, StateOK
  <2> QED
    BY <2>1, <2>2 DEF Blank
<1>3. ASSUME NEW k \in Keys, Issue(r, k)
      PROVE  loc'[r].todo = loc[r].todo \ {k.product} /\ reply[r].issued \subseteq reply'[r].issued
  <2>1. /\ [reply[r] EXCEPT !.issued = @ \cup {k}] \in Reply
        /\ [reply[r] EXCEPT !.issued = @ \cup {k}].issued = reply[r].issued \cup {k}
    BY <1>1, SMT DEF Reply
  <2> QED
    BY <1>2, <1>3, <2>1 DEF Issue
<1>4. ASSUME NEW p \in Products, Pend(r, p) \/ Refuse(r, p) \/ Fail(r, p)
      PROVE  loc'[r].todo = loc[r].todo \ {p} /\ reply[r].issued \subseteq reply'[r].issued
  <2>1. /\ [reply[r] EXCEPT !.pending = @ \cup {p}] \in Reply
        /\ [reply[r] EXCEPT !.refused = @ \cup {p}] \in Reply
        /\ [reply[r] EXCEPT !.failed = @ \cup {p}] \in Reply
    BY <1>1, SMT DEF Reply
  <2>2. /\ [reply[r] EXCEPT !.pending = @ \cup {p}].issued = reply[r].issued
        /\ [reply[r] EXCEPT !.refused = @ \cup {p}].issued = reply[r].issued
        /\ [reply[r] EXCEPT !.failed = @ \cup {p}].issued = reply[r].issued
    BY <1>1, SMT DEF Reply
  <2> QED
    BY <1>2, <1>4, <2>1, <2>2 DEF Pend, Refuse, Fail
<1> DEFINE p == loc[r].product
<1>5. /\ pc[r] \in OrderPCs \ {"ord_gate"} => p \in Products
      /\ \A q \in loc[r].todo : q \in Products
  BY <1>1, SMT DEF TInv, StateOK, ControlOK, Locals
<1>6. ASSUME NEW v, \/ loc' = [loc EXCEPT ![r].product = v]
                    \/ loc' = [loc EXCEPT ![r].key = v]
                    \/ loc' = loc
      PROVE  loc'[r].todo = loc[r].todo
  BY <1>6, SMT DEF TInv, StateOK, Locals
<1>7. CASE OrdGate(r)
  <2>1. PICK q \in loc[r].todo : \/ loc' = [loc EXCEPT ![r].product = q] /\ reply' = reply
                                 \/ Pend(r, q) \/ Fail(r, q)
    BY <1>7 DEF OrdGate
  <2>2. q \in Products /\ pc[r] = "ord_gate"
    BY <1>5, <1>7 DEF OrdGate
  <2>3. CASE loc' = [loc EXCEPT ![r].product = q] /\ reply' = reply
    BY <1>6, <2>3
  <2>4. CASE Pend(r, q) \/ Fail(r, q)
    BY <1>4, <2>2, <2>4
  <2> QED
    BY <2>1, <2>3, <2>4
<1>8. CASE OrdLookup(r) \/ OrdRevoke(r) \/ OrdMint(r)
  <2>1. p \in Products
    BY <1>5, <1>8 DEF OrdLookup, OrdRevoke, OrdMint, OrderPCs
  <2>2. \/ \E k \in Keys : k.product = p /\ Issue(r, k)
        \/ Refuse(r, p) \/ Fail(r, p)
        \/ reply' = reply /\ \E v : loc' = [loc EXCEPT ![r].key = v] \/ loc' = loc
    <3>1. CASE OrdLookup(r)
      BY <3>1 DEF OrdLookup, Live, Held
    <3>2. CASE OrdRevoke(r)
      BY <3>2 DEF OrdRevoke
    <3>3. CASE OrdMint(r)
      BY <3>3 DEF OrdMint, GenerateKey
    <3> QED
      BY <1>8, <3>1, <3>2, <3>3
  <2>3. CASE \E k \in Keys : k.product = p /\ Issue(r, k)
    BY <1>3, <2>3
  <2>4. CASE Refuse(r, p) \/ Fail(r, p)
    BY <1>4, <2>1, <2>4
  <2>5. CASE reply' = reply /\ \E v : loc' = [loc EXCEPT ![r].key = v] \/ loc' = loc
    BY <1>6, <2>5
  <2> QED
    BY <2>2, <2>3, <2>4, <2>5
<1> QED
  BY <1>7, <1>8 DEF Step, RegRead, RegWrite, RevGet, RevSet, VerUpsert, VerGet, TInv, ControlOK

(* A key appears in the registry by an operator who had it from an answer, by
   an operator's own serial, or by a mint that also hands it out. *)
LEMMA KnownOrigin ==
  ASSUME TInv, [Next]_vars, NEW k \in Keys, Known(licenses', k), k.serial \in Requests
  PROVE  \/ Known(licenses, k)
         \/ k \in reply[k.serial].issued
         \/ OrdMint(k.serial) /\ Issue(k.serial, k)
<1>1. licenses \in Licenses
  BY DEF TInv, StateOK
<1>2. CASE licenses' = licenses
  BY <1>2
<1>3. CASE \E s : \E j \in Keys : licenses' = SetLicenseStatus(licenses, j, s)
  BY <1>1, <1>3, SMT DEF SetLicenseStatus, Known, Licenses
<1>4. CASE \E j \in Keys : licenses' = RemoveLicense(licenses, j)
  BY <1>1, <1>4, SMT DEF RemoveLicense, Known, Licenses
<1>5. ASSUME NEW j \in Keys, NEW s, NEW a, licenses' = AddLicense(licenses, j, s, a), j # k
      PROVE  Known(licenses, k)
  BY <1>1, <1>5, AddSetsOwner DEF Known
<1>6. CASE Operator
  <2>1. licenses' = licenses \/ AdminAdd \/ AdminGenerate \/ AdminRevoke \/ AdminRemove
    BY <1>6 DEF Operator, AdminAccount, AdminHost, AdminRemoveHost, BatchList, BatchSet, registry
  <2>2. CASE AdminAdd
    BY <1>5, <2>2, ServiceAssumption DEF AdminAdd, AdminKnows
  <2>3. CASE AdminGenerate
    <3>1. PICK n \in Serials \ Requests, j \in Keys :
            j.serial = n /\ licenses' = AddLicense(licenses, j, "APPROVED", None)
      BY <2>3 DEF AdminGenerate, GenerateKey
    <3> QED
      BY <1>5, <3>1
  <2>4. CASE AdminRevoke
    BY <1>3, <2>4 DEF AdminRevoke
  <2>5. CASE AdminRemove
    BY <1>4, <2>5 DEF AdminRemove
  <2> QED
    BY <1>2, <2>1, <2>2, <2>3, <2>4, <2>5
<1>7. ASSUME NEW r \in Requests, Step(r)
      PROVE  \/ Known(licenses, k)
             \/ OrdMint(k.serial) /\ Issue(k.serial, k)
  <2>1. CASE \E s : \E j \in Keys : licenses' = SetLicenseStatus(licenses, j, s)
    BY <1>1, <2>1, SMT DEF SetLicenseStatus, Known, Licenses
  <2>2. CASE OrdMint(r) /\ \E j \in GenerateKey(loc[r].product, call[r].level, call[r].sockets, r) :
               licenses' = AddLicense(licenses, j, "APPROVED", call[r].account) /\ Issue(r, j)
    <3>1. PICK j \in Keys : /\ j.serial = r /\ Issue(r, j)
                            /\ licenses' = AddLicense(licenses, j, "APPROVED", call[r].account)
      BY <2>2 DEF GenerateKey
    <3> QED
      BY <1>5, <2>2, <3>1
  <2> QED
    BY <1>2, <1>7, <2>1, <2>2, OwnWrites
<1>8. CASE Restart \/ UNCHANGED vars \/ \E r \in Requests : Arrive(r)
  BY <1>2, <1>8 DEF Restart, vars, Arrive, registry
<1> QED
  BY <1>6, <1>7, <1>8 DEF Next

LEMMA RunsBefore ==
  ASSUME NEW r \in Requests, Step(r)
  PROVE  Running(r) /\ pc[r] # "idle"
  BY DEF Running, Step, RegRead, RegWrite, OrdGate, OrdLookup, OrdRevoke, OrdMint,
     RevGet, RevSet, VerUpsert, VerGet

LEMMA NextSettled ==
  ASSUME TInv, OwnersOK, \A r \in Requests : Settled(r), Next
  PROVE  \A r \in Requests : Settled(r)'
<1> SUFFICES ASSUME NEW q \in Requests, NEW k \in reply'[q].issued
             PROVE  /\ pc'[q] # "idle" /\ call'[q].kind = "order"
                    /\ Running(q)' => k.product \notin loc'[q].todo
  BY DEF Settled
<1>1. CASE k \in reply[q].issued /\ pc[q] # "idle"
  <2>1. /\ pc'[q] # "idle" /\ call'[q] = call[q] /\ call[q].kind = "order"
        /\ Running(q) => k.product \notin loc[q].todo
    BY <1>1, CallStays DEF Settled
  <2>2. ASSUME Running(q)'
        PROVE  k.product \notin loc'[q].todo
    <3>1. CASE Step(q)
      BY <2>1, <3>1, RunsBefore, TodoShrinks
    <3>2. CASE pc'[q] \in {pc[q], "lost"} /\ loc'[q] = loc[q]
      BY <2>1, <2>2, <3>2 DEF Running
    <3>3. ~Arrive(q)
      BY <1>1 DEF Arrive
    <3> QED
      BY <3>1, <3>2, <3>3, StepCases
  <2> QED
    BY <2>1, <2>2
<1>2. CASE (OrdLookup(q) \/ OrdMint(q)) /\ k \notin reply[q].issued
  <2>1. Step(q) /\ call[q].kind = "order" /\ pc[q] \in {"ord_lookup", "ord_mint"} /\ reply' # reply
    BY <1>2 DEF Step, OrdLookup, OrdMint, TInv, ControlOK, OrderPCs
  <2>2. loc[q].product \notin loc'[q].todo
    BY <2>1, TodoShrinks
  <2>3. k.product = loc[q].product
    BY <1>2, <2>1, IssuedHow DEF Live, Held, GenerateKey
  <2>4. pc'[q] # "idle" /\ call'[q] = call[q]
    BY <2>1, RunsBefore, CallStays
  <2> QED
    BY <2>1, <2>2, <2>3, <2>4
<1> QED
  BY <1>1, <1>2, IssuedCases DEF OwnersOK, RequestOwned

(* An answer keeps its keys. *)
LEMMA IssuedStays ==
  ASSUME TInv, \A r \in Requests : Settled(r), Next, NEW q \in Requests, NEW k \in reply[q].issued
  PROVE  k \in reply'[q].issued
<1>1. pc[q] # "idle" /\ call[q].kind = "order"
  BY DEF Settled
<1>2. CASE Step(q)
  BY <1>1, <1>2, TodoShrinks
<1>3. ~Arrive(q)
  BY <1>1 DEF Arrive
<1> QED
  BY <1>2, <1>3, StepCases

LEMMA NextMinted ==
  ASSUME TInv, \A r \in Requests : Settled(r), Minted, Next
  PROVE  Minted'
<1> SUFFICES ASSUME NEW k \in Keys, Known(licenses', k), k.serial \in Requests
             PROVE  k \in reply'[k.serial].issued
  BY DEF Minted, Known
<1>1. CASE k \in reply[k.serial].issued
  BY <1>1, IssuedStays
<1>2. CASE OrdMint(k.serial) /\ Issue(k.serial, k)
  <2> DEFINE r == k.serial
  <2>1. reply[r] \in Reply
    BY DEF TInv, StateOK
  <2>2. reply' = [reply EXCEPT ![r] = [[reply[r] EXCEPT !.issued = @ \cup {k}] EXCEPT !.outcome = "ordered"]]
    BY <1>2 DEF Issue, Settle
  <2> HIDE DEF r
  <2>3. reply'[r].issued = reply[r].issued \cup {k}
    BY <2>1, <2>2, SMT DEF TInv, StateOK, Reply, r
  <2> QED
    BY <2>3 DEF r
<1> QED
  BY <1>1, <1>2, KnownOrigin DEF Minted

(* A product that was covered throughout has an active key that is enough, and
   under one order at a time that is the key the lookup finds. *)
LEMMA LookupFindsEnough ==
  ASSUME TInv, OneKeyOK, NEW q \in Requests, OrdLookup(q),
         loc[q].product \in Covered(call[q], licenses),
         NEW k \in Live(licenses, call[q].account, loc[q].product)
  PROVE  ~NeedsSocketUpgrade(loc[q].product, call[q].sockets, k)
<1> DEFINE p == loc[q].product
           a == call[q].account
<1>1. PICK j \in Live(licenses, a, p) : p = PVE /\ call[q].sockets # None => call[q].sockets =< j.sockets
  BY DEF Covered
<1>2. a \in Accounts /\ loc[q] \in Locals /\ p \in loc[q].todo /\ call[q] \in Call
  BY OrderAccount DEF OrdLookup, OrderPCs, TInv, StateOK, ControlOK
<1>3. p \in Products
  BY <1>2, SMT DEF Locals
<1>4. j = k
  BY <1>1, <1>2, <1>3 DEF OneKeyOK, OneActiveKey
<1>5. k.sockets \in Nat
  BY KeySockets DEF Live, Held
<1>6. call[q].sockets # None => call[q].sockets \in Nat
  BY <1>2, SMT DEF Call, SocketInputs
<1>7. ASSUME p = PVE, call[q].sockets # None
      PROVE  ~(call[q].sockets > k.sockets)
  BY <1>1, <1>4, <1>5, <1>6, <1>7, SMT
<1> QED
  BY <1>7 DEF NeedsSocketUpgrade

(* An order's own steps leave alone what it found covered. *)
LEMMA OwnCovered ==
  ASSUME TInv, NEW r \in Requests, Step(r), call[r].kind = "order", PastCovered(r),
         NEW p \in since[r].covered, p \in Covered(call[r], licenses)
  PROVE  p \in Covered(call[r], licenses')
<1> DEFINE a == call[r].account
<1>1. licenses \in Licenses
  BY DEF TInv, StateOK
<1>2. Live(licenses', a, p) = Live(licenses, a, p)
  <2>1. CASE OrdRevoke(r) /\ loc[r].key \in Keys
             /\ licenses' = SetLicenseStatus(licenses, loc[r].key, "REVOKED")
    <3>1. loc[r].key.product # p
      BY <2>1 DEF OrdRevoke, PastCovered
    <3>2. loc[r].key \notin Live(licenses, a, p)
      BY <3>1 DEF Live, Held
    <3> QED
      BY <1>1, <2>1, <3>2, RevokedLive
  <2>2. CASE OrdMint(r) /\ \E k \in GenerateKey(loc[r].product, call[r].level, call[r].sockets, r) :
               licenses' = AddLicense(licenses, k, "APPROVED", call[r].account)
    <3>1. PICK k \in Keys : /\ k.product = loc[r].product
                            /\ licenses' = AddLicense(licenses, k, "APPROVED", call[r].account)
      BY <2>2 DEF GenerateKey
    <3>2. k.product # p
      BY <2>2, <3>1 DEF OrdMint, PastCovered
    <3> QED
      BY <1>1, <3>1, <3>2, AddedLive
  <2>3. ~RevSet(r)
    BY DEF RevSet, TInv, ControlOK
  <2> QED
    BY <2>1, <2>2, <2>3, OwnWrites
<1> QED
  BY <1>2 DEF Covered

LEMMA NextCovered ==
  ASSUME TInv, OneKeyOK, IdempotentOK, Next, NEW q \in Requests
  PROVE  CoveredNow(q)' /\ PastCovered(q)'
<1>1. ASSUME NEW self, Observe(self), self # q, pc'[q] \in {pc[q], "lost"},
             call'[q] = call[q], loc'[q] = loc[q]
      PROVE  CoveredNow(q)' /\ PastCovered(q)'
  <2>1. CASE Running(q)
    <3>1. /\ since'[q].covered \subseteq since[q].covered
          /\ since'[q].covered \subseteq Covered(call[q], licenses')
      BY <1>1, <2>1, OrderHistory
    <3>2. pc'[q] \in {"ord_revoke", "ord_mint"} => pc[q] = pc'[q]
      BY <1>1
    <3> QED
      BY <1>1, <3>1, <3>2 DEF IdempotentOK, CoveredNow, PastCovered
  <2>2. CASE ~Running(q)
    <3>1. ~Running(q)' /\ pc'[q] \notin {"ord_revoke", "ord_mint"}
      BY <1>1, <2>2 DEF Running
    <3> QED
      BY <3>1 DEF CoveredNow, PastCovered
  <2> QED
    BY <2>1, <2>2
<1>2. CASE Arrive(q) /\ Observe(q)
  <2>1. /\ since'[q] = Arrived(call'[q]) /\ licenses' = licenses
        /\ pc'[q] \notin {"ord_revoke", "ord_mint"}
    BY <1>2, Arrival, HistoryBegins DEF registry
  <2>2. since'[q].covered = Covered(call'[q], licenses)
    BY <2>1 DEF Arrived
  <2> QED
    BY <2>1, <2>2 DEF CoveredNow, PastCovered
<1>3. CASE Step(q) /\ Observe(q)
  <2>1. Running(q) /\ pc[q] # "idle"
    BY <1>3, RunsBefore
  <2>2. call'[q] = call[q] /\ since'[q].covered \subseteq since[q].covered
    BY <1>3, <2>1, CallStays, OrderHistory
  <2>3. CoveredNow(q)'
    BY <1>3, <2>1, <2>2, OwnCovered DEF IdempotentOK, CoveredNow
  <2>4. ASSUME pc'[q] \in {"ord_revoke", "ord_mint"}
        PROVE  loc'[q].product = loc[q].product /\ loc[q].product \notin since[q].covered
    <3>1. loc'[q].product = loc[q].product
      BY <1>3, <2>4, OnlyLookup
    <3>2. CASE OrdRevoke(q)
      BY <3>1, <3>2 DEF OrdRevoke, IdempotentOK, PastCovered
    <3>3. CASE OrdLookup(q)
      <4>1. call[q].kind = "order"
        BY <3>3 DEF OrdLookup, TInv, ControlOK, OrderPCs
      <4> SUFFICES ASSUME loc[q].product \in since[q].covered PROVE FALSE
        BY <3>1
      <4>2. loc[q].product \in Covered(call[q], licenses)
        BY <2>1, <4>1 DEF IdempotentOK, CoveredNow
      <4>3. Live(licenses, call[q].account, loc[q].product) # {}
        BY <4>2 DEF Covered
      <4>4. Held(licenses, call[q].account, loc[q].product) # {}
        BY <4>3 DEF Live
      <4>5. /\ loc'[q].key \in Live(licenses, call[q].account, loc[q].product)
            /\ NeedsSocketUpgrade(loc[q].product, call[q].sockets, loc'[q].key)
        BY <1>3, <2>4, <3>3, <4>4, OnlyLookup DEF OrdLookup, OrdRevoke
      <4> QED
        BY <3>3, <4>2, <4>5, LookupFindsEnough
    <3> QED
      BY <1>3, <2>4, <3>2, <3>3, OnlyLookup
  <2>5. ASSUME pc'[q] = "ord_revoke"
        PROVE  loc'[q].key.product = loc'[q].product
    BY <1>3, <2>5, OnlyLookup DEF Live, Held
  <2> QED
    BY <2>2, <2>3, <2>4, <2>5 DEF PastCovered
<1> QED
  BY <1>1, <1>2, <1>3, StepCases

LEMMA NextNeedless ==
  ASSUME TInv, OwnersOK, IdempotentOK, Next
  PROVE  NoNeedlessReissue'
<1> SUFFICES ASSUME NEW q \in Requests, NEW k \in reply'[q].issued, k.product \in since'[q].covered
             PROVE  k.serial # q
  BY DEF NoNeedlessReissue
<1>1. CASE k \in reply[q].issued /\ pc[q] # "idle"
  BY <1>1, ShrinkingHistory DEF IdempotentOK, NoNeedlessReissue
<1>2. CASE OrdLookup(q) /\ k \in Live(licenses, call[q].account, loc[q].product)
  <2>1. /\ k \in Keys /\ Known(licenses, k) /\ k.product = loc[q].product
        /\ Running(q) /\ loc[q].product \in loc[q].todo
    BY <1>2 DEF Live, Held, OrdLookup, Running, TInv, ControlOK, OrderPCs
  <2>2. k \notin reply[q].issued
    BY <2>1 DEF IdempotentOK, Settled
  <2> QED
    BY <2>1, <2>2 DEF IdempotentOK, Minted
<1>3. CASE OrdMint(q) /\ Observe(q)
           /\ k \in GenerateKey(loc[q].product, call[q].level, call[q].sockets, q)
  <2>1. k.product = loc[q].product /\ pc[q] = "ord_mint" /\ Running(q)
    BY <1>3 DEF GenerateKey, OrdMint, Running
  <2>2. k.product \in since[q].covered
    BY <1>3, <2>1, OrderHistory
  <2> QED
    BY <2>1, <2>2 DEF IdempotentOK, PastCovered
<1> QED
  BY <1>1, <1>2, <1>3, IssuedCases

(* As long as the orders of an account do not overlap, an account that kept an
   active key that is enough throughout its order is given no new one. *)
THEOREM OrdersAreIdempotent == OneOrderPerAccount /\ Spec => []NoNeedlessReissue
<1> SUFFICES ASSUME OneOrderPerAccount PROVE Spec => []NoNeedlessReissue
  OBVIOUS
<1>1. Init => IdempotentOK
  <2>1. Init => \A r \in Requests : pc[r] = "idle" /\ reply[r].issued = {}
    BY SMT DEF Init, NoReply, Answer
  <2>2. Init => \A k \in Keys : ~Known(licenses, k)
    BY SMT DEF Init, Known
  <2> QED
    BY <2>1, <2>2 DEF IdempotentOK, CoveredNow, PastCovered, Settled, Minted, NoNeedlessReissue, Running
<1>2. TInv /\ OwnersOK /\ OneKeyOK /\ IdempotentOK /\ [Next]_vars => IdempotentOK'
  <2>1. CASE UNCHANGED vars
    BY <2>1 DEF vars, IdempotentOK, CoveredNow, PastCovered, Settled, Minted, NoNeedlessReissue, Running
  <2>2. ASSUME TInv, OwnersOK, OneKeyOK, IdempotentOK, Next
        PROVE  IdempotentOK'
    <3>1. \A r \in Requests : CoveredNow(r)' /\ PastCovered(r)'
      BY <2>2, NextCovered
    <3>2. \A r \in Requests : Settled(r)'
      BY <2>2, NextSettled DEF IdempotentOK
    <3>3. Minted' /\ NoNeedlessReissue'
      BY <2>2, NextMinted, NextNeedless DEF IdempotentOK
    <3> QED
      BY <3>1, <3>2, <3>3 DEF IdempotentOK
  <2> QED
    BY <2>1, <2>2
<1>3. IdempotentOK => NoNeedlessReissue
  BY DEF IdempotentOK
<1>4. Spec => []OneKeyOK
  BY OneKeyInvariant
<1> QED
  BY <1>1, <1>2, <1>3, <1>4, TypedInvariant, OwnersInvariant, PTL DEF Spec, Typed

-----------------------------------------------------------------------------
(***************************************************************************)
(* Refusals.  An account that holds keys for a product and none of them    *)
(* active lost the last one to an operator, to its own revocation, or to   *)
(* an upgrade that has yet to mint the replacement.  An upgrade is the     *)
(* work of the account's only order, so no lookup runs beside it; and it   *)
(* does mint, unless the server dies, the write fails or no such key       *)
(* exists.  That is what the hypothesis rules out.                         *)
(***************************************************************************)
UpgradesComplete ==
  /\ OneOrderPerAccount
  /\ "write" \notin Faults /\ "crash" \notin Faults
  /\ \A c \in Calls : c.kind = "order" =>
       /\ c.level \in ValidLevels
       /\ PVE \in c.products => c.sockets \in ValidSockets \cup {None}

WithdrawnOf(a, p) == \E k \in withdrawn : k.product = p /\ OrderedBy(k, a)
Upgrading(a, p) == \E r \in Requests : pc[r] = "ord_mint" /\ call[r].account = a /\ loc[r].product = p

LostForReason ==
  \A a \in Accounts, p \in Products :
    Held(licenses, a, p) # {} /\ Live(licenses, a, p) = {} => WithdrawnOf(a, p) \/ Upgrading(a, p)
ReplacesOwn(r) ==
  /\ Running(r) /\ call[r].kind = "order" => loc[r].todo \subseteq call[r].products
  /\ pc[r] = "ord_revoke" => loc[r].key.product = loc[r].product /\ OrderedBy(loc[r].key, call[r].account)
RefusedForReason(r) ==
  \A p \in reply[r].refused : pc[r] # "idle" /\ WithdrawnOf(call[r].account, p)

RefusalOK == LostForReason /\ \A r \in Requests : ReplacesOwn(r) /\ RefusedForReason(r)

(* What was withdrawn stays withdrawn. *)
LEMMA WithdrawnStays ==
  ASSUME TInv, [Next]_vars, NEW a, NEW p, WithdrawnOf(a, p)
  PROVE  WithdrawnOf(a, p)'
<1>1. withdrawn \subseteq withdrawn'
  BY DEF Next, vars, Arrive, Step, RegRead, RegWrite, OrdGate, OrdLookup, OrdRevoke, OrdMint,
     RevGet, RevSet, VerUpsert, VerGet, Restart, Operator, AdminAccount, AdminHost, AdminRemoveHost,
     AdminAdd, AdminGenerate, AdminRevoke, AdminRemove, BatchList, BatchSet
<1>2. PICK k \in withdrawn : k.product = p /\ OrderedBy(k, a)
  BY DEF WithdrawnOf
<1>3. OrderedBy(k, a)'
  BY <1>2, OrderedByStays
<1> QED
  BY <1>1, <1>2, <1>3 DEF WithdrawnOf

(* A key with an owner was ordered by that owner, before and after a step. *)
LEMMA OwnerOrdered ==
  ASSUME TInv, OwnersOK, NEW a \in Accounts, NEW p, NEW k \in Held(licenses, a, p)
  PROVE  k \in Keys /\ k.product = p /\ OrderedBy(k, a)
  BY StoreAssumption DEF Held, OwnersOK, KeysOwned

(* What adding and keeping a key do to those an account holds. *)
LEMMA AddedIsLive ==
  ASSUME NEW lics \in Licenses, NEW k \in Keys, NEW owner \in Accounts
  PROVE  k \in Live(AddLicense(lics, k, "APPROVED", owner), owner, k.product)
<1> DEFINE after == AddLicense(lics, k, "APPROVED", owner)
<1>1. after[k] = [status |-> "APPROVED", account |-> owner]
  BY SMT DEF AddLicense, Licenses
<1>2. [status |-> "APPROVED", account |-> owner] \in License
  BY SMT DEF License, Statuses
<1>3. after[k] # None
  BY <1>1, <1>2, LicenseAssumption
<1>4. after[k].account = owner /\ after[k].status = "APPROVED"
  BY <1>1
<1> HIDE DEF after
<1>5. k \in Live(after, owner, k.product)
  BY <1>3, <1>4 DEF Live, Held, Known, ActiveStatus
<1> QED
  BY <1>5 DEF after

LEMMA SameIsLive ==
  ASSUME NEW lics, NEW after, NEW k, after[k] = lics[k], NEW a, NEW p
  PROVE  /\ k \in Live(lics, a, p) => k \in Live(after, a, p)
         /\ k \in Held(after, a, p) => k \in Held(lics, a, p)
  BY DEF Live, Held, Known

(* An account comes to hold keys by mints, and those are active. *)
LEMMA HeldGrows ==
  ASSUME TInv, [Next]_vars, NEW a \in Accounts, NEW p, NEW k \in Held(licenses', a, p)
  PROVE  k \in Held(licenses, a, p) \/ k \in Live(licenses', a, p)
<1>1. licenses \in Licenses /\ a # None /\ k \in Keys /\ k.product = p
  BY StoreAssumption DEF TInv, StateOK, Held
<1>2. ASSUME \E j \in Keys : licenses' = SetLicenseStatus(licenses, j, "REVOKED")
      PROVE  k \in Held(licenses, a, p)
  BY <1>1, <1>2, RevokedLive
<1>3. ASSUME NEW j \in Keys, NEW s, licenses' = AddLicense(licenses, j, s, None)
      PROVE  k \in Held(licenses, a, p)
  <2>1. j # k
    BY <1>1, <1>3, AddSetsOwner DEF Held
  <2> QED
    BY <1>1, <1>3, <2>1, AddSetsOwner, SameIsLive
<1>4. ASSUME NEW j \in Keys, licenses' = RemoveLicense(licenses, j)
      PROVE  k \in Held(licenses, a, p)
  <2>1. licenses'[j] = None /\ (k # j => licenses'[k] = licenses[k])
    BY <1>1, <1>4, SMT DEF RemoveLicense, Licenses
  <2> QED
    BY <2>1, SameIsLive DEF Held, Known
<1>5. CASE Operator
  <2>1. licenses' = licenses \/ AdminAdd \/ AdminGenerate \/ AdminRevoke \/ AdminRemove
    BY <1>5 DEF Operator, AdminAccount, AdminHost, AdminRemoveHost, BatchList, BatchSet, registry
  <2>2. CASE AdminAdd
    BY <1>3, <2>2, ServiceAssumption DEF AdminAdd
  <2>3. CASE AdminGenerate
    BY <1>3, <2>3, GeneratedKeys DEF AdminGenerate
  <2>4. CASE AdminRevoke
    BY <1>2, <2>4 DEF AdminRevoke
  <2>5. CASE AdminRemove
    BY <1>4, <2>5 DEF AdminRemove
  <2> QED
    BY <2>1, <2>2, <2>3, <2>4, <2>5
<1>6. ASSUME NEW r \in Requests, Step(r)
      PROVE  k \in Held(licenses, a, p) \/ k \in Live(licenses', a, p)
  <2>1. CASE OrdMint(r) /\ \E j \in GenerateKey(loc[r].product, call[r].level, call[r].sockets, r) :
               licenses' = AddLicense(licenses, j, "APPROVED", call[r].account)
    <3>1. PICK j \in Keys : licenses' = AddLicense(licenses, j, "APPROVED", call[r].account)
      BY <2>1 DEF GenerateKey
    <3>2. CASE j # k
      BY <1>1, <3>1, <3>2, AddSetsOwner, SameIsLive
    <3>3. CASE j = k
      <4>1. call[r].account = a
        BY <1>1, <3>1, <3>3, AddSetsOwner DEF Held
      <4> QED
        BY <1>1, <3>1, <3>3, <4>1, AddedIsLive
    <3> QED
      BY <3>2, <3>3
  <2>2. CASE licenses' = licenses \/ \E j \in Keys : licenses' = SetLicenseStatus(licenses, j, "REVOKED")
    BY <1>2, <2>2
  <2> QED
    BY <1>6, <2>1, <2>2, OwnWrites
<1>7. CASE Restart \/ UNCHANGED vars \/ \E r \in Requests : Arrive(r)
  BY <1>7 DEF Restart, vars, Arrive, registry
<1> QED
  BY <1>5, <1>6, <1>7 DEF Next

(* An account loses active keys to an operator, to a revocation it asked for,
   or to its own upgrade. *)
LEMMA KeyLeaves ==
  ASSUME TInv, OwnersOK, [Next]_vars, NEW a \in Accounts, NEW p,
         NEW k \in Live(licenses, a, p), k \notin Live(licenses', a, p)
  PROVE  \/ k \in withdrawn'
         \/ \E r \in Requests : /\ OrdRevoke(r) /\ pc'[r] = "ord_mint" /\ loc' = loc
                                /\ loc[r].key = k
<1>1. licenses \in Licenses /\ k \in Keys /\ k \in Held(licenses, a, p) /\ k.product = p
  BY DEF TInv, StateOK, Live, Held
<1>2. OrderedBy(k, a)
  BY <1>1, OwnerOrdered
<1>3. licenses' # licenses /\ licenses'[k] # licenses[k]
  BY SameIsLive
<1>4. ASSUME NEW j \in Keys, licenses' = SetLicenseStatus(licenses, j, "REVOKED")
      PROVE  k = j
  BY <1>1, <1>3, <1>4, SMT DEF SetLicenseStatus, Licenses
<1>5. CASE Operator
  <2>1. AdminAdd \/ AdminGenerate \/ AdminRevoke \/ AdminRemove
    BY <1>3, <1>5 DEF Operator, AdminAccount, AdminHost, AdminRemoveHost, BatchList, BatchSet, registry
  <2>2. CASE AdminAdd
    BY <1>1, <1>3, <2>2, AddSetsOwner, ServiceAssumption DEF AdminAdd
  <2>3. CASE AdminGenerate
    <3>1. PICK j \in Keys : ~Known(licenses, j) /\ licenses' = AddLicense(licenses, j, "APPROVED", None)
      BY <2>3 DEF AdminGenerate, GenerateKey
    <3>2. j # k
      BY <1>1, <3>1 DEF Held
    <3> QED
      BY <1>1, <1>3, <3>1, <3>2, AddSetsOwner
  <2>4. CASE AdminRevoke
    BY <1>4, <2>4 DEF AdminRevoke
  <2>5. CASE AdminRemove
    <3>1. PICK j \in Keys : licenses' = RemoveLicense(licenses, j) /\ withdrawn' = withdrawn \cup {j}
      BY <2>5 DEF AdminRemove
    <3>2. j = k
      BY <1>1, <1>3, <3>1, SMT DEF RemoveLicense, Licenses
    <3> QED
      BY <3>1, <3>2
  <2> QED
    BY <2>1, <2>2, <2>3, <2>4, <2>5
<1>6. ASSUME NEW r \in Requests, Step(r)
      PROVE  \/ k \in withdrawn'
             \/ OrdRevoke(r) /\ pc'[r] = "ord_mint" /\ loc' = loc /\ loc[r].key = k
  <2>1. CASE RevSet(r) /\ call[r].key \in Keys
             /\ licenses' = SetLicenseStatus(licenses, call[r].key, "REVOKED")
    <3>1. withdrawn' = withdrawn \cup {call[r].key}
      BY <1>3, <2>1 DEF RevSet
    <3> QED
      BY <1>4, <2>1, <3>1
  <2>2. CASE OrdRevoke(r) /\ loc[r].key \in Keys
             /\ licenses' = SetLicenseStatus(licenses, loc[r].key, "REVOKED")
    <3>1. Goto(r, "ord_mint") /\ loc' = loc
      BY <1>3, <2>2 DEF OrdRevoke
    <3>2. pc'[r] = "ord_mint"
      BY <3>1, SMT DEF Goto, TInv, StateOK
    <3> QED
      BY <1>4, <2>2, <3>1, <3>2
  <2>3. CASE OrdMint(r) /\ \E j \in GenerateKey(loc[r].product, call[r].level, call[r].sockets, r) :
               licenses' = AddLicense(licenses, j, "APPROVED", call[r].account)
    <3>1. PICK j \in Keys : j.serial = r /\ licenses' = AddLicense(licenses, j, "APPROVED", call[r].account)
      BY <2>3 DEF GenerateKey
    <3>2. j = k
      BY <1>1, <1>3, <3>1, AddSetsOwner
    <3>3. call[r].account = a
      BY <1>2, <3>1, <3>2 DEF OrderedBy
    <3>4. k \in Live(licenses', a, p)
      BY <1>1, <3>1, <3>2, <3>3, AddedIsLive
    <3> QED
      BY <3>4
  <2> QED
    BY <1>3, <1>6, <2>1, <2>2, <2>3, OwnWrites
<1>7. CASE Restart \/ UNCHANGED vars \/ \E r \in Requests : Arrive(r)
  BY <1>3, <1>7 DEF Restart, vars, Arrive, registry
<1> QED
  BY <1>5, <1>6, <1>7 DEF Next

(* A mint that completes gives the account an active key. *)
LEMMA MintCompletes ==
  ASSUME TInv, UpgradesComplete, NEW r \in Requests, ReplacesOwn(r), OrdMint(r)
  PROVE  Live(licenses', call[r].account, loc[r].product) # {}
<1> DEFINE p == loc[r].product
           c == call[r]
           new == GenerateKey(p, c.level, c.sockets, r)
<1>1. /\ c \in Calls /\ c.kind = "order" /\ p \in loc[r].todo /\ loc[r].todo \subseteq c.products
      /\ loc[r] \in Locals /\ licenses \in Licenses
  BY DEF OrdMint, TInv, ControlOK, OrderPCs, StateOK, ReplacesOwn, Running
<1>2. p \in Products /\ p \in c.products
  BY <1>1, SMT DEF Locals
<1>3. c.level \in ValidLevels /\ (p = PVE => c.sockets \in ValidSockets \cup {None})
  BY <1>1, <1>2 DEF UpgradesComplete
<1>4. c.account \in Accounts
  BY OrderAccount DEF OrdMint, OrderPCs
<1> DEFINE k == [product |-> p, sockets |-> KeyDigit(p, c.sockets), serial |-> r]
<1>5. k \in Keys
  <2>1. r \in Serials /\ 1 \in ValidSockets
    BY ServiceAssumption, SubscriptionAssumption
  <2>2. p = PVE => KeyDigit(p, c.sockets) \in ValidSockets
    BY <1>3, <2>1 DEF KeyDigit
  <2>3. p # PVE => KeyDigit(p, c.sockets) = 0
    BY DEF KeyDigit
  <2> QED
    BY <1>2, <2>1, <2>2, <2>3 DEF Keys
<1>6. k.product = p /\ k.sockets = KeyDigit(p, c.sockets) /\ k.serial = r
  OBVIOUS
<1> HIDE DEF k
<1>7. k \in new
  BY <1>3, <1>5, <1>6 DEF GenerateKey
<1>8. ~(new = {} \/ WriteFails)
  BY <1>7 DEF UpgradesComplete, WriteFails
<1>9. PICK j \in new : licenses' = AddLicense(licenses, j, "APPROVED", c.account)
  BY <1>8 DEF OrdMint
<1>10. j \in Keys /\ j.product = p
  BY <1>9 DEF GenerateKey
<1> QED
  BY <1>1, <1>4, <1>9, <1>10, AddedIsLive

LEMMA NextLost ==
  ASSUME TInv, OwnersOK, UpgradesComplete, RefusalOK, Next
  PROVE  LostForReason'
<1> SUFFICES ASSUME NEW a \in Accounts, NEW p \in Products,
                    Held(licenses', a, p) # {}, Live(licenses', a, p) = {}
             PROVE  WithdrawnOf(a, p)' \/ Upgrading(a, p)'
  BY DEF LostForReason
<1>1. CASE Live(licenses, a, p) # {}
  <2>1. PICK k : k \in Live(licenses, a, p)
    BY <1>1
  <2>2. k \in Held(licenses, a, p)
    BY <2>1 DEF Live
  <2>3. k.product = p /\ OrderedBy(k, a)
    BY <2>2, OwnerOrdered
  <2>4. CASE k \in withdrawn'
    BY <2>3, <2>4, OrderedByStays DEF WithdrawnOf
  <2>5. ASSUME NEW r \in Requests, OrdRevoke(r), pc'[r] = "ord_mint", loc' = loc, loc[r].key = k
        PROVE  Upgrading(a, p)'
    <3>1. pc[r] = "ord_revoke" /\ call' = call
      BY <2>5 DEF OrdRevoke
    <3>2. loc[r].product = p /\ call[r].account = a
      BY <2>3, <2>5, <3>1 DEF RefusalOK, ReplacesOwn, OrderedBy
    <3> QED
      BY <2>5, <3>1, <3>2 DEF Upgrading
  <2> QED
    BY <2>1, <2>4, <2>5, KeyLeaves
<1>2. CASE Live(licenses, a, p) = {} /\ Held(licenses, a, p) # {}
  <2>1. CASE WithdrawnOf(a, p)
    BY <2>1, WithdrawnStays
  <2>2. ASSUME NEW r \in Requests, pc[r] = "ord_mint", call[r].account = a, loc[r].product = p
        PROVE  Upgrading(a, p)'
    <3>1. CASE Step(r)
      <4>1. OrdMint(r)
        BY <2>2, <3>1 DEF Step, RegRead, RegWrite, OrdGate, OrdLookup, OrdRevoke,
           RevGet, RevSet, VerUpsert, VerGet
      <4> QED
        BY <2>2, <4>1, MintCompletes DEF RefusalOK
    <3>2. CASE ~Step(r) /\ call'[r] = call[r] /\ loc'[r] = loc[r]
      <4>1. pc'[r] = pc[r]
        <5>1. ~Restart
          BY DEF Restart, UpgradesComplete
        <5>2. CASE Operator
          <6>1. UNCHANGED requestState
            BY <5>2 DEF Operator, AdminAccount, AdminHost, AdminRemoveHost, AdminAdd,
               AdminGenerate, AdminRevoke, AdminRemove, BatchList, BatchSet
          <6> QED
            BY <6>1 DEF requestState
        <5>3. ASSUME NEW q \in Requests, Arrive(q) \/ Step(q)
              PROVE  pc'[r] = pc[r]
          <6>1. q # r
            BY <2>2, <3>2, <5>3 DEF Arrive
          <6> QED
            BY <5>3, <6>1, OthersStay
        <5> QED
          BY <5>1, <5>2, <5>3 DEF Next
      <4> QED
        BY <2>2, <3>2, <4>1 DEF Upgrading
    <3>3. ~Arrive(r)
      BY <2>2 DEF Arrive
    <3> QED
      BY <3>1, <3>2, <3>3, StepCases
  <2> QED
    BY <1>2, <2>1, <2>2 DEF RefusalOK, LostForReason, Upgrading
<1>3. CASE Held(licenses, a, p) = {}
  BY <1>3, HeldGrows
<1> QED
  BY <1>1, <1>2, <1>3

(* Only a lookup that finds no active key among those held refuses a product. *)
LEMMA RefusedHow ==
  ASSUME TInv, NEW r \in Requests, Step(r), NEW p \in reply'[r].refused
  PROVE  \/ p \in reply[r].refused
         \/ /\ pc[r] = "ord_lookup" /\ p = loc[r].product
            /\ Held(licenses, call[r].account, p) # {}
            /\ Live(licenses, call[r].account, p) = {}
<1>1. reply[r] \in Reply
  BY DEF TInv, StateOK
<1>2. ASSUME NEW q, NEW answer, Settle(r, q, answer), answer \in Reply
      PROVE  reply'[r].refused = answer.refused
  BY <1>2, SMT DEF Settle, Reply, TInv, StateOK
<1>3. ASSUME NEW q \in Products, Pend(r, q) \/ Fail(r, q)
      PROVE  reply'[r].refused = reply[r].refused
  <2>1. /\ [reply[r] EXCEPT !.pending = @ \cup {q}] \in Reply
        /\ [reply[r] EXCEPT !.failed = @ \cup {q}] \in Reply
    BY <1>1, SMT DEF Reply
  <2>2. /\ [reply[r] EXCEPT !.pending = @ \cup {q}].refused = reply[r].refused
        /\ [reply[r] EXCEPT !.failed = @ \cup {q}].refused = reply[r].refused
    BY <1>1, SMT DEF Reply
  <2> QED
    BY <1>2, <1>3, <2>1, <2>2 DEF Pend, Fail
<1>4. ASSUME NEW k \in Keys, Issue(r, k)
      PROVE  reply'[r].refused = reply[r].refused
  <2>1. /\ [reply[r] EXCEPT !.issued = @ \cup {k}] \in Reply
        /\ [reply[r] EXCEPT !.issued = @ \cup {k}].refused = reply[r].refused
    BY <1>1, SMT DEF Reply
  <2> QED
    BY <1>2, <1>4, <2>1 DEF Issue
<1>5. ASSUME NEW q \in Products, Refuse(r, q)
      PROVE  reply'[r].refused = reply[r].refused \cup {q}
  <2>1. /\ [reply[r] EXCEPT !.refused = @ \cup {q}] \in Reply
        /\ [reply[r] EXCEPT !.refused = @ \cup {q}].refused = reply[r].refused \cup {q}
    BY <1>1, SMT DEF Reply
  <2> QED
    BY <1>2, <1>5, <2>1 DEF Refuse
<1>6. ASSUME NEW what, NEW b, Finish(r, Answer(what, b))
      PROVE  reply'[r].refused = {}
  BY <1>6, SMT DEF Finish, Answer, TInv, StateOK
<1>7. /\ pc[r] \in OrderPCs \ {"ord_gate"} => loc[r].product \in Products
      /\ loc[r].todo \subseteq Products
  BY SMT DEF TInv, StateOK, ControlOK, Locals
<1>8. CASE RegRead(r) \/ RegWrite(r) \/ RevGet(r) \/ RevSet(r) \/ VerUpsert(r) \/ VerGet(r)
  <2>1. reply' = reply \/ \E what, b : Finish(r, Answer(what, b))
    BY <1>8 DEF RegRead, RegWrite, RevGet, RevSet, VerUpsert, VerGet, Verdict, Outcome
  <2> QED
    BY <1>6, <2>1
<1>9. CASE OrdGate(r)
  BY <1>3, <1>7, <1>9 DEF OrdGate
<1>10. CASE OrdRevoke(r)
  BY <1>3, <1>7, <1>10 DEF OrdRevoke, OrderPCs
<1>11. CASE OrdMint(r)
  <2>1. (\E k \in Keys : Issue(r, k)) \/ Fail(r, loc[r].product)
    BY <1>11 DEF OrdMint, GenerateKey
  <2> QED
    BY <1>3, <1>4, <1>7, <1>11, <2>1 DEF OrdMint, OrderPCs
<1>12. CASE OrdLookup(r)
  <2> DEFINE a == call[r].account
             q == loc[r].product
  <2>1. \/ \E k \in Keys : Issue(r, k)
        \/ Fail(r, q) \/ UNCHANGED reply
        \/ Refuse(r, q) /\ Held(licenses, a, q) # {} /\ Live(licenses, a, q) = {}
    BY <1>12 DEF OrdLookup, Live, Held
  <2>2. q \in Products /\ pc[r] = "ord_lookup"
    BY <1>7, <1>12 DEF OrdLookup, OrderPCs
  <2>3. CASE (\E k \in Keys : Issue(r, k)) \/ Fail(r, q) \/ UNCHANGED reply
    BY <1>3, <1>4, <2>2, <2>3
  <2>4. CASE Refuse(r, q) /\ Held(licenses, a, q) # {} /\ Live(licenses, a, q) = {}
    BY <1>5, <2>2, <2>4
  <2> QED
    BY <2>1, <2>3, <2>4
<1> QED
  BY <1>8, <1>9, <1>10, <1>11, <1>12 DEF Step

(* What the account held and lost when the lookup refuses it was withdrawn:
   no upgrade of the same account runs beside the lookup. *)
LEMMA LookupForReason ==
  ASSUME TInv, OneOrder, RefusalOK, NEW r \in Requests, pc[r] = "ord_lookup",
         Held(licenses, call[r].account, loc[r].product) # {},
         Live(licenses, call[r].account, loc[r].product) = {}
  PROVE  WithdrawnOf(call[r].account, loc[r].product)
<1>1. /\ loc[r] \in Locals /\ loc[r].product \in loc[r].todo
      /\ call[r].kind = "order" /\ Running(r)
  BY DEF TInv, StateOK, ControlOK, OrderPCs, Running
<1>2. loc[r].product \in Products
  BY <1>1, SMT DEF Locals
<1>3. call[r].account \in Accounts
  BY OrderAccount DEF OrderPCs
<1>4. ASSUME NEW q \in Requests, pc[q] = "ord_mint", call[q].account = call[r].account
      PROVE  FALSE
  <2>1. call[q].kind = "order" /\ Running(q)
    BY <1>4 DEF TInv, ControlOK, OrderPCs, Running
  <2>2. q = r
    BY <1>1, <1>4, <2>1 DEF OneOrder
  <2> QED
    BY <1>4, <2>2
<1> QED
  BY <1>2, <1>3, <1>4 DEF RefusalOK, LostForReason, Upgrading

LEMMA NextRefused ==
  ASSUME TInv, OwnersOK, OneOrder, RefusalOK, Next, NEW q \in Requests
  PROVE  ReplacesOwn(q)' /\ RefusedForReason(q)'
<1>1. RefusedForReason(q)'
  <2> SUFFICES ASSUME NEW p \in reply'[q].refused
               PROVE  pc'[q] # "idle" /\ WithdrawnOf(call[q].account, p)'
    BY DEF RefusedForReason
  <2>1. pc[q] # "idle" /\ WithdrawnOf(call[q].account, p)
    <3>1. CASE p \in reply[q].refused
      BY <3>1 DEF RefusalOK, RefusedForReason
    <3>2. CASE /\ pc[q] = "ord_lookup" /\ p = loc[q].product
               /\ Held(licenses, call[q].account, p) # {}
               /\ Live(licenses, call[q].account, p) = {}
      BY <3>2, LookupForReason
    <3>3. reply'[q] = reply[q] \/ Step(q)
      BY StepCases DEF Arrive
    <3> QED
      BY <3>1, <3>2, <3>3, RefusedHow
  <2>2. pc'[q] # "idle" /\ call'[q] = call[q]
    BY <2>1, CallStays
  <2>3. PICK a : a = call[q].account
    OBVIOUS
  <2>4. WithdrawnOf(a, p)'
    BY <2>1, <2>3, WithdrawnStays
  <2> QED
    BY <2>2, <2>3, <2>4 DEF WithdrawnOf, OrderedBy
<1>2. ASSUME Running(q)', call'[q].kind = "order"
      PROVE  loc'[q].todo \subseteq call'[q].products
  <2>1. CASE Step(q)
    <3>1. Running(q) /\ call'[q] = call[q]
      BY <2>1, RunsBefore, CallStays
    <3> QED
      BY <1>2, <2>1, <3>1, TodoShrinks DEF RefusalOK, ReplacesOwn
  <2>2. CASE pc'[q] \in {pc[q], "lost"} /\ call'[q] = call[q] /\ loc'[q] = loc[q]
    <3>1. Running(q)
      BY <1>2, <2>2 DEF Running
    <3> QED
      BY <1>2, <2>2, <3>1 DEF RefusalOK, ReplacesOwn
  <2>3. CASE Arrive(q)
    <3>1. PICK c \in Calls : /\ call' = [call EXCEPT ![q] = c]
                             /\ loc' = [loc EXCEPT ![q] = Blank(c.products)]
      BY <2>3 DEF Arrive
    <3>2. call'[q] = c /\ loc'[q] = Blank(c.products)
      BY <3>1, SMT DEF TInv, StateOK
    <3> QED
      BY <3>2 DEF Blank
  <2> QED
    BY <2>1, <2>2, <2>3, StepCases
<1>3. ASSUME pc'[q] = "ord_revoke"
      PROVE  loc'[q].key.product = loc'[q].product /\ OrderedBy(loc[q].key, call[q].account)'
  <2>1. call'[q] = call[q] /\ \E k : /\ k = loc'[q].key /\ k.product = loc'[q].product
                                    /\ OrderedBy(k, call[q].account)
    <3>1. CASE Step(q)
      <4>1. /\ OrdLookup(q) /\ loc'[q].product = loc[q].product
            /\ loc'[q].key \in Live(licenses, call[q].account, loc[q].product)
        BY <1>3, <3>1, OnlyLookup
      <4>2. call'[q] = call[q] /\ call[q].account \in Accounts
        BY <3>1, <4>1, RunsBefore, CallStays, OrderAccount DEF OrdLookup, OrderPCs
      <4> QED
        BY <4>1, <4>2, OwnerOrdered DEF Live
    <3>2. CASE pc'[q] \in {pc[q], "lost"} /\ call'[q] = call[q] /\ loc'[q] = loc[q]
      BY <1>3, <3>2 DEF RefusalOK, ReplacesOwn
    <3>3. ~Arrive(q)
      BY <1>3, Arrival
    <3> QED
      BY <3>1, <3>2, <3>3, StepCases
  <2>2. PICK a, k : /\ a = call[q].account /\ k = loc'[q].key
                    /\ k.product = loc'[q].product /\ OrderedBy(k, a)
    BY <2>1
  <2>3. OrderedBy(k, a)'
    BY <2>2, OrderedByStays
  <2> QED
    BY <2>1, <2>2, <2>3 DEF OrderedBy
<1> QED
  BY <1>1, <1>2, <1>3 DEF ReplacesOwn

(* As long as the orders of an account do not overlap and every upgrade that
   has revoked the smaller key does mint the bigger one, a product is refused
   only to an account of which an operator or the account itself has withdrawn
   a key for that product, at some time before. *)
THEOREM RefusalsHaveAReason == UpgradesComplete /\ Spec => []RefusedOnlyIfWithdrawn
<1> SUFFICES ASSUME UpgradesComplete PROVE Spec => []RefusedOnlyIfWithdrawn
  OBVIOUS
<1>1. Init => RefusalOK
  <2>1. Init => \A r \in Requests : pc[r] = "idle" /\ reply[r].refused = {}
    BY SMT DEF Init, NoReply, Answer
  <2>2. Init => \A k \in Keys : ~Known(licenses, k)
    BY SMT DEF Init, Known
  <2> QED
    BY <2>1, <2>2 DEF RefusalOK, LostForReason, ReplacesOwn, RefusedForReason, Running, Held
<1>2. TInv /\ OwnersOK /\ OneKeyOK /\ RefusalOK /\ [Next]_vars => RefusalOK'
  <2>1. CASE UNCHANGED vars
    BY <2>1 DEF vars, RefusalOK, LostForReason, ReplacesOwn, RefusedForReason, Running,
       WithdrawnOf, Upgrading, OrderedBy
  <2>2. ASSUME TInv, OwnersOK, OneKeyOK, RefusalOK, Next
        PROVE  RefusalOK'
    BY <2>2, NextLost, NextRefused DEF RefusalOK, OneKeyOK
  <2> QED
    BY <2>1, <2>2
<1>3. RefusalOK => RefusedOnlyIfWithdrawn
  BY DEF RefusalOK, RefusedForReason, WithdrawnOf, OrderedBy, RefusedOnlyIfWithdrawn
<1>4. Spec => []OneKeyOK
  BY OneKeyInvariant DEF UpgradesComplete
<1> QED
  BY <1>1, <1>2, <1>3, <1>4, TypedInvariant, OwnersInvariant, PTL DEF Spec, Typed
=============================================================================
