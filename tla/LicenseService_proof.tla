------------------------ MODULE LicenseService_proof ------------------------
(***************************************************************************)
(* Theorems about LicenseService, for any number of accounts, hosts, keys  *)
(* and requests, any calls, any faults: its types, and what approval and   *)
(* the ownership of keys mean for every request, in any interleaving.      *)
(***************************************************************************)
EXTENDS LicenseService, TLAPS

(* The part of the type invariant that the history takes no part in. *)
StateOK ==
  /\ licenses \in Licenses
  /\ servers \in ServerMap
  /\ accounts \in AccountMap
  /\ pc \in [Requests -> PCs]
  /\ call \in [Requests -> Call]
  /\ loc \in [Requests -> Locals]
  /\ reply \in [Requests -> Reply]
  /\ batch \in [status : {"APPROVED", "REJECTED"}, left : SUBSET Hosts]
  /\ withdrawn \subseteq Keys

-----------------------------------------------------------------------------
(* The store operations map registries to registries. *)

LEMMA BlankType ==
  ASSUME NEW t \in SUBSET Products
  PROVE  Blank(t) \in Locals
  BY SMT DEF Blank, Locals

LEMMA AnswerType ==
  ASSUME NEW what \in Outcomes, NEW b \in BOOLEAN
  PROVE  Answer(what, b) \in Reply
  BY SMT DEF Answer, Reply

LEMMA NoCallType == NoCall \in Call
  BY SMT DEF NoCall, Call, SocketInputs, Levels, ValidLevels

LEMMA NoHistoryType == NoHistory \in History
  BY SMT DEF NoHistory, History

LEMMA GeneratedKeys ==
  ASSUME NEW p, NEW l, NEW s, NEW n
  PROVE  GenerateKey(p, l, s, n) \subseteq Keys
  BY SMT DEF GenerateKey

LEMMA AddLicenseType ==
  ASSUME NEW lics \in Licenses, NEW k \in Keys, NEW s \in Statuses, NEW a \in Accounts \cup {None}
  PROVE  AddLicense(lics, k, s, a) \in Licenses
  BY SMT DEF AddLicense, Licenses, License

LEMMA SetLicenseStatusType ==
  ASSUME NEW lics \in Licenses, NEW k \in Keys, NEW s \in Statuses
  PROVE  SetLicenseStatus(lics, k, s) \in Licenses
  BY SMT DEF SetLicenseStatus, Known, Licenses, License

LEMMA RemoveLicenseType ==
  ASSUME NEW lics \in Licenses, NEW k \in Keys
  PROVE  RemoveLicense(lics, k) \in Licenses
  BY SMT DEF RemoveLicense, Licenses, License

LEMMA UpsertServerType ==
  ASSUME NEW srvs \in ServerMap, NEW h \in Hosts, NEW b \in BOOLEAN
  PROVE  UpsertServer(srvs, h, b) \in ServerMap
  BY SMT DEF UpsertServer, ServerMap, InitialStatus, Statuses

LEMMA SetServerStatusType ==
  ASSUME NEW srvs \in ServerMap, NEW h \in Hosts, NEW s \in Statuses
  PROVE  SetServerStatus(srvs, h, s) \in ServerMap
  BY SMT DEF SetServerStatus, ServerMap

LEMMA RemoveServerType ==
  ASSUME NEW srvs \in ServerMap, NEW h \in Hosts
  PROVE  RemoveServer(srvs, h) \in ServerMap
  BY SMT DEF RemoveServer, ServerMap

LEMMA AccountTypes ==
  ASSUME NEW accs \in AccountMap, NEW a \in Accounts, NEW s \in Statuses
  PROVE  /\ UpsertAccount(accs, a, s) \in AccountMap
         /\ SetAccountStatus(accs, a, s) \in AccountMap
  BY SMT DEF UpsertAccount, SetAccountStatus, AccountMap

-----------------------------------------------------------------------------
(***************************************************************************)
(* Where a request stands says what it runs: the handlers never mix, and   *)
(* the locals a step reads are set.  TypeOK is inductive together with it. *)
(***************************************************************************)
OrderPCs == {"ord_gate", "ord_lookup", "ord_revoke", "ord_mint"}

ControlOK ==
  \A r \in Requests :
    /\ pc[r] # "idle" => call[r] \in Calls
    /\ pc[r] \in {"reg_read", "reg_write"} => call[r].kind = "register"
    /\ pc[r] = "reg_write" => loc[r].status \in Statuses
    /\ pc[r] \in OrderPCs => call[r].kind = "order"
    /\ pc[r] \in OrderPCs \ {"ord_gate"} => loc[r].product \in loc[r].todo
    /\ pc[r] = "ord_revoke" => loc[r].key \in Keys
    /\ pc[r] \in {"rev_get", "rev_set"} => call[r].kind = "revoke"
    /\ pc[r] \in {"ver_upsert", "ver_get"} => call[r].kind = "verify"

TInv == StateOK /\ ControlOK

(* Settling a product writes a well-formed answer and stays in the order. *)
LEMMA SettleType ==
  ASSUME TInv, NEW r \in Requests, NEW p \in Products, NEW answer \in Reply,
         pc[r] \in OrderPCs, Settle(r, p, answer)
  PROVE  /\ pc' \in [Requests -> PCs]
         /\ loc' \in [Requests -> Locals]
         /\ reply' \in [Requests -> Reply]
         /\ pc'[r] \in {"done", "ord_gate"}
         /\ \A q \in Requests : q # r => pc'[q] = pc[q] /\ loc'[q] = loc[q]
<1>1. Blank(loc[r].todo \ {p}) \in Locals
  <2>1. loc[r].todo \ {p} \in SUBSET Products
    BY SMT DEF TInv, StateOK, Locals
  <2> QED
    BY <2>1, BlankType
<1>2. [answer EXCEPT !.outcome = "ordered"] \in Reply
  BY SMT DEF Reply, Outcomes
<1>3. pc' \in [Requests -> PCs] /\ pc'[r] \in {"done", "ord_gate"}
  <2> DEFINE next == IF loc[r].todo \ {p} = {} THEN "done" ELSE "ord_gate"
  <2>1. next \in {"done", "ord_gate"}
    OBVIOUS
  <2>2. pc' = [pc EXCEPT ![r] = next]
    BY DEF Settle, Goto
  <2> HIDE DEF next
  <2> QED
    BY <2>1, <2>2, SMT DEF TInv, StateOK, PCs
<1> QED
  BY <1>1, <1>2, <1>3, SMT DEF TInv, StateOK, Settle, Goto

LEMMA ArriveType ==
  ASSUME TInv, NEW r \in Requests, Arrive(r)
  PROVE  TInv'
<1>1. PICK c \in Calls : /\ call' = [call EXCEPT ![r] = c]
                         /\ loc' = [loc EXCEPT ![r] = Blank(c.products)]
                         /\ pc' = [pc EXCEPT ![r] = Entry(c)]
  BY DEF Arrive
<1>2. c \in Call /\ c.kind # "none" /\ WellFormed(c)
  BY ServiceAssumption
<1>3. Blank(c.products) \in Locals
  BY <1>2, BlankType, SMT DEF Call
<1>4. /\ Entry(c) \in PCs
      /\ Entry(c) \in {"reg_read", "reg_write"} => c.kind = "register"
      /\ Entry(c) # "reg_write"
      /\ Entry(c) \in OrderPCs => Entry(c) = "ord_gate" /\ c.kind = "order"
      /\ Entry(c) \in {"rev_get", "rev_set"} => c.kind = "revoke"
      /\ Entry(c) \in {"ver_upsert", "ver_get"} => c.kind = "verify"
  <2>1. c.kind \in {"register", "order", "revoke", "verify"}
    BY <1>2, SMT DEF Call
  <2>2. CASE c.kind = "register"
    BY <2>2, SMT DEF Entry, PCs, OrderPCs
  <2>3. CASE c.kind = "order"
    BY <2>3, SMT DEF Entry, PCs, OrderPCs
  <2>4. CASE c.kind = "revoke"
    BY <2>4, SMT DEF Entry, PCs, OrderPCs
  <2>5. CASE c.kind = "verify"
    BY <2>5, SMT DEF Entry, PCs, OrderPCs
  <2> QED
    BY <2>1, <2>2, <2>3, <2>4, <2>5
<1>5. StateOK'
  BY <1>1, <1>2, <1>3, <1>4, SMT DEF Arrive, TInv, StateOK, registry
<1>6. ControlOK'
  <2> SUFFICES ASSUME NEW q \in Requests PROVE ControlOK!(q)'
    BY DEF ControlOK
  <2> QED
    BY <1>1, <1>2, <1>4, SMT DEF TInv, StateOK, ControlOK, OrderPCs
<1> QED
  BY <1>5, <1>6 DEF TInv

(* A step that moves only request r, to a place its call may be in, keeps TInv. *)
LEMMA MoveType ==
  ASSUME TInv, NEW r \in Requests, StateOK', call' = call,
         \A q \in Requests : q # r => pc'[q] = pc[q] /\ loc'[q] = loc[q],
         ControlOK!(r)'
  PROVE  TInv'
BY SMT DEF TInv, ControlOK

LEMMA RegisterType ==
  ASSUME TInv, NEW r \in Requests, RegRead(r) \/ RegWrite(r)
  PROVE  TInv'
<1>1. call[r] \in Call /\ call[r] \in Calls /\ call[r].kind = "register"
  BY SMT DEF TInv, StateOK, ControlOK, RegRead, RegWrite
<1>2. call[r].account \in Accounts /\ call[r].auto \in BOOLEAN
  BY <1>1, ServiceAssumption, SMT DEF WellFormed, Call
<1>3. CASE RegRead(r)
  <2>1. PICK status \in Statuses : /\ loc' = [loc EXCEPT ![r].status = status]
                                   /\ pc' = [pc EXCEPT ![r] = "reg_write"]
    BY <1>2, <1>3, SMT DEF RegRead, Goto, InitialStatus, Statuses, TInv, StateOK, AccountMap
  <2>2. StateOK'
    <3>1. loc' \in [Requests -> Locals]
      BY <2>1, SMT DEF TInv, StateOK, Locals
    <3>2. pc' \in [Requests -> PCs]
      BY <2>1, SMT DEF TInv, StateOK, PCs
    <3> QED
      BY <1>3, <3>1, <3>2 DEF RegRead, TInv, StateOK, registry
  <2>3. ControlOK!(r)'
    BY <1>1, <1>3, <2>1, SMT DEF RegRead, TInv, StateOK, Locals, OrderPCs
  <2> QED
    BY <1>3, <2>1, <2>2, <2>3, MoveType, SMT DEF RegRead, TInv, StateOK
<1>4. CASE RegWrite(r)
  <2>1. loc[r].status \in Statuses
    BY <1>4, SMT DEF RegWrite, TInv, ControlOK
  <2>2. accounts' \in AccountMap
    BY <1>2, <1>4, <2>1, AccountTypes DEF RegWrite, TInv, StateOK
  <2>3. Outcome("registered") \in Reply /\ Outcome("error") \in Reply
    BY AnswerType DEF Outcome, Outcomes
  <2>4. StateOK'
    BY <1>4, <2>2, <2>3, SMT DEF RegWrite, Finish, Goto, TInv, StateOK, PCs
  <2>5. pc' = [pc EXCEPT ![r] = "done"] /\ call' = call /\ loc' = loc
    BY <1>4 DEF RegWrite, Finish, Goto
  <2>6. ControlOK!(r)'
    BY <1>1, <2>5, SMT DEF TInv, StateOK, OrderPCs
  <2> QED
    BY <2>4, <2>5, <2>6, MoveType, SMT DEF TInv, StateOK
<1> QED
  BY <1>3, <1>4

LEMMA OrderType ==
  ASSUME TInv, NEW r \in Requests,
         OrdGate(r) \/ OrdLookup(r) \/ OrdRevoke(r) \/ OrdMint(r)
  PROVE  TInv'
<1>1. /\ call[r] \in Call /\ call[r] \in Calls /\ call[r].kind = "order"
      /\ loc[r] \in Locals /\ reply[r] \in Reply
      /\ pc[r] \in OrderPCs
  BY SMT DEF TInv, StateOK, ControlOK, OrdGate, OrdLookup, OrdRevoke, OrdMint, OrderPCs
<1>2. call[r].account \in Accounts
  BY <1>1, ServiceAssumption, SMT DEF WellFormed
<1>3. /\ \A k \in Keys : [reply[r] EXCEPT !.issued = @ \cup {k}] \in Reply
      /\ \A p \in Products : /\ [reply[r] EXCEPT !.pending = @ \cup {p}] \in Reply
                            /\ [reply[r] EXCEPT !.refused = @ \cup {p}] \in Reply
                            /\ [reply[r] EXCEPT !.failed = @ \cup {p}] \in Reply
  BY <1>1, SMT DEF Reply
<1>4. \A k \in Keys : k.product \in Products
  BY SubscriptionAssumption, SMT DEF Keys
(* A product that is settled by one of the four answers. *)
<1>5. ASSUME licenses' \in Licenses,
             UNCHANGED <<servers, accounts, call, batch, withdrawn>>,
             \/ \E k \in Keys : Issue(r, k)
             \/ \E p \in Products : Pend(r, p) \/ Refuse(r, p) \/ Fail(r, p)
      PROVE  TInv'
  <2>1. PICK p \in Products, answer \in Reply : Settle(r, p, answer)
    <3>1. CASE \E k \in Keys : Issue(r, k)
      BY <1>3, <1>4, <3>1 DEF Issue
    <3>2. CASE \E p \in Products : Pend(r, p)
      BY <1>3, <3>2 DEF Pend
    <3>3. CASE \E p \in Products : Refuse(r, p)
      BY <1>3, <3>3 DEF Refuse
    <3>4. CASE \E p \in Products : Fail(r, p)
      BY <1>3, <3>4 DEF Fail
    <3> QED
      BY <1>5, <3>1, <3>2, <3>3, <3>4
  <2>2. /\ pc' \in [Requests -> PCs]
        /\ loc' \in [Requests -> Locals]
        /\ reply' \in [Requests -> Reply]
        /\ pc'[r] \in {"done", "ord_gate"}
        /\ \A q \in Requests : q # r => pc'[q] = pc[q] /\ loc'[q] = loc[q]
    BY <1>1, <2>1, SettleType
  <2>3. StateOK'
    BY <1>5, <2>2 DEF TInv, StateOK
  <2>4. ControlOK!(r)'
    BY <1>1, <1>5, <2>2, SMT DEF OrderPCs
  <2> QED
    BY <1>5, <2>2, <2>3, <2>4, MoveType
<1>6. CASE OrdGate(r)
  <2>1. PICK p \in loc[r].todo :
          \/ /\ loc' = [loc EXCEPT ![r].product = p]
             /\ pc' = [pc EXCEPT ![r] = "ord_lookup"]
             /\ UNCHANGED reply
          \/ Pend(r, p) \/ Fail(r, p)
    BY <1>6 DEF OrdGate, Goto
  <2>2. p \in Products
    BY <1>1, SMT DEF Locals
  <2>3. CASE Pend(r, p) \/ Fail(r, p)
    BY <1>5, <1>6, <2>2, <2>3 DEF OrdGate, registry, TInv, StateOK
  <2>4. CASE /\ loc' = [loc EXCEPT ![r].product = p]
             /\ pc' = [pc EXCEPT ![r] = "ord_lookup"]
             /\ UNCHANGED reply
    <3>1. StateOK'
      <4>1. loc' \in [Requests -> Locals]
        BY <2>2, <2>4, SMT DEF TInv, StateOK, Locals
      <4>2. pc' \in [Requests -> PCs]
        BY <2>4, SMT DEF TInv, StateOK, PCs
      <4> QED
        BY <1>6, <2>4, <4>1, <4>2 DEF OrdGate, registry, TInv, StateOK
    <3>2. ControlOK!(r)'
      BY <1>1, <1>6, <2>1, <2>4, SMT DEF OrdGate, TInv, StateOK, Locals, OrderPCs
    <3> QED
      BY <1>6, <2>4, <3>1, <3>2, MoveType, SMT DEF OrdGate, TInv, StateOK
  <2> QED
    BY <2>1, <2>3, <2>4
<1>7. ASSUME pc[r] \in OrderPCs \ {"ord_gate"}
      PROVE  loc[r].product \in Products /\ loc[r].product \in loc[r].todo
  BY <1>1, <1>7, SMT DEF TInv, ControlOK, Locals
(* A step on to the next store call for the same product. *)
<1>8. ASSUME licenses' \in Licenses,
             UNCHANGED <<servers, accounts, call, batch, withdrawn, reply>>,
             pc[r] \in OrderPCs \ {"ord_gate"},
             \/ /\ \E k \in Keys : loc' = [loc EXCEPT ![r].key = k]
                /\ pc' = [pc EXCEPT ![r] = "ord_revoke"]
             \/ loc' = loc /\ pc' = [pc EXCEPT ![r] = "ord_mint"]
      PROVE  TInv'
  <2>1. StateOK'
    <3>1. loc' \in [Requests -> Locals]
      BY <1>8, SMT DEF TInv, StateOK, Locals
    <3>2. pc' \in [Requests -> PCs]
      BY <1>8, SMT DEF TInv, StateOK, PCs
    <3> QED
      BY <1>8, <3>1, <3>2 DEF TInv, StateOK
  <2>2. ControlOK!(r)'
    BY <1>1, <1>7, <1>8, SMT DEF TInv, StateOK, Locals, OrderPCs
  <2> QED
    BY <1>8, <2>1, <2>2, MoveType, SMT DEF TInv, StateOK
<1>9. CASE OrdLookup(r)
  <2> DEFINE p == loc[r].product
             live == Live(licenses, call[r].account, p)
  <2>1. live \subseteq Keys
    BY DEF Live, Held
  <2>2. p \in Products /\ pc[r] \in OrderPCs \ {"ord_gate"}
    BY <1>7, <1>9 DEF OrdLookup, OrderPCs
  <2>3. \/ \E k \in live : Issue(r, k)
        \/ \E k \in live : /\ loc' = [loc EXCEPT ![r].key = k]
                           /\ pc' = [pc EXCEPT ![r] = "ord_revoke"]
                           /\ UNCHANGED reply
        \/ Refuse(r, p) \/ Fail(r, p)
        \/ pc' = [pc EXCEPT ![r] = "ord_mint"] /\ UNCHANGED <<loc, reply>>
    BY <1>9 DEF OrdLookup, Goto
  <2>4. licenses' \in Licenses /\ UNCHANGED <<servers, accounts, call, batch, withdrawn>>
    BY <1>9 DEF OrdLookup, registry, TInv, StateOK
  <2> HIDE DEF p, live
  <2> QED
    BY <1>5, <1>8, <2>1, <2>2, <2>3, <2>4
<1>10. CASE OrdRevoke(r)
  <2>1. loc[r].product \in Products /\ pc[r] \in OrderPCs \ {"ord_gate"} /\ loc[r].key \in Keys
    BY <1>7, <1>10 DEF OrdRevoke, OrderPCs, TInv, ControlOK
  <2>2. licenses' \in Licenses
    BY <1>10, <2>1, SetLicenseStatusType DEF OrdRevoke, TInv, StateOK, Statuses
  <2> QED
    BY <1>5, <1>8, <1>10, <2>1, <2>2 DEF OrdRevoke, Goto
<1>11. CASE OrdMint(r)
  <2>1. loc[r].product \in Products
    BY <1>7, <1>11 DEF OrdMint, OrderPCs
  <2>2. GenerateKey(loc[r].product, call[r].level, call[r].sockets, r) \subseteq Keys
    BY GeneratedKeys
  <2>3. licenses' \in Licenses
    BY <1>2, <1>11, <2>2, AddLicenseType DEF OrdMint, TInv, StateOK, Statuses
  <2> QED
    BY <1>5, <1>11, <2>1, <2>2, <2>3 DEF OrdMint
<1> QED
  BY <1>6, <1>9, <1>10, <1>11

(* A handler that returns leaves the locals alone and writes its answer. *)
LEMMA FinishType ==
  ASSUME TInv, NEW r \in Requests, NEW answer \in Reply, Finish(r, answer), pc[r] # "idle",
         licenses' \in Licenses, withdrawn' \subseteq Keys,
         UNCHANGED <<servers, accounts, call, loc, batch>>
  PROVE  TInv'
<1>1. StateOK'
  BY SMT DEF Finish, Goto, TInv, StateOK, PCs
<1>2. pc' = [pc EXCEPT ![r] = "done"]
  BY DEF Finish, Goto
<1>3. pc[r] # "idle" => call[r] \in Calls
  BY DEF TInv, ControlOK
<1>4. ControlOK!(r)'
  BY <1>2, <1>3, SMT DEF TInv, StateOK, OrderPCs
<1> QED
  BY <1>1, <1>2, <1>4, MoveType, SMT DEF TInv, StateOK

LEMMA RevokeType ==
  ASSUME TInv, NEW r \in Requests, RevGet(r) \/ RevSet(r)
  PROVE  TInv'
<1>1. call[r] \in Call /\ call[r] \in Calls /\ call[r].kind = "revoke"
  BY SMT DEF TInv, StateOK, ControlOK, RevGet, RevSet
<1>2. call[r].key \in Keys
  BY <1>1, ServiceAssumption, SMT DEF WellFormed
<1>3. \A what \in Outcomes : Outcome(what) \in Reply
  BY AnswerType DEF Outcome
<1>4. CASE RevGet(r)
  <2>1. \/ pc' = [pc EXCEPT ![r] = "rev_set"] /\ UNCHANGED reply
        \/ \E what \in Outcomes : Finish(r, Outcome(what))
    BY <1>4, SMT DEF RevGet, Goto, Outcomes
  <2>2. CASE \E what \in Outcomes : Finish(r, Outcome(what))
    BY <1>3, <1>4, <2>2, FinishType DEF RevGet, registry, TInv, StateOK
  <2>3. CASE pc' = [pc EXCEPT ![r] = "rev_set"] /\ UNCHANGED reply
    <3>1. StateOK'
      BY <1>4, <2>3, SMT DEF RevGet, registry, TInv, StateOK, PCs
    <3>2. ControlOK!(r)'
      BY <1>1, <1>4, <2>3, SMT DEF RevGet, TInv, StateOK, OrderPCs
    <3> QED
      BY <1>4, <2>3, <3>1, <3>2, MoveType, SMT DEF RevGet, TInv, StateOK
  <2> QED
    BY <2>1, <2>2, <2>3
<1>5. CASE RevSet(r)
  <2>1. licenses' \in Licenses /\ withdrawn' \subseteq Keys
    BY <1>2, <1>5, SetLicenseStatusType DEF RevSet, TInv, StateOK, Statuses
  <2>2. \E what \in Outcomes : Finish(r, Outcome(what))
    BY <1>5, SMT DEF RevSet, Outcomes
  <2> QED
    BY <1>3, <1>5, <2>1, <2>2, FinishType DEF RevSet
<1> QED
  BY <1>4, <1>5

LEMMA VerdictType ==
  ASSUME NEW host, NEW status, NEW license, NEW b
  PROVE  Verdict(host, status, license, b) \in Reply
<1> DEFINE known == license # None
           invalidated == known /\ ~ActiveStatus(license.status)
           authorized == host # None /\ (status = "APPROVED" \/ (known /\ license.account # None))
           what == IF authorized /\ ~invalidated THEN "active" ELSE "inactive"
           reported == ~invalidated /\ ~authorized /\ b
<1>1. what \in Outcomes
  BY DEF Outcomes
<1>2. reported \in BOOLEAN
  OBVIOUS
<1>3. Verdict(host, status, license, b) = Answer(what, reported)
  BY DEF Verdict
<1> HIDE DEF what, reported
<1> QED
  BY <1>1, <1>2, <1>3, AnswerType

LEMMA VerifyType ==
  ASSUME TInv, NEW r \in Requests, VerUpsert(r) \/ VerGet(r)
  PROVE  TInv'
<1>1. call[r] \in Call /\ call[r] \in Calls /\ call[r].kind = "verify"
  BY SMT DEF TInv, StateOK, ControlOK, VerUpsert, VerGet
<1>2. call[r].key \in Keys /\ call[r].host \in Hosts \cup {None} /\ call[r].auto \in BOOLEAN
  BY <1>1, ServiceAssumption, SMT DEF WellFormed, Call
<1>3. CASE VerUpsert(r)
  <2>1. servers' \in ServerMap
    BY <1>2, <1>3, UpsertServerType DEF VerUpsert, TInv, StateOK
  <2>2. PICK status \in Statuses \cup {None}, failed \in BOOLEAN :
          /\ loc' = [loc EXCEPT ![r] = [@ EXCEPT !.status = status, !.regErr = failed]]
          /\ pc' = [pc EXCEPT ![r] = "ver_get"]
    <3>1. CASE call[r].host = None
      BY <1>3, <3>1 DEF VerUpsert, Goto
    <3>2. CASE call[r].host # None
      <4>1. servers'[call[r].host] \in Statuses \cup {None}
        BY <1>2, <2>1, <3>2 DEF ServerMap
      <4> QED
        BY <1>3, <3>2, <4>1 DEF VerUpsert, Goto
    <3> QED
      BY <3>1, <3>2
  <2>3. loc' \in [Requests -> Locals]
    <3> DEFINE half == [loc[r] EXCEPT !.status = status]
               new == [loc[r] EXCEPT !.status = status, !.regErr = failed]
    <3>0. half \in Locals
      BY SMT DEF TInv, StateOK, Locals
    <3>1. new \in Locals
      <4>1. [half EXCEPT !.regErr = failed] \in Locals
        <5> HIDE DEF half
        <5> QED
          BY <3>0, SMT DEF Locals
      <4> QED
        BY <4>1
    <3> QED
      BY <2>2, <3>1, SMT DEF TInv, StateOK
  <2>4. pc' \in [Requests -> PCs]
    BY <2>2, SMT DEF TInv, StateOK, PCs
  <2>5. StateOK'
    BY <1>3, <2>1, <2>3, <2>4 DEF VerUpsert, TInv, StateOK
  <2>6. ControlOK!(r)'
    BY <1>1, <1>3, <2>2, SMT DEF VerUpsert, TInv, StateOK, OrderPCs
  <2> QED
    BY <1>3, <2>2, <2>5, <2>6, MoveType, SMT DEF VerUpsert, TInv, StateOK
<1>4. CASE VerGet(r)
  <2>1. \E answer \in Reply : Finish(r, answer)
    BY <1>4, VerdictType DEF VerGet
  <2> QED
    BY <1>4, <2>1, FinishType DEF VerGet, registry, TInv, StateOK
<1> QED
  BY <1>3, <1>4

LEMMA OperatorType ==
  ASSUME TInv, Operator
  PROVE  TInv'
<1>1. UNCHANGED requestState
  BY DEF Operator, AdminAccount, AdminHost, AdminRemoveHost, AdminAdd, AdminGenerate,
         AdminRevoke, AdminRemove, BatchList, BatchSet
<1>2. ControlOK'
  BY <1>1 DEF TInv, ControlOK, requestState
<1>3. /\ licenses \in Licenses /\ servers \in ServerMap /\ accounts \in AccountMap
      /\ batch \in [status : {"APPROVED", "REJECTED"}, left : SUBSET Hosts]
      /\ withdrawn \subseteq Keys
  BY DEF TInv, StateOK
<1>4. {"APPROVED", "BLOCKED", "REJECTED", "REVOKED"} \subseteq Statuses
  BY DEF Statuses
<1> SUFFICES StateOK'
  BY <1>2 DEF TInv
<1>5. CASE AdminAccount
  BY <1>1, <1>3, <1>4, <1>5, AccountTypes DEF AdminAccount, TInv, StateOK, requestState
<1>6. CASE AdminHost
  BY <1>1, <1>3, <1>4, <1>6, SetServerStatusType DEF AdminHost, TInv, StateOK, requestState
<1>7. CASE AdminRemoveHost
  BY <1>1, <1>3, <1>7, RemoveServerType DEF AdminRemoveHost, TInv, StateOK, requestState
<1>8. CASE AdminAdd
  BY <1>1, <1>3, <1>8, AddLicenseType, ServiceAssumption
     DEF AdminAdd, TInv, StateOK, requestState
<1>9. CASE AdminGenerate
  <2>1. PICK k \in Keys : licenses' = AddLicense(licenses, k, "APPROVED", None)
    BY <1>9, GeneratedKeys DEF AdminGenerate
  <2>2. licenses' \in Licenses
    BY <1>3, <1>4, <2>1, AddLicenseType
  <2> QED
    BY <1>1, <1>9, <2>2 DEF AdminGenerate, TInv, StateOK, requestState
<1>10. CASE AdminRevoke
  BY <1>1, <1>3, <1>4, <1>10, SetLicenseStatusType
     DEF AdminRevoke, TInv, StateOK, requestState
<1>11. CASE AdminRemove
  BY <1>1, <1>3, <1>11, RemoveLicenseType DEF AdminRemove, TInv, StateOK, requestState
<1>12. CASE BatchList
  <2>1. batch' \in [status : {"APPROVED", "REJECTED"}, left : SUBSET Hosts]
    BY <1>12, SMT DEF BatchList
  <2> QED
    BY <1>1, <1>12, <2>1 DEF BatchList, TInv, StateOK, requestState, registry
<1>13. CASE BatchSet
  <2>1. batch' \in [status : {"APPROVED", "REJECTED"}, left : SUBSET Hosts]
    BY <1>3, <1>13, SMT DEF BatchSet
  <2>2. \A h \in Hosts : SetServerStatus(servers, h, batch.status) \in ServerMap
    <3>1. batch.status \in Statuses /\ batch.left \subseteq Hosts
      BY <1>3, <1>4, SMT
    <3> QED
      BY <1>3, <3>1, SetServerStatusType
  <2>3. servers' \in ServerMap
    BY <1>3, <1>13, <2>2, SMT DEF BatchSet
  <2> QED
    BY <1>1, <1>13, <2>1, <2>3 DEF BatchSet, TInv, StateOK, requestState
<1> QED
  BY <1>5, <1>6, <1>7, <1>8, <1>9, <1>10, <1>11, <1>12, <1>13 DEF Operator

LEMMA RestartType ==
  ASSUME TInv, Restart
  PROVE  TInv'
<1>1. pc' = [q \in Requests |-> IF Running(q) THEN "lost" ELSE pc[q]]
  BY DEF Restart
<1>2. pc' \in [Requests -> PCs]
  BY <1>1, SMT DEF TInv, StateOK, PCs
<1>3. StateOK'
  BY <1>2 DEF Restart, TInv, StateOK, registry
<1>4. ControlOK'
  BY <1>1, SMT DEF Restart, TInv, ControlOK, OrderPCs, Running
<1> QED
  BY <1>3, <1>4 DEF TInv

-----------------------------------------------------------------------------
(* The history stays a history. *)

LEMMA FactTypes ==
  ASSUME NEW c \in Call, NEW lics, NEW srvs, NEW accs
  PROVE  /\ Dark(c, lics) \in BOOLEAN
         /\ Bright(c, lics) \in BOOLEAN
         /\ Entitled(c, lics, srvs) \in BOOLEAN
         /\ ApprovedAccount(c, accs) \in BOOLEAN
         /\ Barred(c, lics) \in SUBSET Products
         /\ Covered(c, lics) \in SUBSET Products
<1>1. c.products \subseteq Products
  BY SMT DEF Call
<1>2. Barred(c, lics) \subseteq c.products /\ Covered(c, lics) \subseteq c.products
  BY DEF Barred, Covered
<1>3. Dark(c, lics) \in BOOLEAN /\ Bright(c, lics) \in BOOLEAN
  BY DEF Dark, Bright
<1>4. Entitled(c, lics, srvs) \in BOOLEAN /\ ApprovedAccount(c, accs) \in BOOLEAN
  BY DEF Entitled, ApprovedAccount
<1> QED
  BY <1>1, <1>2, <1>3, <1>4

LEMMA ObserveType ==
  ASSUME StateOK, StateOK', since \in [Requests -> History], NEW self, Observe(self)
  PROVE  since' \in [Requests -> History]
<1>1. ASSUME NEW r \in Requests
      PROVE  Arrived(call'[r]) \in History
  <2>1. call'[r] \in Call
    BY DEF StateOK
  <2> QED
    BY <2>1, FactTypes, SMT DEF Arrived, History
<1>2. ASSUME NEW r \in Requests
      PROVE  Witnessed(r, r = self) \in History
  <2>1. call[r] \in Call /\ since[r] \in History
    BY DEF StateOK
  <2>2. Standing(call[r]) \in BOOLEAN
    BY DEF Standing
  <2> DEFINE c == call[r]
             old == since[r]
             kept(set, now) == IF r = self THEN set ELSE set \cap now
             b1 == old.dark /\ (r = self \/ Dark(c, licenses'))
             b2 == old.bright /\ (r = self \/ Bright(c, licenses'))
             b3 == old.standing /\ (r = self \/ Standing(c))
             b4 == old.entitled \/ Entitled(c, licenses', servers')
             b5 == old.approved \/ ApprovedAccount(c, accounts')
             s1 == kept(old.barred, Barred(c, licenses'))
             s2 == kept(old.covered, Covered(c, licenses'))
  <2>3. /\ b1 \in BOOLEAN /\ b2 \in BOOLEAN /\ b3 \in BOOLEAN
        /\ b4 \in BOOLEAN /\ b5 \in BOOLEAN
    OBVIOUS
  <2>4. s1 \in SUBSET Products /\ s2 \in SUBSET Products
    BY <2>1, SMT DEF History
  <2>5. Witnessed(r, r = self) =
          [dark |-> b1, bright |-> b2, standing |-> b3, entitled |-> b4,
           approved |-> b5, barred |-> s1, covered |-> s2]
    BY DEF Witnessed
  <2> HIDE DEF b1, b2, b3, b4, b5, s1, s2
  <2> QED
    BY <2>3, <2>4, <2>5 DEF History
<1>3. \A r \in Requests : since[r] \in History
  OBVIOUS
<1> QED
  BY <1>1, <1>2, <1>3 DEF Observe

-----------------------------------------------------------------------------
LEMMA InitType == Init => TInv /\ since \in [Requests -> History]
<1> SUFFICES ASSUME Init PROVE TInv /\ since \in [Requests -> History]
  OBVIOUS
<1>1. Blank({}) \in Locals
  BY BlankType
<1>2. NoReply \in Reply
  BY AnswerType DEF NoReply, Outcomes
<1>3. StateOK
  BY <1>1, <1>2, NoCallType, SMT
     DEF Init, StateOK, Licenses, ServerMap, AccountMap, PCs, Statuses
<1>4. ControlOK
  BY SMT DEF Init, ControlOK, OrderPCs
<1> QED
  BY <1>3, <1>4, NoHistoryType DEF Init, TInv

LEMMA NextType ==
  ASSUME TInv, since \in [Requests -> History], [Next]_vars
  PROVE  TInv' /\ since' \in [Requests -> History]
<1>1. CASE UNCHANGED vars
  <2>1. StateOK' /\ since' \in [Requests -> History]
    BY <1>1 DEF TInv, StateOK, vars
  <2>2. ControlOK'
    BY <1>1 DEF TInv, ControlOK, vars
  <2> QED
    BY <2>1, <2>2 DEF TInv
<1>2. ASSUME NEW self, Observe(self), TInv'
      PROVE  since' \in [Requests -> History]
  BY <1>2, ObserveType DEF TInv
<1>3. ASSUME NEW r \in Requests, Arrive(r) \/ Step(r)
      PROVE  TInv'
  BY <1>3, ArriveType, RegisterType, OrderType, RevokeType, VerifyType DEF Step
<1>4. Operator \/ Restart => TInv'
  BY OperatorType, RestartType
<1> QED
  BY <1>1, <1>2, <1>3, <1>4 DEF Next

(* Every variable keeps its type, whatever arrives, fails or is decided. *)
THEOREM TypeCorrect == Spec => []TypeOK
<1> DEFINE I == TInv /\ since \in [Requests -> History]
<1>1. Init => I
  BY InitType
<1>2. I /\ [Next]_vars => I'
  BY NextType
<1>3. I => TypeOK
  BY DEF TInv, StateOK, TypeOK
<1> QED
  BY <1>1, <1>2, <1>3, PTL DEF Spec

-----------------------------------------------------------------------------
Typed == TInv /\ since \in [Requests -> History]

LEMMA TypedInvariant == Spec => []Typed
<1>1. Init => Typed
  BY InitType DEF Typed
<1>2. Typed /\ [Next]_vars => Typed'
  BY NextType DEF Typed
<1> QED
  BY <1>1, <1>2, PTL DEF Spec

-----------------------------------------------------------------------------
(* What a step changes *)

LEMMA StepMoves ==
  ASSUME NEW r, Step(r)
  PROVE  \E s \in PCs \ {"idle"} : pc' = [pc EXCEPT ![r] = s]
<1>1. ASSUME NEW s \in PCs \ {"idle"}, Goto(r, s)
      PROVE  \E q \in PCs \ {"idle"} : pc' = [pc EXCEPT ![r] = q]
  BY <1>1 DEF Goto
<1>2. /\ "reg_write" \in PCs /\ "ord_gate" \in PCs /\ "ord_lookup" \in PCs
      /\ "ord_revoke" \in PCs /\ "ord_mint" \in PCs /\ "rev_set" \in PCs
      /\ "ver_get" \in PCs /\ "done" \in PCs
  BY DEF PCs
<1>3. ASSUME NEW p, NEW answer, Settle(r, p, answer)
      PROVE  \E q \in PCs \ {"idle"} : pc' = [pc EXCEPT ![r] = q]
  <2>1. Goto(r, "done") \/ Goto(r, "ord_gate")
    BY <1>3 DEF Settle
  <2> QED
    BY <1>1, <1>2, <2>1
<1>4. CASE OrdGate(r) \/ OrdLookup(r) \/ OrdRevoke(r) \/ OrdMint(r)
  <2>1. \/ \E p, answer : Settle(r, p, answer)
        \/ Goto(r, "ord_lookup") \/ Goto(r, "ord_revoke") \/ Goto(r, "ord_mint")
    BY <1>4 DEF OrdGate, OrdLookup, OrdRevoke, OrdMint, Issue, Pend, Refuse, Fail
  <2> QED
    BY <1>1, <1>2, <1>3, <2>1
<1>5. CASE RegRead(r) \/ RegWrite(r) \/ RevGet(r) \/ RevSet(r) \/ VerUpsert(r) \/ VerGet(r)
  <2>1. Goto(r, "reg_write") \/ Goto(r, "rev_set") \/ Goto(r, "ver_get") \/ Goto(r, "done")
    BY <1>5 DEF RegRead, RegWrite, RevGet, RevSet, VerUpsert, VerGet, Finish
  <2> QED
    BY <1>1, <1>2, <2>1
<1> QED
  BY <1>4, <1>5 DEF Step

(* A request works on its own entries only. *)
LEMMA OthersStay ==
  ASSUME TInv, NEW r \in Requests, Arrive(r) \/ Step(r), NEW q \in Requests, q # r
  PROVE  pc'[q] = pc[q] /\ call'[q] = call[q] /\ reply'[q] = reply[q]
<1>1. \E s : pc' = [pc EXCEPT ![r] = s]
  BY StepMoves DEF Arrive
<1>2. call' = call \/ \E c : call' = [call EXCEPT ![r] = c]
  BY DEF Arrive, Step, RegRead, RegWrite, OrdGate, OrdLookup, OrdRevoke, OrdMint,
         RevGet, RevSet, VerUpsert, VerGet
<1>3. reply' = reply \/ \E a : reply' = [reply EXCEPT ![r] = a]
  BY DEF Arrive, Step, RegRead, RegWrite, OrdGate, OrdLookup, OrdRevoke, OrdMint,
         Issue, Pend, Refuse, Fail, Settle, RevGet, RevSet, VerUpsert, VerGet, Finish
<1> QED
  BY <1>1, <1>2, <1>3, SMT DEF TInv, StateOK

(* A request that arrived keeps its call. *)
LEMMA CallStays ==
  ASSUME TInv, [Next]_vars, NEW q \in Requests, pc[q] # "idle"
  PROVE  call'[q] = call[q] /\ pc'[q] # "idle"
<1>1. CASE UNCHANGED vars
  BY <1>1 DEF vars
<1>2. CASE Operator
  <2>1. UNCHANGED requestState
    BY <1>2 DEF Operator, AdminAccount, AdminHost, AdminRemoveHost, AdminAdd, AdminGenerate,
         AdminRevoke, AdminRemove, BatchList, BatchSet
  <2> QED
    BY <2>1 DEF requestState
<1>3. CASE Restart
  BY <1>3, SMT DEF Restart
<1>4. ASSUME NEW r \in Requests, Arrive(r) \/ Step(r)
      PROVE  call'[q] = call[q] /\ pc'[q] # "idle"
  <2>1. CASE q # r
    BY <1>4, <2>1, OthersStay
  <2>2. CASE q = r
    <3>1. Step(r)
      BY <1>4, <2>2 DEF Arrive
    <3>2. call' = call
      BY <3>1 DEF Step, RegRead, RegWrite, OrdGate, OrdLookup, OrdRevoke, OrdMint,
         RevGet, RevSet, VerUpsert, VerGet
    <3>3. \E s \in PCs \ {"idle"} : pc' = [pc EXCEPT ![r] = s]
      BY <3>1, StepMoves
    <3> QED
      BY <2>2, <3>2, <3>3, SMT DEF TInv, StateOK
  <2> QED
    BY <2>1, <2>2
<1> QED
  BY <1>1, <1>2, <1>3, <1>4 DEF Next

(* An answer gains a key only by the lookup of an account's own key or by a
   mint of the request itself. *)
LEMMA IssuedHow ==
  ASSUME TInv, NEW r \in Requests, Step(r), NEW k \in reply'[r].issued
  PROVE  \/ k \in reply[r].issued
         \/ /\ OrdLookup(r)
            /\ k \in Live(licenses, call[r].account, loc[r].product)
            /\ ~NeedsSocketUpgrade(loc[r].product, call[r].sockets, k)
         \/ /\ OrdMint(r)
            /\ k \in GenerateKey(loc[r].product, call[r].level, call[r].sockets, r)
<1>1. reply[r] \in Reply
  BY DEF TInv, StateOK
<1>2. ASSUME NEW p, NEW answer, Settle(r, p, answer), answer \in Reply
      PROVE  reply'[r].issued = answer.issued
  BY <1>2, SMT DEF Settle, Reply, TInv, StateOK
<1>3. ASSUME NEW p \in Products, Pend(r, p) \/ Refuse(r, p) \/ Fail(r, p)
      PROVE  reply'[r].issued = reply[r].issued
  <2>1. /\ [reply[r] EXCEPT !.pending = @ \cup {p}] \in Reply
        /\ [reply[r] EXCEPT !.refused = @ \cup {p}] \in Reply
        /\ [reply[r] EXCEPT !.failed = @ \cup {p}] \in Reply
    BY <1>1, SMT DEF Reply
  <2>2. /\ [reply[r] EXCEPT !.pending = @ \cup {p}].issued = reply[r].issued
        /\ [reply[r] EXCEPT !.refused = @ \cup {p}].issued = reply[r].issued
        /\ [reply[r] EXCEPT !.failed = @ \cup {p}].issued = reply[r].issued
    BY <1>1, SMT DEF Reply
  <2> QED
    BY <1>2, <1>3, <2>1, <2>2 DEF Pend, Refuse, Fail
<1>4. ASSUME NEW new \in Keys, Issue(r, new)
      PROVE  reply'[r].issued = reply[r].issued \cup {new}
  <2>1. /\ [reply[r] EXCEPT !.issued = @ \cup {new}] \in Reply
        /\ [reply[r] EXCEPT !.issued = @ \cup {new}].issued = reply[r].issued \cup {new}
    BY <1>1, SMT DEF Reply
  <2> QED
    BY <1>2, <1>4, <2>1 DEF Issue
<1>5. ASSUME NEW what, NEW b, Finish(r, Answer(what, b))
      PROVE  reply'[r].issued = {}
  BY <1>5, SMT DEF Finish, Answer, TInv, StateOK
<1>6. pc[r] \in OrderPCs \ {"ord_gate"} => loc[r].product \in Products
  BY SMT DEF TInv, StateOK, ControlOK, Locals
<1>7. CASE RegRead(r) \/ RegWrite(r) \/ RevGet(r) \/ RevSet(r) \/ VerUpsert(r) \/ VerGet(r)
  <2>1. reply' = reply \/ \E what, b : Finish(r, Answer(what, b))
    BY <1>7 DEF RegRead, RegWrite, RevGet, RevSet, VerUpsert, VerGet, Verdict, Outcome
  <2> QED
    BY <1>5, <2>1
<1>8. CASE OrdGate(r)
  <2>1. PICK p \in loc[r].todo : UNCHANGED reply \/ Pend(r, p) \/ Fail(r, p)
    BY <1>8 DEF OrdGate
  <2>2. p \in Products
    BY SMT DEF TInv, StateOK, Locals
  <2> QED
    BY <1>3, <2>1, <2>2
<1>9. CASE OrdLookup(r)
  <2> DEFINE p == loc[r].product
             live == Live(licenses, call[r].account, p)
             enough(new) == ~NeedsSocketUpgrade(p, call[r].sockets, new)
  <2>1. \/ \E new \in live : enough(new) /\ Issue(r, new)
        \/ Refuse(r, p) \/ Fail(r, p) \/ UNCHANGED reply
    BY <1>9 DEF OrdLookup
  <2>2. live \subseteq Keys /\ p \in Products
    BY <1>6, <1>9 DEF Live, Held, OrdLookup, OrderPCs
  <2> HIDE DEF p, enough
  <2>3. CASE \E new \in live : enough(new) /\ Issue(r, new)
    BY <1>4, <1>9, <2>2, <2>3 DEF p, enough
  <2>4. CASE Refuse(r, p) \/ Fail(r, p) \/ UNCHANGED reply
    BY <1>3, <2>2, <2>4
  <2> QED
    BY <2>1, <2>3, <2>4
<1>10. CASE OrdRevoke(r)
  <2>1. UNCHANGED reply \/ Fail(r, loc[r].product)
    BY <1>10 DEF OrdRevoke
  <2>2. loc[r].product \in Products
    BY <1>6, <1>10 DEF OrdRevoke, OrderPCs
  <2> QED
    BY <1>3, <2>1, <2>2
<1>11. CASE OrdMint(r)
  <2> DEFINE new == GenerateKey(loc[r].product, call[r].level, call[r].sockets, r)
  <2>1. (\E n \in new : Issue(r, n)) \/ Fail(r, loc[r].product)
    BY <1>11 DEF OrdMint
  <2>2. loc[r].product \in Products
    BY <1>6, <1>11 DEF OrdMint, OrderPCs
  <2>3. new \subseteq Keys
    BY GeneratedKeys
  <2> HIDE DEF new
  <2> QED
    BY <1>3, <1>4, <1>11, <2>1, <2>2, <2>3 DEF new
<1> QED
  BY <1>7, <1>8, <1>9, <1>10, <1>11 DEF Step

LEMMA IssuedOrigin ==
  ASSUME TInv, NEW r \in Requests, Step(r), NEW k \in reply'[r].issued
  PROVE  \/ k \in reply[r].issued
         \/ /\ pc[r] = "ord_lookup"
            /\ k \in Held(licenses, call[r].account, loc[r].product)
         \/ pc[r] = "ord_mint" /\ k \in Keys /\ k.serial = r
  BY IssuedHow DEF OrdLookup, OrdMint, Live, GenerateKey

-----------------------------------------------------------------------------
(* Whose key it is *)

LEMMA StatusKeepsOwner ==
  ASSUME NEW lics \in Licenses, NEW k2 \in Keys, NEW s, NEW k \in Keys,
         Known(SetLicenseStatus(lics, k2, s), k)
  PROVE  Known(lics, k) /\ SetLicenseStatus(lics, k2, s)[k].account = lics[k].account
<1>1. CASE k = k2 /\ Known(lics, k2)
  BY <1>1, SMT DEF SetLicenseStatus, Known, Licenses
<1>2. CASE k # k2 \/ ~Known(lics, k2)
  BY <1>2, SMT DEF SetLicenseStatus, Known, Licenses
<1> QED
  BY <1>1, <1>2

LEMMA AddSetsOwner ==
  ASSUME NEW lics \in Licenses, NEW k2 \in Keys, NEW s, NEW a, NEW k \in Keys
  PROVE  /\ k = k2 => AddLicense(lics, k2, s, a)[k].account = a
         /\ k # k2 => AddLicense(lics, k2, s, a)[k] = lics[k]
  BY SMT DEF AddLicense, Licenses

(* A key has its owner from before the step, or was minted by this step. *)
LEMMA OwnerOrigin ==
  ASSUME TInv, [Next]_vars, NEW k \in Keys, Known(licenses', k), licenses'[k].account # None
  PROVE  \/ Known(licenses, k) /\ licenses[k].account = licenses'[k].account
         \/ \E r \in Requests : /\ pc[r] = "ord_mint"
                               /\ k.serial = r
                               /\ licenses'[k].account = call[r].account
<1>1. licenses \in Licenses
  BY DEF TInv, StateOK
<1>2. CASE licenses' = licenses
  BY <1>2
<1>3. CASE \E k2 \in Keys, s \in Statuses : licenses' = SetLicenseStatus(licenses, k2, s)
  BY <1>1, <1>3, StatusKeepsOwner
<1>4. CASE \E k2 \in Keys, s \in Statuses : licenses' = AddLicense(licenses, k2, s, None)
  BY <1>1, <1>4, AddSetsOwner DEF Known
<1>5. CASE \E k2 \in Keys : licenses' = RemoveLicense(licenses, k2)
  <2>1. PICK k2 \in Keys : licenses' = RemoveLicense(licenses, k2)
    BY <1>5
  <2>2. k # k2 /\ licenses'[k] = licenses[k]
    BY <1>1, <2>1, SMT DEF RemoveLicense, Licenses, Known
  <2> QED
    BY <2>2 DEF Known
<1>6. CASE \E r \in Requests, k2 \in Keys :
             /\ pc[r] = "ord_mint"
             /\ k2.serial = r
             /\ licenses' = AddLicense(licenses, k2, "APPROVED", call[r].account)
  BY <1>1, <1>6, AddSetsOwner DEF Known
<1>7. CASE UNCHANGED vars
  BY <1>2, <1>7 DEF vars
<1>8. CASE Operator
  <2>1. "REVOKED" \in Statuses /\ "APPROVED" \in Statuses
    BY DEF Statuses
  <2>2. \/ licenses' = licenses
        \/ AdminAdd \/ AdminGenerate \/ AdminRevoke \/ AdminRemove
    BY <1>8 DEF Operator, AdminAccount, AdminHost, AdminRemoveHost, BatchList, BatchSet, registry
  <2>3. CASE AdminAdd
    BY <1>4, <2>3, ServiceAssumption DEF AdminAdd
  <2>4. CASE AdminGenerate
    BY <1>4, <2>1, <2>4, GeneratedKeys DEF AdminGenerate
  <2>5. CASE AdminRevoke
    BY <1>3, <2>1, <2>5 DEF AdminRevoke
  <2>6. CASE AdminRemove
    BY <1>5, <2>6 DEF AdminRemove
  <2> QED
    BY <1>2, <2>2, <2>3, <2>4, <2>5, <2>6
<1>9. CASE Restart
  BY <1>2, <1>9 DEF Restart, registry
<1>10. ASSUME NEW r \in Requests, Arrive(r) \/ Step(r)
       PROVE  \/ licenses' = licenses
              \/ \E k2 \in Keys, s \in Statuses : licenses' = SetLicenseStatus(licenses, k2, s)
              \/ \E k2 \in Keys : /\ pc[r] = "ord_mint"
                                 /\ k2.serial = r
                                 /\ licenses' = AddLicense(licenses, k2, "APPROVED", call[r].account)
  <2>1. "REVOKED" \in Statuses
    BY DEF Statuses
  <2>2. CASE OrdRevoke(r)
    BY <2>1, <2>2 DEF OrdRevoke, TInv, ControlOK
  <2>3. CASE OrdMint(r)
    BY <2>3 DEF OrdMint, GenerateKey
  <2>4. CASE RevSet(r)
    <3>1. call[r] \in Calls /\ call[r].kind = "revoke"
      BY <2>4 DEF RevSet, TInv, ControlOK
    <3>2. call[r].key \in Keys
      BY <3>1, ServiceAssumption, SMT DEF WellFormed
    <3> QED
      BY <2>1, <2>4, <3>2 DEF RevSet
  <2> QED
    BY <1>10, <2>2, <2>3, <2>4
       DEF Arrive, Step, RegRead, RegWrite, OrdGate, OrdLookup, RevGet, VerUpsert, VerGet, registry
<1> QED
  BY <1>2, <1>3, <1>6, <1>7, <1>8, <1>9, <1>10 DEF Next

(***************************************************************************)
(* Every key with an owner was minted for that owner by an order, every    *)
(* key in an answer for the account that ordered, and a revocation that    *)
(* has passed the owner check is for a key its account ordered.            *)
(***************************************************************************)
OrderedBy(k, a) ==
  /\ k.serial \in Requests
  /\ pc[k.serial] # "idle"
  /\ call[k.serial].kind = "order"
  /\ call[k.serial].account = a

KeysOwned ==
  \A k \in Keys :
    Known(licenses, k) /\ licenses[k].account # None => OrderedBy(k, licenses[k].account)

RequestOwned(r) ==
  /\ pc[r] = "idle" => reply[r].issued = {}
  /\ \A k \in reply[r].issued : OrderedBy(k, call[r].account)
  /\ pc[r] = "rev_set" => OrderedBy(call[r].key, call[r].account)

OwnersOK == KeysOwned /\ \A r \in Requests : RequestOwned(r)

LEMMA OrderedByStays ==
  ASSUME TInv, [Next]_vars, NEW k, NEW a, OrderedBy(k, a)
  PROVE  OrderedBy(k, a)'
<1>1. k.serial \in Requests /\ pc[k.serial] # "idle"
  BY DEF OrderedBy
<1>2. call'[k.serial] = call[k.serial] /\ pc'[k.serial] # "idle"
  BY <1>1, CallStays
<1> QED
  BY <1>1, <1>2 DEF OrderedBy

LEMMA InitOwners == Init => OwnersOK
  BY SMT DEF Init, OwnersOK, KeysOwned, RequestOwned, Known, NoReply, Answer

(* An account is a name, never None. *)
LEMMA OrderAccount ==
  ASSUME TInv, NEW r \in Requests, pc[r] \in OrderPCs \cup {"rev_get", "rev_set"}
  PROVE  call[r].account \in Accounts /\ call[r].account # None
<1>1. call[r] \in Calls /\ call[r].kind \in {"order", "revoke"}
  BY DEF TInv, ControlOK, OrderPCs
<1>2. call[r].account \in Accounts
  BY <1>1, ServiceAssumption, SMT DEF WellFormed
<1> QED
  BY <1>2, StoreAssumption

(* Only the owner check leads to the write of a revocation. *)
LEMMA OnlyRevGet ==
  ASSUME TInv, NEW r \in Requests, Step(r), pc'[r] = "rev_set"
  PROVE  /\ RevGet(r)
         /\ Known(licenses, call[r].key)
         /\ licenses[call[r].key].account = call[r].account
<1>1. ASSUME NEW s, Goto(r, s)
      PROVE  s = "rev_set"
  BY <1>1, SMT DEF Goto, TInv, StateOK
<1>2. ASSUME NEW p, NEW answer, Settle(r, p, answer)
      PROVE  FALSE
  <2>1. Goto(r, "done") \/ Goto(r, "ord_gate")
    BY <1>2 DEF Settle
  <2> QED
    BY <1>1, <2>1
<1>3. CASE OrdGate(r) \/ OrdLookup(r) \/ OrdRevoke(r) \/ OrdMint(r)
  <2>1. \/ \E p, answer : Settle(r, p, answer)
        \/ Goto(r, "ord_lookup") \/ Goto(r, "ord_revoke") \/ Goto(r, "ord_mint")
    BY <1>3 DEF OrdGate, OrdLookup, OrdRevoke, OrdMint, Issue, Pend, Refuse, Fail
  <2> QED
    BY <1>1, <1>2, <2>1
<1>4. CASE RegRead(r) \/ RegWrite(r) \/ RevSet(r) \/ VerUpsert(r) \/ VerGet(r)
  <2>1. Goto(r, "reg_write") \/ Goto(r, "ver_get") \/ Goto(r, "done")
    BY <1>4 DEF RegRead, RegWrite, RevSet, VerUpsert, VerGet, Finish
  <2> QED
    BY <1>1, <2>1
<1>5. CASE RevGet(r)
  <2>1. ~Goto(r, "done")
    BY <1>1
  <2> QED
    BY <1>5, <2>1 DEF RevGet, Finish
<1> QED
  BY <1>3, <1>4, <1>5 DEF Step

(* A request that a step does not concern keeps what it owns. *)
LEMMA Undisturbed ==
  ASSUME TInv, OwnersOK, [Next]_vars, NEW q \in Requests,
         pc'[q] \in {pc[q], "lost"}, reply'[q] = reply[q]
  PROVE  RequestOwned(q)'
<1>1. CASE pc[q] = "idle"
  BY <1>1 DEF OwnersOK, RequestOwned
<1>2. CASE pc[q] # "idle"
  <2>1. call'[q] = call[q] /\ pc'[q] # "idle"
    BY <1>2, CallStays
  <2>2. ASSUME NEW k \in reply[q].issued
        PROVE  OrderedBy(k, call[q].account)'
    BY <2>1, <2>2, OrderedByStays DEF OwnersOK, RequestOwned, OrderedBy
  <2>3. pc'[q] = "rev_set" => OrderedBy(call[q].key, call[q].account)'
    BY <2>1, OrderedByStays DEF OwnersOK, RequestOwned, OrderedBy
  <2> QED
    BY <2>1, <2>2, <2>3 DEF RequestOwned
<1> QED
  BY <1>1, <1>2

LEMMA NextOwners ==
  ASSUME TInv, OwnersOK, [Next]_vars
  PROVE  OwnersOK'
<1>1. ASSUME NEW k \in Keys, NEW a, Known(licenses', k), licenses'[k].account = a, a # None
      PROVE  OrderedBy(k, a)'
  <2>1. CASE Known(licenses, k) /\ licenses[k].account = a
    BY <1>1, <2>1, OrderedByStays DEF OwnersOK, KeysOwned
  <2>2. CASE \E r \in Requests : pc[r] = "ord_mint" /\ k.serial = r /\ a = call[r].account
    <3>1. OrderedBy(k, a)
      BY <2>2 DEF OrderedBy, TInv, ControlOK, OrderPCs
    <3> QED
      BY <3>1, OrderedByStays
  <2> QED
    BY <1>1, <2>1, <2>2, OwnerOrigin
<1>2. KeysOwned'
  BY <1>1 DEF KeysOwned, Known, OrderedBy
<1>3. ASSUME NEW r \in Requests, Step(r)
      PROVE  /\ \A k \in reply'[r].issued : OrderedBy(k, call[r].account)'
             /\ pc'[r] = "rev_set" => OrderedBy(call[r].key, call[r].account)'
  <2>1. call' = call
    BY <1>3 DEF Step, RegRead, RegWrite, OrdGate, OrdLookup, OrdRevoke, OrdMint,
       RevGet, RevSet, VerUpsert, VerGet
  <2>2. ASSUME NEW k \in reply'[r].issued
        PROVE  OrderedBy(k, call[r].account)'
    <3>1. CASE k \in reply[r].issued
      BY <2>1, <3>1, OrderedByStays DEF OwnersOK, RequestOwned, OrderedBy
    <3>2. CASE pc[r] = "ord_lookup" /\ k \in Held(licenses, call[r].account, loc[r].product)
      <4>1. call[r].account # None
        BY <3>2, OrderAccount DEF OrderPCs
      <4>2. OrderedBy(k, call[r].account)
        BY <3>2, <4>1 DEF Held, OwnersOK, KeysOwned
      <4> QED
        BY <2>1, <4>2, OrderedByStays DEF OrderedBy
    <3>3. CASE pc[r] = "ord_mint" /\ k.serial = r
      <4>1. OrderedBy(k, call[r].account)
        BY <3>3 DEF OrderedBy, TInv, ControlOK, OrderPCs
      <4> QED
        BY <2>1, <4>1, OrderedByStays DEF OrderedBy
    <3> QED
      BY <1>3, <2>2, <3>1, <3>2, <3>3, IssuedOrigin
  <2>3. ASSUME pc'[r] = "rev_set"
        PROVE  OrderedBy(call[r].key, call[r].account)'
    <3>1. RevGet(r) /\ Known(licenses, call[r].key) /\ licenses[call[r].key].account = call[r].account
      BY <1>3, <2>3, OnlyRevGet
    <3>2. call[r].account # None /\ call[r].key \in Keys
      <4>1. pc[r] = "rev_get"
        BY <3>1 DEF RevGet
      <4>2. call[r] \in Calls /\ call[r].kind = "revoke"
        BY <4>1 DEF TInv, ControlOK
      <4> QED
        BY <4>1, <4>2, OrderAccount, ServiceAssumption, SMT DEF WellFormed
    <3>3. OrderedBy(call[r].key, call[r].account)
      BY <3>1, <3>2 DEF OwnersOK, KeysOwned
    <3> QED
      BY <2>1, <3>3, OrderedByStays DEF OrderedBy
  <2> QED
    BY <2>2, <2>3
<1>4. ASSUME NEW r \in Requests, Arrive(r) \/ Step(r)
      PROVE  \A q \in Requests : RequestOwned(q)'
  <2> SUFFICES ASSUME NEW q \in Requests PROVE RequestOwned(q)'
    OBVIOUS
  <2>1. CASE q # r
    BY <1>4, <2>1, OthersStay, Undisturbed
  <2>2. CASE q = r /\ Step(r)
    <3>1. pc[r] # "idle"
      BY <2>2 DEF Step, RegRead, RegWrite, OrdGate, OrdLookup, OrdRevoke, OrdMint,
         RevGet, RevSet, VerUpsert, VerGet
    <3>2. pc'[r] # "idle"
      BY <3>1, CallStays
    <3> QED
      BY <1>3, <2>2, <3>2 DEF RequestOwned
  <2>3. CASE q = r /\ Arrive(r)
    <3>1. reply'[r].issued = {}
      BY <2>3 DEF Arrive, OwnersOK, RequestOwned
    <3>2. PICK c \in Calls : pc' = [pc EXCEPT ![r] = Entry(c)]
      BY <2>3 DEF Arrive
    <3>3. Entry(c) # "idle" /\ Entry(c) # "rev_set"
      <4>1. c.kind \in {"register", "order", "revoke", "verify"}
        BY ServiceAssumption, SMT DEF Call
      <4> QED
        BY <4>1 DEF Entry
    <3>4. pc'[r] = Entry(c)
      BY <3>2, SMT DEF TInv, StateOK
    <3> QED
      BY <2>3, <3>1, <3>3, <3>4 DEF RequestOwned
  <2> QED
    BY <1>4, <2>1, <2>2, <2>3
<1>5. ASSUME UNCHANGED vars \/ Operator \/ Restart
      PROVE  \A q \in Requests : RequestOwned(q)'
  <2>1. UNCHANGED requestState \/ Restart
    BY <1>5 DEF vars, requestState, Operator, AdminAccount, AdminHost, AdminRemoveHost, AdminAdd,
       AdminGenerate, AdminRevoke, AdminRemove, BatchList, BatchSet
  <2>2. ASSUME NEW q \in Requests
        PROVE  pc'[q] \in {pc[q], "lost"} /\ reply'[q] = reply[q]
    <3>1. CASE UNCHANGED requestState
      BY <3>1 DEF requestState
    <3>2. CASE Restart
      BY <3>2 DEF Restart
    <3> QED
      BY <2>1, <3>1, <3>2
  <2> QED
    BY <2>2, Undisturbed
<1>6. \A r \in Requests : RequestOwned(r)'
  BY <1>4, <1>5 DEF Next
<1> QED
  BY <1>2, <1>6 DEF OwnersOK

LEMMA OwnersInvariant == Spec => []OwnersOK
  BY TypedInvariant, InitOwners, NextOwners, PTL DEF Spec, Typed

(* The key an order hands out was minted for the account that ordered, whatever
   the operator, other accounts, crashes and failures do in between. *)
THEOREM KeysAreOwn == Spec => []IssuedKeyIsOwn
<1>1. OwnersOK => IssuedKeyIsOwn
  BY DEF OwnersOK, RequestOwned, OrderedBy, IssuedKeyIsOwn
<1> QED
  BY <1>1, OwnersInvariant, PTL

(* A revocation over the client API never invalidates a key of another account,
   although the owner is checked on an earlier read of the registry. *)
THEOREM RevocationIsOwn == Spec => OnlyOwnerRevokes
<1> DEFINE Own(r) == (pc[r] = "rev_set" /\ pc'[r] = "done") =>
                       \A k \in Keys : licenses'[k] # licenses[k]
                                        => licenses[k].account \in {call[r].account, None}
<1>1. TInv /\ OwnersOK /\ [Next]_vars => [\A r \in Requests : Own(r)]_vars
  <2> SUFFICES ASSUME TInv, OwnersOK, Next, NEW r \in Requests, pc[r] = "rev_set", pc'[r] = "done",
                      NEW k \in Keys, licenses'[k] # licenses[k]
               PROVE  licenses[k].account \in {call[r].account, None}
    OBVIOUS
  <2>1. RevSet(r)
    <3>1. Step(r)
      <4>1. UNCHANGED requestState \/ Restart \/ \E q \in Requests : Arrive(q) \/ Step(q)
        BY DEF Next, requestState, Operator, AdminAccount, AdminHost, AdminRemoveHost, AdminAdd,
           AdminGenerate, AdminRevoke, AdminRemove, BatchList, BatchSet
      <4>2. pc'[r] # pc[r] /\ pc'[r] # "lost" /\ pc[r] # "idle"
        OBVIOUS
      <4>3. CASE Restart
        BY <4>2, <4>3 DEF Restart
      <4>4. CASE UNCHANGED requestState
        BY <4>2, <4>4 DEF requestState
      <4>5. CASE \E q \in Requests : Arrive(q) \/ Step(q)
        BY <4>2, <4>5, OthersStay DEF Arrive
      <4> QED
        BY <4>1, <4>3, <4>4, <4>5
    <3> QED
      BY <3>1 DEF Step, RegRead, RegWrite, OrdGate, OrdLookup, OrdRevoke, OrdMint,
         RevGet, VerUpsert, VerGet
  <2>2. k = call[r].key /\ Known(licenses, k)
    <3>1. licenses' = SetLicenseStatus(licenses, call[r].key, "REVOKED")
      BY <2>1 DEF RevSet
    <3> QED
      BY <3>1, SMT DEF SetLicenseStatus, TInv, StateOK, Licenses
  <2> QED
    BY <2>2 DEF OwnersOK, KeysOwned, RequestOwned, OrderedBy
<1> QED
  BY <1>1, TypedInvariant, OwnersInvariant, PTL DEF Spec, OnlyOwnerRevokes, Typed

-----------------------------------------------------------------------------
(***************************************************************************)
(* Approval.  The gate is passed once per product and never looked back    *)
(* at; what holds is that the account was approved at some moment of the   *)
(* order, and this is what the later steps carry along.                    *)
(***************************************************************************)
PastGate == {"ord_lookup", "ord_revoke", "ord_mint"}

ApprovalOK ==
  \A r \in Requests :
    pc[r] \in PastGate \/ reply[r].issued # {} => since[r].approved

LEMMA WitnessedApproval ==
  ASSUME NEW r \in Requests, NEW self, Observe(self), Running(r)
  PROVE  since'[r].approved = (since[r].approved \/ ApprovedAccount(call[r], accounts'))
<1>1. since'[r] = Witnessed(r, r = self)
  BY DEF Observe
<1> DEFINE seen == since[r].approved \/ ApprovedAccount(call[r], accounts')
<1>2. \A own \in BOOLEAN : Witnessed(r, own).approved = seen
  BY DEF Witnessed
<1> HIDE DEF seen
<1>3. (r = self) \in BOOLEAN
  OBVIOUS
<1>4. since'[r].approved = seen
  BY <1>1, <1>2, <1>3
<1> QED
  BY <1>4 DEF seen

LEMMA ApprovedStays ==
  ASSUME NEW self, Observe(self), NEW r \in Requests, since[r].approved,
         Running(r) \/ r # self
  PROVE  since'[r].approved
<1>1. CASE Running(r)
  BY <1>1, WitnessedApproval
<1>2. CASE ~Running(r)
  BY <1>2 DEF Observe
<1> QED
  BY <1>1, <1>2

LEMMA GateApproves ==
  ASSUME NEW r \in Requests, Observe(r), Running(r), call[r].kind = "order",
         accounts'[call[r].account] = "APPROVED"
  PROVE  since'[r].approved
  BY WitnessedApproval DEF ApprovedAccount

(* Only the gate, and only for an approved account, leads past it. *)
LEMMA OnlyGate ==
  ASSUME TInv, NEW r \in Requests, Step(r), pc'[r] \in PastGate
  PROVE  pc[r] \in PastGate \/ (OrdGate(r) /\ accounts[call[r].account] = "APPROVED")
<1>1. ASSUME NEW s, Goto(r, s)
      PROVE  s \in PastGate
  BY <1>1, SMT DEF Goto, TInv, StateOK
<1>2. ASSUME NEW p, NEW answer, Settle(r, p, answer)
      PROVE  FALSE
  <2>1. Goto(r, "done") \/ Goto(r, "ord_gate")
    BY <1>2 DEF Settle
  <2> QED
    BY <1>1, <2>1 DEF PastGate
<1>3. CASE OrdGate(r)
  BY <1>2, <1>3 DEF OrdGate, Pend, Fail
<1>4. CASE OrdLookup(r) \/ OrdRevoke(r) \/ OrdMint(r)
  BY <1>4 DEF OrdLookup, OrdRevoke, OrdMint, PastGate
<1>5. CASE RegRead(r) \/ RegWrite(r) \/ RevGet(r) \/ RevSet(r) \/ VerUpsert(r) \/ VerGet(r)
  <2>1. Goto(r, "reg_write") \/ Goto(r, "rev_set") \/ Goto(r, "ver_get") \/ Goto(r, "done")
    BY <1>5 DEF RegRead, RegWrite, RevGet, RevSet, VerUpsert, VerGet, Finish
  <2> QED
    BY <1>1, <2>1 DEF PastGate
<1> QED
  BY <1>3, <1>4, <1>5 DEF Step

LEMMA NextApproval ==
  ASSUME TInv, OwnersOK, ApprovalOK, [Next]_vars
  PROVE  ApprovalOK'
<1>1. ASSUME NEW q \in Requests, NEW self, Observe(self), q # self,
             pc'[q] \in {pc[q], "lost"}, reply'[q] = reply[q]
      PROVE  ApprovalOK!(q)'
  BY <1>1, ApprovedStays DEF ApprovalOK, PastGate
<1>2. CASE UNCHANGED vars
  BY <1>2 DEF vars, ApprovalOK
<1>3. CASE (Operator \/ Restart) /\ Observe(None)
  <2> SUFFICES ASSUME NEW q \in Requests PROVE ApprovalOK!(q)'
    BY DEF ApprovalOK
  <2>1. q # None
    BY ServiceAssumption
  <2>2. CASE Restart
    BY <1>1, <1>3, <2>1, <2>2 DEF Restart
  <2>3. CASE Operator
    <3>1. UNCHANGED requestState
      BY <2>3 DEF Operator, AdminAccount, AdminHost, AdminRemoveHost, AdminAdd,
         AdminGenerate, AdminRevoke, AdminRemove, BatchList, BatchSet
    <3> QED
      BY <1>1, <1>3, <2>1, <3>1 DEF requestState
  <2> QED
    BY <1>3, <2>2, <2>3
<1>4. ASSUME NEW r \in Requests, Arrive(r) \/ Step(r), Observe(r)
      PROVE  ApprovalOK'
  <2> SUFFICES ASSUME NEW q \in Requests PROVE ApprovalOK!(q)'
    BY DEF ApprovalOK
  <2>1. CASE q # r
    BY <1>1, <1>4, <2>1, OthersStay
  <2>2. CASE q = r /\ Arrive(r)
    <3>1. reply'[r].issued = {}
      BY <2>2 DEF Arrive, OwnersOK, RequestOwned
    <3>2. PICK c \in Calls : pc' = [pc EXCEPT ![r] = Entry(c)]
      BY <2>2 DEF Arrive
    <3>3. Entry(c) \notin PastGate
      <4>1. c.kind \in {"register", "order", "revoke", "verify"}
        BY ServiceAssumption, SMT DEF Call
      <4> QED
        BY <4>1 DEF Entry, PastGate
    <3>4. pc'[r] = Entry(c)
      BY <3>2, SMT DEF TInv, StateOK
    <3> QED
      BY <2>2, <3>1, <3>3, <3>4
  <2>3. CASE q = r /\ Step(r)
    <3>1. Running(r)
      BY <2>3 DEF Running, Step, RegRead, RegWrite, OrdGate, OrdLookup, OrdRevoke, OrdMint,
         RevGet, RevSet, VerUpsert, VerGet
    <3>2. CASE since[r].approved
      BY <1>4, <2>3, <3>1, <3>2, ApprovedStays
    <3>3. CASE OrdGate(r) /\ accounts[call[r].account] = "APPROVED"
      <4>1. call[r].kind = "order" /\ accounts' = accounts
        BY <3>3 DEF OrdGate, TInv, ControlOK, OrderPCs, registry
      <4> QED
        BY <1>4, <2>3, <3>1, <3>3, <4>1, GateApproves
    <3>4. CASE pc'[r] \in PastGate
      BY <2>3, <3>2, <3>3, <3>4, OnlyGate DEF ApprovalOK
    <3>5. CASE reply'[r].issued # {}
      <4>1. PICK k : k \in reply'[r].issued
        BY <3>5
      <4>2. reply[r].issued # {} \/ pc[r] \in PastGate
        BY <2>3, <4>1, IssuedOrigin DEF PastGate
      <4> QED
        BY <3>2, <4>2 DEF ApprovalOK
    <3> QED
      BY <2>3, <3>4, <3>5
  <2> QED
    BY <1>4, <2>1, <2>2, <2>3
<1> QED
  BY <1>2, <1>3, <1>4 DEF Next

(* No interleaving, crash or failure lets an order draw a key for an account
   that was not approved at any moment while the order ran. *)
THEOREM IssuedIsApproved == Spec => []IssuedUnderApproval
<1>1. Init => ApprovalOK
  BY SMT DEF Init, ApprovalOK, PastGate, NoReply, Answer
<1>2. TInv /\ OwnersOK /\ ApprovalOK /\ [Next]_vars => ApprovalOK'
  BY NextApproval
<1>3. ApprovalOK => IssuedUnderApproval
  BY DEF ApprovalOK, IssuedUnderApproval
<1> QED
  BY <1>1, <1>2, <1>3, TypedInvariant, OwnersInvariant, PTL DEF Spec, Typed
=============================================================================
