--------------------------- MODULE LicenseService ---------------------------
(***************************************************************************)
(* The server's handlers and the application service behind them, over the *)
(* shared registry (internal/app, internal/transport/httpapi).             *)
(*                                                                         *)
(* A request runs in a goroutine of its own.  It is atomic only between    *)
(* two accesses to the registry: every store call re-reads the file, takes *)
(* the lock for itself alone, and other requests, the admin API and the    *)
(* CLI run in between.  So a request is a sequence of steps, one for each  *)
(* store call it makes, and pc names the call that comes next.             *)
(*                                                                         *)
(* Requests is the set of all requests the server ever receives; each runs *)
(* one call.  A key minted by request r has serial r, so two mints never   *)
(* collide: the generator's 28 random bits are taken to be fresh.          *)
(***************************************************************************)
EXTENDS LicenseStore

CONSTANTS Requests,            \* request instances, also the serials of minted keys
          Calls,               \* the calls that may arrive (bounds the inputs)
          AddableKeys,         \* keys the admin may add or import (bounds the inputs)
          AddStatuses,         \* statuses the admin may add them with
          Faults,              \* subset of {"read", "write", "crash"}
          OneOrderPerAccount   \* TRUE: an account never has two orders in flight

(***************************************************************************)
(* Calls, as they are after verifyJWS accepted the request or the form of  *)
(* verify.php was parsed.  `auto' says that the source address belongs to  *)
(* a trusted network.                                                      *)
(***************************************************************************)
Call == [kind : {"register", "order", "revoke", "verify", "none"},
         account : Accounts \cup {None}, host : Hosts \cup {None},
         key : Keys \cup {None}, products : SUBSET Products,
         sockets : SocketInputs, level : Levels, auto : BOOLEAN]

NoCall == [kind |-> "none", account |-> None, host |-> None, key |-> None,
           products |-> {}, sockets |-> None, level |-> "", auto |-> FALSE]

RegisterCall(account, auto) ==
  [NoCall EXCEPT !.kind = "register", !.account = account, !.auto = auto]
OrderCall(account, products, sockets, level) ==
  [NoCall EXCEPT !.kind = "order", !.account = account, !.products = products,
                 !.sockets = sockets, !.level = level]
RevokeCall(account, key) ==
  [NoCall EXCEPT !.kind = "revoke", !.account = account, !.key = key]
VerifyCall(host, key, auto) ==
  [NoCall EXCEPT !.kind = "verify", !.host = host, !.key = key, !.auto = auto]

WellFormed(c) ==
  /\ c.kind \in {"register", "order", "revoke"} => c.account \in Accounts
  /\ c.kind = "order" => c.products # {}
  /\ c.kind \in {"revoke", "verify"} => c.key \in Keys

ASSUME ServiceAssumption ==
  /\ Requests \subseteq Serials
  /\ None \notin Requests
  /\ \A c \in Calls : c \in Call /\ c.kind # "none" /\ WellFormed(c)
  /\ AddableKeys \subseteq Keys
  /\ AddStatuses \subseteq Statuses
  /\ OneOrderPerAccount \in BOOLEAN

VARIABLES licenses,   \* the registry file: licenses,
          servers,    \*   hosts
          accounts,   \*   and ACME accounts
          pc,         \* next store call of each request
          call,       \* the call it runs
          loc,        \* its local variables
          reply,      \* its answer, as far as it is known
          batch,      \* hosts `server approve --all' has listed and not yet set
          since,      \* history: what was true while the request ran
          withdrawn   \* history: keys an operator revoked, removed or replaced, or their owner revoked

registry == <<licenses, servers, accounts>>
requestState == <<pc, call, loc, reply>>
vars == <<licenses, servers, accounts, pc, call, loc, reply, batch, since, withdrawn>>

-----------------------------------------------------------------------------
PCs == {"idle", "reg_read", "reg_write", "ord_gate", "ord_lookup", "ord_revoke",
        "ord_mint", "rev_get", "rev_set", "ver_upsert", "ver_get", "done", "lost"}

Running(r) == pc[r] \notin {"idle", "done", "lost"}

(* Local variables: the products an order has yet to serve, the one it is at,
   the key it read, a status it read, and whether registering a host failed. *)
Blank(todo) ==
  [todo |-> todo, product |-> None, key |-> None, status |-> None, regErr |-> FALSE]

(* The answer of an order puts each product in one of four sets: issued,
   pending, or a problem, which is either a refused (revoked) subscription or
   another error.  Of the other calls only the outcome is kept. *)
Answer(what, regErr) ==
  [issued |-> {}, pending |-> {}, refused |-> {}, failed |-> {},
   outcome |-> what, regErr |-> regErr]
NoReply == Answer("none", FALSE)

Outcomes == {"none", "ordered", "registered", "active", "inactive", "forbidden", "revoked", "error"}

NoHistory == [dark |-> FALSE, bright |-> FALSE, standing |-> FALSE, entitled |-> FALSE,
              approved |-> FALSE, barred |-> {}, covered |-> {}]

(* The server starts on the registry earlier runs left: accounts and hosts
   have registered and been decided on; the licenses are still to come. *)
Init ==
  /\ licenses = [k \in Keys |-> None]
  /\ servers \in [Hosts -> {None, "PENDING", "APPROVED", "BLOCKED", "REJECTED"}]
  /\ accounts \in [Accounts -> {None, "PENDING", "APPROVED", "BLOCKED"}]
  /\ pc = [r \in Requests |-> "idle"]
  /\ call = [r \in Requests |-> NoCall]
  /\ loc = [r \in Requests |-> Blank({})]
  /\ reply = [r \in Requests |-> NoReply]
  /\ batch = [status |-> "APPROVED", left |-> {}]
  /\ since = [r \in Requests |-> NoHistory]
  /\ withdrawn = {}

-----------------------------------------------------------------------------
(* Steps every request shares *)

Entry(c) == CASE c.kind = "register" -> "reg_read"
              [] c.kind = "order" -> "ord_gate"
              [] c.kind = "revoke" -> "rev_get"
              [] c.kind = "verify" -> "ver_upsert"

Arrive(r) ==
  /\ pc[r] = "idle"
  /\ \E c \in Calls :
       /\ (OneOrderPerAccount /\ c.kind = "order") =>
            ~\E q \in Requests : /\ Running(q)
                                 /\ call[q].kind = "order"
                                 /\ call[q].account = c.account
       /\ call' = [call EXCEPT ![r] = c]
       /\ loc' = [loc EXCEPT ![r] = Blank(c.products)]
       /\ pc' = [pc EXCEPT ![r] = Entry(c)]
  /\ UNCHANGED <<registry, reply, batch, withdrawn>>

Goto(r, step) == pc' = [pc EXCEPT ![r] = step]

(* The handler writes its answer and returns. *)
Finish(r, answer) ==
  /\ Goto(r, "done")
  /\ reply' = [reply EXCEPT ![r] = answer]

Outcome(what) == Answer(what, FALSE)

ReadFails == "read" \in Faults
WriteFails == "write" \in Faults

-----------------------------------------------------------------------------
(* new-account: RegisterAccount reads the account without the lock and then
   writes the whole record; a read error counts as "no such account".        *)

(* Faulty variant: the status of an existing account is not taken over. *)
RegReadForgetful(r) ==
  /\ pc[r] = "reg_read"
  /\ loc' = [loc EXCEPT ![r].status = InitialStatus(call[r].auto)]
  /\ Goto(r, "reg_write")
  /\ UNCHANGED <<registry, call, reply, batch, withdrawn>>

RegRead(r) ==
  LET found(status) == /\ loc' = [loc EXCEPT ![r].status = status]
                       /\ Goto(r, "reg_write")
      initial == InitialStatus(call[r].auto)
      account == call[r].account
  IN /\ pc[r] = "reg_read"
     /\ \/ found(IF accounts[account] = None THEN initial ELSE accounts[account])
        \/ ReadFails /\ found(initial)
     /\ UNCHANGED <<registry, call, reply, batch, withdrawn>>

RegWrite(r) ==
  /\ pc[r] = "reg_write"
  /\ \/ /\ accounts' = UpsertAccount(accounts, call[r].account, loc[r].status)
        /\ Finish(r, Outcome("registered"))
     \/ /\ WriteFails
        /\ accounts' = accounts
        /\ Finish(r, Outcome("error"))
  /\ UNCHANGED <<licenses, servers, call, loc, batch, withdrawn>>

-----------------------------------------------------------------------------
(* new-order: one IssueSubscription per product, each with its own gate.     *)

(* Product p is settled; the loop goes on or the answer is sent. *)
Settle(r, p, answer) ==
  /\ reply' = [reply EXCEPT ![r] = [answer EXCEPT !.outcome = "ordered"]]
  /\ loc' = [loc EXCEPT ![r] = Blank(loc[r].todo \ {p})]
  /\ Goto(r, IF loc[r].todo \ {p} = {} THEN "done" ELSE "ord_gate")

Issue(r, k) == Settle(r, k.product, [reply[r] EXCEPT !.issued = @ \cup {k}])
Pend(r, p) == Settle(r, p, [reply[r] EXCEPT !.pending = @ \cup {p}])
Refuse(r, p) == Settle(r, p, [reply[r] EXCEPT !.refused = @ \cup {p}])
Fail(r, p) == Settle(r, p, [reply[r] EXCEPT !.failed = @ \cup {p}])

(* Faulty variant: the gate stops blocked accounts only. *)
OrdGateLax(r) ==
  /\ pc[r] = "ord_gate"
  /\ \E p \in loc[r].todo :
       \/ /\ accounts[call[r].account] # "BLOCKED"
          /\ loc' = [loc EXCEPT ![r].product = p]
          /\ Goto(r, "ord_lookup")
          /\ UNCHANGED reply
       \/ accounts[call[r].account] = "BLOCKED" /\ Pend(r, p)
  /\ UNCHANGED <<registry, call, batch, withdrawn>>

(* GetAccount: only an approved account passes.  The products of an order come
   as a list; which one is next is left open. *)
OrdGate(r) ==
  /\ pc[r] = "ord_gate"
  /\ \E p \in loc[r].todo :
       \/ /\ accounts[call[r].account] = "APPROVED"
          /\ loc' = [loc EXCEPT ![r].product = p]
          /\ Goto(r, "ord_lookup")
          /\ UNCHANGED reply
       \/ /\ accounts[call[r].account] # "APPROVED"
          /\ Pend(r, p)
       \/ ReadFails /\ Fail(r, p)
  /\ UNCHANGED <<registry, call, batch, withdrawn>>

(* Faulty variant: revoked keys count as no assignment. *)
OrdLookupLiveOnly(r) ==
  LET p == loc[r].product
      live == Live(licenses, call[r].account, p)
  IN /\ pc[r] = "ord_lookup"
     /\ \/ \E k \in live : Issue(r, k)
        \/ live = {} /\ Goto(r, "ord_mint") /\ UNCHANGED <<loc, reply>>
     /\ UNCHANGED <<registry, call, batch, withdrawn>>

(* licenseForAccountProduct returns the first active key in file order, or a
   revoked one when there is no active one; file order is left open. *)
OrdLookup(r) ==
  LET p == loc[r].product
      held == Held(licenses, call[r].account, p)
      live == Live(licenses, call[r].account, p)
  IN /\ pc[r] = "ord_lookup"
     /\ \/ \E k \in live : /\ ~NeedsSocketUpgrade(p, call[r].sockets, k)
                           /\ Issue(r, k)
        \/ \E k \in live : /\ NeedsSocketUpgrade(p, call[r].sockets, k)
                           /\ loc' = [loc EXCEPT ![r].key = k]
                           /\ Goto(r, "ord_revoke")
                           /\ UNCHANGED reply
        \/ live = {} /\ held # {} /\ Refuse(r, p)
        \/ held = {} /\ Goto(r, "ord_mint") /\ UNCHANGED <<loc, reply>>
        \/ ReadFails /\ Fail(r, p)
     /\ UNCHANGED <<registry, call, batch, withdrawn>>

(* Faulty variants: the order starts over after it has revoked the smaller key;
   the smaller key is not revoked. *)
OrdRevokeStartOver(r) ==
  /\ pc[r] = "ord_revoke"
  /\ licenses' = SetLicenseStatus(licenses, loc[r].key, "REVOKED")
  /\ Goto(r, "ord_lookup")
  /\ UNCHANGED <<servers, accounts, call, loc, reply, batch, withdrawn>>
OrdRevokeNothing(r) ==
  /\ pc[r] = "ord_revoke"
  /\ Goto(r, "ord_mint")
  /\ UNCHANGED <<registry, call, loc, reply, batch, withdrawn>>

(* The upgrade invalidates the old key first; that the key may have been
   removed meanwhile is ignored. *)
OrdRevoke(r) ==
  /\ pc[r] = "ord_revoke"
  /\ \/ /\ licenses' = SetLicenseStatus(licenses, loc[r].key, "REVOKED")
        /\ Goto(r, "ord_mint")
        /\ UNCHANGED <<loc, reply>>
     \/ /\ WriteFails
        /\ licenses' = licenses
        /\ Fail(r, loc[r].product)
  /\ UNCHANGED <<servers, accounts, call, batch, withdrawn>>

OrdMint(r) ==
  LET p == loc[r].product
      new == GenerateKey(p, call[r].level, call[r].sockets, r)
  IN /\ pc[r] = "ord_mint"
     /\ \/ \E k \in new :
             /\ licenses' = AddLicense(licenses, k, "APPROVED", call[r].account)
             /\ Issue(r, k)
        \/ /\ new = {} \/ WriteFails
           /\ licenses' = licenses
           /\ Fail(r, p)
     /\ UNCHANGED <<servers, accounts, call, batch, withdrawn>>

-----------------------------------------------------------------------------
(* revoke over the client API: the owner is checked on one read of the
   registry, the status is set by a later write.                             *)

(* Faulty variant: any account may revoke any key. *)
RevGetUnowned(r) ==
  /\ pc[r] = "rev_get"
  /\ Known(licenses, call[r].key)
  /\ Goto(r, "rev_set")
  /\ UNCHANGED <<registry, call, loc, reply, batch, withdrawn>>

RevGet(r) ==
  LET k == call[r].key
      owned == Known(licenses, k) /\ licenses[k].account = call[r].account
  IN /\ pc[r] = "rev_get"
     /\ \/ owned /\ Goto(r, "rev_set") /\ UNCHANGED reply
        \/ ~owned /\ Finish(r, Outcome("forbidden"))
        \/ ReadFails /\ Finish(r, Outcome("error"))
     /\ UNCHANGED <<registry, call, loc, batch, withdrawn>>

RevSet(r) ==
  /\ pc[r] = "rev_set"
  /\ \/ /\ licenses' = SetLicenseStatus(licenses, call[r].key, "REVOKED")
        /\ withdrawn' = withdrawn \cup {call[r].key}
        /\ Finish(r, Outcome("revoked"))
     \/ /\ WriteFails
        /\ UNCHANGED <<licenses, withdrawn>>
        /\ Finish(r, Outcome("error"))
  /\ UNCHANGED <<servers, accounts, call, loc, batch>>

-----------------------------------------------------------------------------
(* verify.php: register the contact, then look the key up.                   *)

VerUpsert(r) ==
  LET h == call[r].host
      next(status, failed) ==
        /\ loc' = [loc EXCEPT ![r] = [@ EXCEPT !.status = status, !.regErr = failed]]
        /\ Goto(r, "ver_get")
  IN /\ pc[r] = "ver_upsert"
     /\ \/ /\ h # None
           /\ servers' = UpsertServer(servers, h, call[r].auto)
           /\ next(servers'[h], FALSE)
        \/ /\ h # None
           /\ WriteFails
           /\ servers' = servers
           /\ next(None, TRUE)
        \/ /\ h = None
           /\ servers' = servers
           /\ next(None, FALSE)
     /\ UNCHANGED <<licenses, accounts, call, reply, batch, withdrawn>>

(* Faulty variants: an approved host may use a revoked key; an issued key needs
   an approved host; only blocked hosts are turned away. *)
VerdictHostFirst(host, status, license, regErr) ==
  Outcome(IF host # None /\ status = "APPROVED" THEN "active" ELSE "inactive")
VerdictHostOnly(host, status, license, regErr) ==
  Outcome(IF /\ host # None
             /\ status = "APPROVED"
             /\ license # None => ActiveStatus(license.status)
          THEN "active" ELSE "inactive")
VerdictLax(host, status, license, regErr) ==
  Outcome(IF /\ host # None
             /\ status # "BLOCKED"
             /\ license # None => ActiveStatus(license.status)
          THEN "active" ELSE "inactive")

(* What Verify answers to a host with the given status about a license record
   (None when the key is unknown); regErr is passed on in one branch only. *)
Verdict(host, status, license, regErr) ==
  LET known == license # None
      invalidated == known /\ ~ActiveStatus(license.status)
      acmeIssued == known /\ license.account # None
      authorized == host # None /\ (status = "APPROVED" \/ acmeIssued)
  IN Answer(IF authorized /\ ~invalidated THEN "active" ELSE "inactive",
            ~invalidated /\ ~authorized /\ regErr)

(* An error of GetLicense is dropped: the key then counts as unknown. *)
VerGet(r) ==
  LET verdict(license) == Verdict(call[r].host, loc[r].status, license, loc[r].regErr)
  IN /\ pc[r] = "ver_get"
     /\ \/ Finish(r, verdict(licenses[call[r].key]))
        \/ ReadFails /\ Finish(r, verdict(None))
     /\ UNCHANGED <<registry, call, loc, batch, withdrawn>>

-----------------------------------------------------------------------------
(* The operator: admin API and CLI.  A failing mutation changes nothing, so
   only the batch needs an error branch.                                     *)

AdminAccount ==
  /\ \E a \in Accounts, s \in {"APPROVED", "BLOCKED"} :
       /\ accounts[a] # None
       /\ accounts' = SetAccountStatus(accounts, a, s)
  /\ UNCHANGED <<licenses, servers, requestState, batch, withdrawn>>

AdminHost ==
  /\ \E h \in Hosts, s \in {"APPROVED", "REJECTED", "BLOCKED"} :
       /\ servers[h] # None
       /\ servers' = SetServerStatus(servers, h, s)
  /\ UNCHANGED <<licenses, accounts, requestState, batch, withdrawn>>

AdminRemoveHost ==
  /\ \E h \in Hosts : servers[h] # None /\ servers' = RemoveServer(servers, h)
  /\ UNCHANGED <<licenses, accounts, requestState, batch, withdrawn>>

(* A key minted by a request is known to the admin only once it was stored
   or handed out. *)
AdminKnows(k) ==
  (k.serial \in Requests /\ ~Known(licenses, k)) => k \in reply[k.serial].issued

(* `subscription add/import' and POST /api/licenses replace an existing
   record, its owner included; only a status is taken from the input. *)
AdminAdd ==
  /\ \E k \in AddableKeys, s \in AddStatuses :
       /\ AdminKnows(k)
       /\ licenses' = AddLicense(licenses, k, s, None)
       /\ withdrawn' = withdrawn \cup {k}
  /\ UNCHANGED <<servers, accounts, requestState, batch>>

(* `subscription generate': a key nobody else holds, without an owner. *)
AdminGenerate ==
  /\ \E n \in Serials \ Requests, p \in Products, s \in ValidSockets \cup {None} :
       \E k \in GenerateKey(p, "", s, n) :
          /\ k \in AddableKeys
          /\ ~Known(licenses, k)
          /\ licenses' = AddLicense(licenses, k, "APPROVED", None)
  /\ UNCHANGED <<servers, accounts, requestState, batch, withdrawn>>

AdminRevoke ==
  /\ \E k \in Keys :
       /\ Known(licenses, k)
       /\ licenses' = SetLicenseStatus(licenses, k, "REVOKED")
       /\ withdrawn' = withdrawn \cup {k}
  /\ UNCHANGED <<servers, accounts, requestState, batch>>

AdminRemove ==
  /\ \E k \in Keys :
       /\ Known(licenses, k)
       /\ licenses' = RemoveLicense(licenses, k)
       /\ withdrawn' = withdrawn \cup {k}
  /\ UNCHANGED <<servers, accounts, requestState, batch>>

(* `server approve --all' / `server reject --all': the pending hosts are listed
   once, then each is set by a mutation of its own; the command stops at the
   first host that is gone and at the first error. *)
BatchList ==
  /\ batch.left = {}
  /\ \E s \in {"APPROVED", "REJECTED"} :
       batch' = [status |-> s, left |-> {h \in Hosts : servers[h] = "PENDING"}]
  /\ batch'.left # {}
  /\ UNCHANGED <<registry, requestState, withdrawn>>

BatchSet ==
  /\ \E h \in batch.left :
       \/ /\ servers[h] # None
          /\ servers' = SetServerStatus(servers, h, batch.status)
          /\ batch' = [batch EXCEPT !.left = @ \ {h}]
       \/ /\ servers[h] = None \/ WriteFails
          /\ servers' = servers
          /\ batch' = [batch EXCEPT !.left = {}]
  /\ UNCHANGED <<licenses, accounts, requestState, withdrawn>>

(* The server process dies and is started again: the requests in flight are
   gone, the registry file stays. *)
Restart ==
  /\ "crash" \in Faults
  /\ \E r \in Requests : Running(r)
  /\ pc' = [r \in Requests |-> IF Running(r) THEN "lost" ELSE pc[r]]
  /\ UNCHANGED <<registry, call, loc, reply, batch, withdrawn>>

-----------------------------------------------------------------------------
(* History.  What a request saw of the registry from outside: `dark', `bright',
   `standing', `barred' and `covered' have held ever since it arrived, whatever
   the request did itself; `entitled' and `approved' held at some moment since. *)

Dark(c, lics) == c.kind = "verify" /\ Known(lics, c.key) /\ ~Active(lics, c.key)
Bright(c, lics) ==
  /\ c.kind = "verify"
  /\ c.host # None
  /\ Active(lics, c.key)
  /\ lics[c.key].account # None
Entitled(c, lics, srvs) ==
  \/ Bright(c, lics)
  \/ c.kind = "verify" /\ c.host # None /\ srvs[c.host] = "APPROVED"
ApprovedAccount(c, accs) == c.kind = "order" /\ accs[c.account] = "APPROVED"
Standing(c) == c.kind = "register" => accounts'[c.account] = accounts[c.account]
Barred(c, lics) ==
  {p \in c.products : Held(lics, c.account, p) # {} /\ Live(lics, c.account, p) = {}}
Covered(c, lics) ==
  {p \in c.products :
     \E k \in Live(lics, c.account, p) :
       p = PVE /\ c.sockets # None => c.sockets =< k.sockets}

Arrived(c) ==
  [dark |-> Dark(c, licenses), bright |-> Bright(c, licenses), standing |-> TRUE,
   entitled |-> Entitled(c, licenses, servers), approved |-> ApprovedAccount(c, accounts),
   barred |-> Barred(c, licenses), covered |-> Covered(c, licenses)]

Witnessed(r, own) ==
  LET c == call[r]
      old == since[r]
      kept(set, now) == IF own THEN set ELSE set \cap now
  IN [dark |-> old.dark /\ (own \/ Dark(c, licenses')),
      bright |-> old.bright /\ (own \/ Bright(c, licenses')),
      standing |-> old.standing /\ (own \/ Standing(c)),
      entitled |-> old.entitled \/ Entitled(c, licenses', servers'),
      approved |-> old.approved \/ ApprovedAccount(c, accounts'),
      barred |-> kept(old.barred, Barred(c, licenses')),
      covered |-> kept(old.covered, Covered(c, licenses'))]

Observe(self) ==
  since' = [r \in Requests |->
              IF Running(r) THEN Witnessed(r, r = self)
              ELSE IF r = self THEN Arrived(call'[r])
              ELSE since[r]]

-----------------------------------------------------------------------------
Step(r) ==
  \/ RegRead(r) \/ RegWrite(r)
  \/ OrdGate(r) \/ OrdLookup(r) \/ OrdRevoke(r) \/ OrdMint(r)
  \/ RevGet(r) \/ RevSet(r)
  \/ VerUpsert(r) \/ VerGet(r)

Operator ==
  \/ AdminAccount
  \/ AdminHost \/ AdminRemoveHost
  \/ AdminAdd \/ AdminGenerate \/ AdminRevoke \/ AdminRemove
  \/ BatchList \/ BatchSet

Next ==
  \/ \E r \in Requests : (Arrive(r) \/ Step(r)) /\ Observe(r)
  \/ (Operator \/ Restart) /\ Observe(None)

Spec == Init /\ [][Next]_vars

-----------------------------------------------------------------------------
(* Type invariant *)

Locals == [todo : SUBSET Products, product : Products \cup {None},
           key : Keys \cup {None}, status : Statuses \cup {None}, regErr : BOOLEAN]
Reply == [issued : SUBSET Keys, pending : SUBSET Products, refused : SUBSET Products,
          failed : SUBSET Products, outcome : Outcomes, regErr : BOOLEAN]
History == [dark : BOOLEAN, bright : BOOLEAN, standing : BOOLEAN, entitled : BOOLEAN,
            approved : BOOLEAN, barred : SUBSET Products, covered : SUBSET Products]

TypeOK ==
  /\ licenses \in Licenses
  /\ servers \in ServerMap
  /\ accounts \in AccountMap
  /\ pc \in [Requests -> PCs]
  /\ call \in [Requests -> Call]
  /\ loc \in [Requests -> Locals]
  /\ reply \in [Requests -> Reply]
  /\ batch \in [status : {"APPROVED", "REJECTED"}, left : SUBSET Hosts]
  /\ since \in [Requests -> History]
  /\ withdrawn \subseteq Keys

-----------------------------------------------------------------------------
(* Orders *)

(* A key is handed out only by an order whose account was approved at some
   moment while the order ran: neither a block, a crash nor the other
   products of the same order let an unapproved account draw a key. *)
IssuedUnderApproval ==
  \A r \in Requests : reply[r].issued # {} => since[r].approved

(* A key handed out for PVE covers the sockets that were asked for, whether it
   was found, minted, or minted after the smaller one was revoked. *)
IssuedCoversSockets ==
  \A r \in Requests : \A k \in reply[r].issued :
    (k.product = PVE /\ call[r].sockets # None) => call[r].sockets =< k.sockets

(* The key an order hands out is the account's own, even when the operator
   edits the registry between the lookup and the answer. *)
IssuedKeyIsOwn ==
  \A r \in Requests : \A k \in reply[r].issued :
    /\ k.serial \in Requests
    /\ call[k.serial].kind = "order"
    /\ call[k.serial].account = call[r].account

(* If all an account ever held for a product during an order was revoked, the
   order mints nothing for it: a revocation is not undone by ordering again. *)
RevokedNotReissued ==
  \A r \in Requests : \A k \in reply[r].issued : k.product \notin since[r].barred

(* An account that kept a sufficient active key throughout its order gets no
   new one: the daily re-order is idempotent. *)
NoNeedlessReissue ==
  \A r \in Requests : \A k \in reply[r].issued :
    k.product \in since[r].covered => k.serial # r

(* No account ever owns two active keys for one product. *)
OneActiveKey ==
  \A a \in Accounts, p \in Products :
    \A k1, k2 \in Live(licenses, a, p) : k1 = k2

(* An order is refused as "revoked by an operator" only when an operator or the
   owner did, at some time before, withdraw a key of the account for that
   product: the server's own upgrades never lock an account out. *)
RefusedOnlyIfWithdrawn ==
  \A r \in Requests : \A p \in reply[r].refused :
    \E k \in withdrawn : k.product = p /\ k.serial \in Requests
                        /\ call[k.serial].account = call[r].account

-----------------------------------------------------------------------------
(* Accounts, owners and hosts *)

(* Revoking over the client API never invalidates a key that belongs to
   another account at the moment it is invalidated. *)
OnlyOwnerRevokes ==
  [][\A r \in Requests : (pc[r] = "rev_set" /\ pc'[r] = "done") =>
       \A k \in Keys :
         licenses'[k] # licenses[k] => licenses[k].account \in {call[r].account, None}]_vars

(* Re-registering an account whose status nobody else changed meanwhile leaves
   that status alone. *)
ReRegistrationKeepsStatus ==
  [][\A r \in Requests :
       LET a == call[r].account
       IN (pc[r] = "reg_write" /\ pc'[r] # pc[r] /\ since[r].standing /\ accounts[a] # None)
            => accounts'[a] = accounts[a]]_vars

(* A blocked account stays blocked until an operator acts: re-registration
   never undoes the decision. *)
AdminBlockStands ==
  [][\A r \in Requests :
       (pc[r] = "reg_write" /\ pc'[r] # pc[r]) =>
          \A a \in Accounts : accounts[a] = "BLOCKED" => accounts'[a] = "BLOCKED"]_vars

(* No request changes the status of a host an operator decided on; auto-approval
   reaches new and pending hosts only. *)
HostDecisionStands ==
  [][\A r \in Requests : pc'[r] # pc[r] /\ pc'[r] # "lost" =>
       \A h \in Hosts :
         servers[h] \in {"APPROVED", "BLOCKED", "REJECTED"} => servers'[h] = servers[h]]_vars

-----------------------------------------------------------------------------
(* verify.php *)

Answered(r, what) == pc[r] = "done" /\ reply[r].outcome = what

(* A key that was in the registry and invalid throughout the request is not
   honoured, whatever the status of the host. *)
RevokedKeyGoesDark ==
  \A r \in Requests : since[r].dark => ~Answered(r, "active")

(* An issued key that stayed active throughout the request is honoured on every
   named host that could be registered, whatever an operator decides on the
   host meanwhile: pending, blocked and removed ones included. *)
IssuedKeyIsHonoured ==
  \A r \in Requests :
    since[r].bright /\ ~loc[r].regErr => ~Answered(r, "inactive")

(* An active answer was earned: at some moment of the request the host was
   approved or the key was an active issued one. *)
ActiveIsEarned ==
  \A r \in Requests : Answered(r, "active") => since[r].entitled
=============================================================================
