--------------------------- MODULE EnrollSession ---------------------------
(***************************************************************************)
(* `client enroll' talking to the server's /api/v1: the client process     *)
(* (internal/cli/client_enroll.go, internal/client/acmeclient.go), the     *)
(* network between them, the server's nonce checks and responses           *)
(* (internal/transport/httpapi/apiv1.go) and the operator of the server.   *)
(*                                                                         *)
(* What a register or an order call does to the registry happens in one    *)
(* step here: LicenseService takes it apart, and shows what one account's  *)
(* calls promise.  Time counts in ticks of the client's HTTP timeout.      *)
(***************************************************************************)
EXTENDS ReplayNonces, FiniteSets

CONSTANTS Hosts,      \* each has one account and runs one enroll at a time
          Trusted,    \* the hosts whose network is auto-approved
          Products,
          Keys,
          None,       \* no nonce, no answer, no key
          MaxWait,    \* the client's HTTP timeout, in ticks
          Room,       \* nonces that must be free before a run starts (a bound)
          Events      \* subset of {"drop", "repeat", "restart", "refuse", "operator"}

ASSUME EnrollAssumption ==
  /\ Trusted \subseteq Hosts
  /\ MaxWait \in Nat \ {0}
  /\ TTL > 2 * MaxWait
  /\ Room \in Nat
  /\ None \notin Nonces /\ None \notin Keys

VARIABLES store,      \* NonceStore.issued
          client,     \* the enroll process of each host
          answer,     \* the response on its way to each host
          wire,       \* signed requests on their way to the server
          handling,   \* requests past verifyJWS, with what it found
          status,     \* the status of each host's account
          assigned,   \* the key of each account and product
          revoked,    \* the keys an operator revoked
          installed,  \* the key each product of each host has set
          life,       \* history: what became of each nonce
          calm        \* no more faults and no more operator actions

session == <<client, answer, wire, handling>>
registry == <<status, assigned, revoked>>
vars == <<store, client, answer, wire, handling, status, assigned, revoked,
          installed, life, calm>>

(* The history of a nonce: its age in ticks, or one of these. *)
Used == -1   \* a request was accepted with it
Gone == -2   \* the server process that issued it has ended

Ends == {"never ran", "error", "not approved", "complete"}
Calls == {"register", "order"}
Clients == [at : {"fetch", "await"} \cup Ends, call : Calls,
            nonce : Nonces \cup {None}, wait : 0 .. MaxWait]
Requests == [from : Hosts, call : Calls, nonce : Nonces, copy : {1, 2}]
Verified == [req : Requests, found : {"ok", "bad nonce", "no account"}]
MaybeKeys == [Products -> Keys \cup {None}]
Answers == [ok : BOOLEAN, nonce : Nonces \cup {None}, keys : MaybeKeys, pending : BOOLEAN]
NoKeys == [p \in Products |-> None]

Ended(how) == [at |-> how, call |-> "register", nonce |-> None, wait |-> 0]

Init ==
  /\ store = NewNonceStore
  /\ client = [h \in Hosts |-> Ended("never ran")]
  /\ answer = [h \in Hosts |-> None]
  /\ wire = {}
  /\ handling = {}
  /\ status = [h \in Hosts |-> "none"]
  /\ assigned = [h \in Hosts |-> NoKeys]
  /\ revoked = {}
  /\ installed = [h \in Hosts |-> NoKeys]
  /\ life = [n \in Nonces |-> Gone]
  /\ calm = FALSE

-----------------------------------------------------------------------------
(* Faults, restarts and operator actions that can still happen. *)
May(event) == ~calm /\ event \in Events

(* Nonces are random and never repeat.  Here a nonce that nobody holds any
   more stands for the next fresh one. *)
Held == {m.nonce : m \in wire} \cup {x.req.nonce : x \in handling}
          \cup {client[h].nonce : h \in Hosts}
          \cup {answer[h].nonce : h \in {g \in Hosts : answer[g] # None}}

Free == {n \in Nonces \ Held : Gc(store)[n] = Absent}

(* The header of a response: a fresh nonce, or none when Issue fails. *)
FreshNonce(n, s) ==
  \/ /\ n \in Free
     /\ store' = Issue(s, n)
     /\ life' = [life EXCEPT ![n] = 0]
  \/ /\ n = None
     /\ May("refuse") \/ Free = {}
     /\ store' = s
     /\ UNCHANGED life

Running(h) == client[h].at \in {"fetch", "await"}

End(h, how) == client' = [client EXCEPT ![h] = Ended(how)]

-----------------------------------------------------------------------------
(* The client *)

(* The timer, or a person, starts a run; one without account or nonce. *)
Start(h) ==
  /\ ~Running(h)
  /\ Cardinality(Free) >= Room
  /\ client' = [client EXCEPT ![h] = Ended("fetch")]
  /\ UNCHANGED <<store, answer, wire, handling, registry, installed, life, calm>>

(* Faulty variant: the call is signed whether there is a nonce or not. *)
PostAsIs(h, call, nonce) ==
  /\ client' = [client EXCEPT ![h] = [at |-> "await", call |-> call,
                                      nonce |-> nonce, wait |-> 0]]
  /\ wire' = wire \cup {[from |-> h, call |-> call, nonce |-> nonce, copy |-> 1]}

(* post: sign the call with the nonce at hand, or fetch one first. *)
Post(h, call, nonce) ==
  IF nonce = None
  THEN /\ client' = [client EXCEPT ![h] = [at |-> "fetch", call |-> call,
                                           nonce |-> None, wait |-> 0]]
       /\ UNCHANGED wire
  ELSE /\ client' = [client EXCEPT ![h] = [at |-> "await", call |-> call,
                                           nonce |-> nonce, wait |-> 0]]
       /\ wire' = wire \cup {[from |-> h, call |-> call, nonce |-> nonce, copy |-> 1]}

(* refreshNonce: the answer to GET new-nonce arrives. *)
Fetched(h) ==
  /\ client[h].at = "fetch"
  /\ answer[h] # None
  /\ answer' = [answer EXCEPT ![h] = None]
  /\ \/ /\ answer[h].nonce = None
        /\ End(h, "error")
        /\ UNCHANGED wire
     \/ /\ answer[h].nonce # None
        /\ Post(h, client[h].call, answer[h].nonce)
  /\ UNCHANGED <<store, handling, registry, installed, life, calm>>

(* Faulty variant: a key that is already set is left alone. *)
InstallOnce(h, keys) ==
  \E done \in SUBSET {p \in Products : keys[p] # None /\ installed[h][p] = None} :
    /\ May("refuse") \/ \A p \in Products :
         keys[p] # None /\ installed[h][p] = None => p \in done
    /\ installed' = [installed EXCEPT ![h] =
                       [p \in Products |-> IF p \in done THEN keys[p] ELSE @[p]]]

(* The keys of an order are set one after the other; each tool may fail. *)
Install(h, keys) ==
  \E done \in SUBSET {p \in Products : keys[p] # None} :
    /\ May("refuse") \/ \A p \in Products : keys[p] # None => p \in done
    /\ installed' = [installed EXCEPT ![h] =
                       [p \in Products |-> IF p \in done THEN keys[p] ELSE @[p]]]

(* The answer to a signed call arrives, and the run goes on or ends. *)
Answered(h) ==
  /\ client[h].at = "await"
  /\ answer[h] # None
  /\ answer' = [answer EXCEPT ![h] = None]
  /\ LET a == answer[h] IN
     \/ /\ ~a.ok
        /\ End(h, "error")
        /\ UNCHANGED <<wire, installed>>
     \/ /\ a.ok /\ client[h].call = "register"
        /\ Post(h, "order", a.nonce)
        /\ UNCHANGED installed
     \/ /\ a.ok /\ client[h].call = "order"
        /\ a.keys = NoKeys
        /\ End(h, "not approved")
        /\ UNCHANGED <<wire, installed>>
     \/ /\ a.ok /\ client[h].call = "order"
        /\ a.keys # NoKeys
        /\ Install(h, a.keys)
        /\ End(h, "complete")
        /\ UNCHANGED wire
  /\ UNCHANGED <<store, handling, registry, life, calm>>

(* No answer will come any more. *)
Awaits(h, m) == /\ client[h].at = "await" /\ m.from = h
                /\ m.call = client[h].call /\ m.nonce = client[h].nonce

Lost(h) == /\ answer[h] = None
           /\ client[h].at = "await"
           /\ \A m \in wire \cup {x.req : x \in handling} : ~Awaits(h, m)

(* Requests and answers are late only where they may also get lost: once
   things are calm, a call that is under way is answered in time. *)
Late(h) == May("drop") \/ Lost(h)

(* http.Client.Timeout: the run ends with an error. *)
Timeout(h) ==
  /\ Running(h)
  /\ client[h].wait = MaxWait
  /\ Late(h)
  /\ End(h, "error")
  /\ answer' = [answer EXCEPT ![h] = None]
  /\ UNCHANGED <<store, wire, handling, registry, installed, life, calm>>

-----------------------------------------------------------------------------
(* The server *)

(* v1NewNonce: issue a nonce; the response may get lost. *)
NewNonce(h) ==
  /\ client[h].at = "fetch"
  /\ answer[h] = None
  /\ \E n \in Free \cup {None} :
       /\ FreshNonce(n, store)
       /\ \/ answer' = [answer EXCEPT ![h] = [ok |-> TRUE, nonce |-> n,
                                             keys |-> NoKeys, pending |-> FALSE]]
          \/ May("drop") /\ UNCHANGED answer
  /\ UNCHANGED <<client, wire, handling, registry, installed, calm>>

(* verifyJWS: an order is signed by a known account, whose lookup can fail;
   only then the nonce is used up, good or bad. *)
Verify(m) ==
  /\ m \in wire
  /\ wire' = wire \ {m}
  /\ \/ /\ m.call = "order"
        /\ status[m.from] = "none" \/ May("refuse")
        /\ handling' = handling \cup {[req |-> m, found |-> "no account"]}
        /\ UNCHANGED <<store, life>>
     \/ /\ m.call = "order" => status[m.from] # "none"
        /\ store' = Use(store, m.nonce)
        /\ IF Usable(store, m.nonce)
           THEN /\ handling' = handling \cup {[req |-> m, found |-> "ok"]}
                /\ life' = [life EXCEPT ![m.nonce] = Used]
           ELSE /\ handling' = handling \cup {[req |-> m, found |-> "bad nonce"]}
                /\ UNCHANGED life
  /\ UNCHANGED <<client, answer, registry, installed, calm>>

(* v1NewAccount: a new account is approved or pending by its network, and
   an account that is known keeps its status. *)
Register(h) ==
  /\ status' = IF status[h] # "none" THEN status
               ELSE [status EXCEPT ![h] = IF h \in Trusted THEN "active" ELSE "pending"]
  /\ UNCHANGED <<assigned, revoked>>

FreshKeys == Keys \ ({assigned[h][p] : h \in Hosts, p \in Products}
                     \cup {installed[h][p] : h \in Hosts, p \in Products}
                     \cup UNION {{answer[h].keys[p] : p \in Products} :
                                   h \in {g \in Hosts : answer[g] # None}})

(* v1NewOrder: an approved account gets its key for each product, minted if
   it has none; a revoked one is a problem, not a key. *)
Order(h, keys) ==
  /\ IF status[h] # "active"
     THEN UNCHANGED assigned
     ELSE /\ assigned' \in [Hosts -> MaybeKeys]
          /\ \A g \in Hosts \ {h} : assigned'[g] = assigned[g]
          /\ \A p \in Products :
               IF assigned[h][p] # None THEN assigned'[h][p] = assigned[h][p]
               ELSE /\ assigned'[h][p] \in FreshKeys
                    /\ \A q \in Products \ {p} : assigned'[h][q] # assigned'[h][p]
  /\ keys = [p \in Products |->
               IF status[h] = "active" /\ assigned'[h][p] \notin revoked
               THEN assigned'[h][p] ELSE None]
  /\ UNCHANGED <<status, revoked>>

(* The handler does its work, unless the request was refused or the registry
   cannot be written, and answers with a fresh nonce.  The answer reaches the
   client if it still waits for it. *)
Handle(x) ==
  /\ x \in handling
  /\ handling' = handling \ {x}
  /\ \E ok \in BOOLEAN, keys \in MaybeKeys, n \in Free \cup {None} :
       /\ ok => x.found = "ok"
       /\ x.found = "ok" => ok \/ May("refuse")
       /\ \/ ~ok /\ keys = NoKeys /\ UNCHANGED registry
          \/ ok /\ x.req.call = "register" /\ keys = NoKeys /\ Register(x.req.from)
          \/ ok /\ x.req.call = "order" /\ Order(x.req.from, keys)
       /\ FreshNonce(n, store)
       /\ LET h == x.req.from
              a == [ok |-> ok, nonce |-> n, keys |-> keys,
                    pending |-> ok /\ x.req.call = "order" /\ status[h] # "active"]
          IN \/ /\ Awaits(h, x.req) /\ answer[h] = None
                /\ answer' = [answer EXCEPT ![h] = a]
             \/ /\ May("drop") \/ ~Awaits(h, x.req) \/ answer[h] # None
                /\ UNCHANGED answer
  /\ UNCHANGED <<client, wire, installed, calm>>

-----------------------------------------------------------------------------
(* The surroundings *)

(* A request is lost, or delivered once more. *)
Drop(m) ==
  /\ m \in wire
  /\ May("drop")
  /\ wire' = wire \ {m}
  /\ UNCHANGED <<store, client, answer, handling, registry, installed, life, calm>>

Repeat(m) ==
  /\ m \in wire \cup {x.req : x \in handling}
  /\ m.copy = 1
  /\ May("repeat")
  /\ LET again == [m EXCEPT !.copy = 2] IN
       /\ again \notin {x.req : x \in handling}
       /\ wire' = wire \cup {again}
  /\ UNCHANGED <<store, client, answer, handling, registry, installed, life, calm>>

(* The server restarts: nonces are in memory only. *)
Restart ==
  /\ May("restart")
  /\ store' = NewNonceStore
  /\ handling' = {}
  /\ life' = [n \in Nonces |-> Gone]
  /\ UNCHANGED <<client, answer, wire, registry, installed, calm>>

(* The operator approves or blocks an account, revokes a key or removes it,
   or somebody clears the key of a product on its host. *)
Approve(h) ==
  /\ May("operator") /\ status[h] # "none"
  /\ \E s \in {"active", "blocked"} : status' = [status EXCEPT ![h] = s]
  /\ UNCHANGED <<store, session, assigned, revoked, installed, life, calm>>

Revoke(k) ==
  /\ May("operator") /\ \E h \in Hosts, p \in Products : assigned[h][p] = k
  /\ revoked' = revoked \cup {k}
  /\ UNCHANGED <<store, session, status, assigned, installed, life, calm>>

Remove(h, p) ==
  /\ May("operator") /\ assigned[h][p] # None
  /\ revoked' = revoked \ {assigned[h][p]}
  /\ assigned' = [assigned EXCEPT ![h][p] = None]
  /\ UNCHANGED <<store, session, status, installed, life, calm>>

ClearKey(h, p) ==
  /\ May("operator") /\ installed[h][p] # None
  /\ installed' = [installed EXCEPT ![h][p] = None]
  /\ UNCHANGED <<store, session, registry, life, calm>>

(* Faulty variant: only fetching a nonce has a timeout. *)
TickUntimed ==
  /\ \A h \in Hosts : Running(h) => client[h].wait < MaxWait
  /\ store' = Elapse(store)
  /\ client' = [h \in Hosts |-> IF client[h].at = "fetch" THEN [client[h] EXCEPT !.wait = @ + 1]
                                ELSE client[h]]
  /\ life' = [n \in Nonces |-> IF life[n] \in 0 .. TTL - 1 THEN life[n] + 1 ELSE life[n]]
  /\ UNCHANGED <<answer, wire, handling, registry, installed, calm>>

(* Time passes, but a call does not outlive its timeout. *)
Tick ==
  /\ \A h \in Hosts : Running(h) => client[h].wait < MaxWait
  /\ store' = Elapse(store)
  /\ client' = [h \in Hosts |-> IF Running(h) THEN [client[h] EXCEPT !.wait = @ + 1]
                                ELSE client[h]]
  /\ life' = [n \in Nonces |-> IF life[n] \in 0 .. TTL - 1 THEN life[n] + 1 ELSE life[n]]
  /\ UNCHANGED <<answer, wire, handling, registry, installed, calm>>

(* From here on the network, the disk and the operator keep still. *)
CalmDown ==
  /\ ~calm
  /\ calm' = TRUE
  /\ UNCHANGED <<store, session, registry, installed, life>>

-----------------------------------------------------------------------------
Operator ==
  \/ \E h \in Hosts : Approve(h)
  \/ \E k \in Keys : Revoke(k)
  \/ \E h \in Hosts, p \in Products : Remove(h, p) \/ ClearKey(h, p)

Run(h) == Start(h) \/ Fetched(h) \/ Answered(h) \/ Timeout(h)

Serve == \/ \E h \in Hosts : NewNonce(h)
         \/ \E m \in wire : Verify(m)
         \/ \E x \in handling : Handle(x)

Disturb == Restart \/ \E m \in wire \cup {x.req : x \in handling} : Drop(m) \/ Repeat(m)

Next == (\E h \in Hosts : Run(h)) \/ Serve \/ Disturb \/ Operator \/ Tick \/ CalmDown

Spec == Init /\ [][Next]_vars

(* The timer starts a run every day, a process runs, time passes and the
   server serves what reaches it. *)
Fairness ==
  /\ \A h \in Hosts : /\ WF_vars(Start(h)) /\ WF_vars(Timeout(h))
                      /\ WF_vars(Fetched(h)) /\ WF_vars(Answered(h))
                      /\ WF_vars(NewNonce(h))
                      /\ WF_vars(\E m \in wire : m.from = h /\ Verify(m))
                      /\ WF_vars(\E x \in handling : x.req.from = h /\ Handle(x))
  /\ WF_vars(Tick)

FairSpec == Spec /\ Fairness

-----------------------------------------------------------------------------
TypeOK ==
  /\ store \in Stores
  /\ client \in [Hosts -> Clients]
  /\ answer \in [Hosts -> Answers \cup {None}]
  /\ wire \in SUBSET Requests
  /\ handling \in SUBSET Verified
  /\ status \in [Hosts -> {"none", "pending", "active", "blocked"}]
  /\ assigned \in [Hosts -> MaybeKeys]
  /\ revoked \in SUBSET Keys
  /\ installed \in [Hosts -> MaybeKeys]
  /\ life \in [Nonces -> Gone .. TTL]
  /\ calm \in BOOLEAN

(* Replay protection (apiv1.go:92, nonce.go:9): the server acts on a signed
   request only with a nonce that this server process issued less than TTL
   ago and that no request, nor another delivery of this one, has used. *)
AcceptedOnceAndFresh ==
  [][\A x \in handling' \ handling :
       x.found = "ok" => life[x.req.nonce] \in 0 .. TTL - 1]_vars

(* The lifetime of a nonce outlasts a run (server.go:61, client_enroll.go:252):
   a request that its client waits for and that was not delivered before is
   refused for its nonce only if the server restarted after issuing it. *)
OnlyRestartsSpoilNonces ==
  [][\A x \in handling' \ handling :
       x.found = "bad nonce" /\ life[x.req.nonce] # Used /\ Awaits(x.req.from, x.req)
         => life[x.req.nonce] = Gone]_vars

(* Every run ends, whatever the network and the server do. *)
EveryRunEnds == \A h \in Hosts : Running(h) ~> ~Running(h)

(* A periodic run picks up a just-approved account, a re-issued key or a
   cleared key (packaging/proxmox-license-proxy-enroll.service:22): once
   nothing changes any more, the products of an approved account end up with
   the keys the server has assigned, except those an operator revoked. *)
Licensed(h, p) == assigned[h][p] \in revoked \/
                  (assigned[h][p] # None /\ installed[h][p] = assigned[h][p])

HostCatchesUp ==
  \A h \in Hosts, p \in Products :
    calm /\ status[h] = "active" ~> [](Licensed(h, p))
=============================================================================
