------------------------ MODULE EnrollSession_proof ------------------------
(***************************************************************************)
(* Replay protection and the lifetime of nonces, for any number of hosts,  *)
(* nonces, products and keys, any lifetime of nonces, and whatever         *)
(* requests are lost, repeated or delayed: AcceptedOnceAndFresh and        *)
(* OnlyRestartsSpoilNonces.                                                *)
(***************************************************************************)
EXTENDS EnrollSession, TLAPS

(* A nonce that Use would still accept was issued by this server process,
   has not been used, and its age and the time left add up to its lifetime. *)
Accounted ==
  /\ store \in Stores
  /\ life \in [Nonces -> Gone .. TTL]
  /\ \A n \in Nonces : store[n] # Absent /\ store[n] > 0 => life[n] = TTL - store[n]

LEMMA Constants == TTL \in Nat /\ TTL > 0 /\ Absent \notin Int
BY NonceAssumption

LEMMA EmptyTyped ==
  /\ NewNonceStore \in Stores
  /\ \A n \in Nonces : NewNonceStore[n] = Absent
  /\ [n \in Nonces |-> Gone] \in [Nonces -> Gone .. TTL]
<1>1. Gone \in Gone .. TTL
  BY Constants DEF Gone
<1> QED BY <1>1 DEF NewNonceStore, Stores

(* Gc keeps every nonce that can still be used, and adds none. *)
LEMMA GcKeeps ==
  ASSUME NEW s \in Stores
  PROVE  /\ Gc(s) \in Stores
         /\ \A n \in Nonces : Gc(s)[n] # Absent => Gc(s)[n] = s[n]
BY Constants DEF Gc, Stores

LEMMA FreshNonceAccounts ==
  ASSUME Accounted, NEW n, FreshNonce(n, store)
  PROVE  Accounted'
<1> USE DEF Accounted
<1>1. CASE n = None
  <2>1. store' = store /\ life' = life
    BY <1>1, EnrollAssumption DEF FreshNonce, Free
  <2> QED BY <2>1
<1>2. CASE n # None
  <2>1. /\ n \in Nonces
        /\ store' = [Gc(store) EXCEPT ![n] = TTL]
        /\ life' = [life EXCEPT ![n] = 0]
    BY <1>2 DEF FreshNonce, Free, Issue
  <2>2. /\ Gc(store) \in Stores
        /\ \A k \in Nonces : Gc(store)[k] # Absent => Gc(store)[k] = store[k]
    BY GcKeeps
  <2>3. store' \in Stores
    BY <2>1, <2>2, Constants DEF Stores
  <2>4. life' \in [Nonces -> Gone .. TTL]
    BY <2>1, Constants DEF Gone
  <2>5. ASSUME NEW k \in Nonces, store'[k] # Absent, store'[k] > 0
        PROVE  life'[k] = TTL - store'[k]
    <3>1. CASE k = n
      BY <3>1, <2>1, <2>2, Constants DEF Stores
    <3>2. CASE k # n
      BY <3>2, <2>5, <2>1, <2>2 DEF Stores
    <3> QED BY <3>1, <3>2
  <2> QED BY <2>3, <2>4, <2>5
<1> QED BY <1>1, <1>2

LEMMA VerifyAccounts ==
  ASSUME Accounted, NEW m, Verify(m), wire \in SUBSET Requests
  PROVE  Accounted'
<1> USE DEF Accounted
<1>1. m.nonce \in Nonces
  BY DEF Verify, Requests
<1>2. CASE store' = store /\ life' = life
  BY <1>2
<1>3. CASE store' = Use(store, m.nonce) /\ life' \in {life, [life EXCEPT ![m.nonce] = Used]}
  <2>1. store' = [store EXCEPT ![m.nonce] = Absent]
    BY <1>3 DEF Use
  <2>2. store' \in Stores
    BY <2>1 DEF Stores
  <2>3. life' \in [Nonces -> Gone .. TTL]
    BY <1>3, <1>1, Constants DEF Gone, Used
  <2>4. ASSUME NEW k \in Nonces, store'[k] # Absent, store'[k] > 0
        PROVE  life'[k] = TTL - store'[k]
    <3>1. k # m.nonce /\ store'[k] = store[k]
      BY <2>4, <2>1 DEF Stores
    <3>2. life'[k] = life[k]
      BY <3>1, <1>3, <1>1
    <3> QED BY <3>1, <3>2, <2>4
  <2> QED BY <2>2, <2>3, <2>4
<1> QED BY <1>2, <1>3 DEF Verify

LEMMA TickTyped ==
  ASSUME store \in Stores, life \in [Nonces -> Gone .. TTL], Tick
  PROVE  store' \in Stores /\ life' \in [Nonces -> Gone .. TTL]
<1>1. store' = Elapse(store)
  BY DEF Tick
<1>2. life' = [n \in Nonces |-> IF life[n] \in 0 .. TTL - 1 THEN life[n] + 1 ELSE life[n]]
  BY DEF Tick
<1>3. store' \in Stores
  BY <1>1, Constants DEF Elapse, Stores
<1>4. life' \in [Nonces -> Gone .. TTL]
  BY <1>2, Constants DEF Gone
<1> QED BY <1>3, <1>4

LEMMA TickAccounts ==
  ASSUME Accounted, Tick
  PROVE  Accounted'
<1> USE DEF Accounted
<1>1. store' = Elapse(store)
  BY DEF Tick
<1>2. life' = [n \in Nonces |-> IF life[n] \in 0 .. TTL - 1 THEN life[n] + 1 ELSE life[n]]
  BY DEF Tick
<1>3. store' \in Stores
  BY TickTyped
<1>4. life' \in [Nonces -> Gone .. TTL]
  BY TickTyped
<1>5. ASSUME NEW k \in Nonces, store'[k] # Absent, store'[k] > 0
      PROVE  life'[k] = TTL - store'[k]
  <2>1. store[k] # Absent /\ store[k] \in 2 .. TTL /\ store'[k] = store[k] - 1
    BY <1>1, <1>5, Constants DEF Elapse, Stores
  <2>2. life[k] = TTL - store[k] /\ life[k] \in 0 .. TTL - 1
    BY <2>1, Constants
  <2> QED BY <2>1, <2>2, <1>2, Constants
<1> QED BY <1>3, <1>4, <1>5

-----------------------------------------------------------------------------
(* Types *)

LEMMA EndedTyped ==
  ASSUME NEW how \in Ends \cup {"fetch"}
  PROVE  Ended(how) \in Clients
BY EnrollAssumption DEF Ended, Clients, Calls

LEMMA PostTyped ==
  ASSUME client \in [Hosts -> Clients], wire \in SUBSET Requests,
         NEW h \in Hosts, NEW call \in Calls, NEW nonce \in Nonces \cup {None},
         Post(h, call, nonce)
  PROVE  client' \in [Hosts -> Clients] /\ wire' \in SUBSET Requests
<1>1. CASE nonce = None
  <2> DEFINE c == [at |-> "fetch", call |-> call, nonce |-> None, wait |-> 0]
  <2>1. c \in Clients
    BY EnrollAssumption DEF Clients
  <2> HIDE DEF c
  <2>2. client' = [client EXCEPT ![h] = c] /\ wire' = wire
    BY <1>1 DEF Post, c
  <2> QED BY <2>1, <2>2
<1>2. CASE nonce # None
  <2> DEFINE c == [at |-> "await", call |-> call, nonce |-> nonce, wait |-> 0]
             m == [from |-> h, call |-> call, nonce |-> nonce, copy |-> 1]
  <2>1. c \in Clients
    BY EnrollAssumption DEF Clients
  <2>2. m \in Requests
    BY <1>2 DEF Requests
  <2> HIDE DEF c, m
  <2>3. client' = [client EXCEPT ![h] = c] /\ wire' = wire \cup {m}
    BY <1>2 DEF Post, c, m
  <2> QED BY <2>1, <2>2, <2>3
<1> QED BY <1>1, <1>2

LEMMA FreshNonceTyped ==
  ASSUME store \in Stores, life \in [Nonces -> Gone .. TTL],
         NEW n, FreshNonce(n, store)
  PROVE  n \in Nonces \cup {None} /\ store' \in Stores /\ life' \in [Nonces -> Gone .. TTL]
<1>1. CASE n = None
  BY <1>1, EnrollAssumption DEF FreshNonce, Free
<1>2. CASE n # None
  <2>1. /\ n \in Nonces
        /\ store' = [Gc(store) EXCEPT ![n] = TTL]
        /\ life' = [life EXCEPT ![n] = 0]
    BY <1>2 DEF FreshNonce, Free, Issue
  <2>2. Gc(store) \in Stores
    BY GcKeeps
  <2>3. store' \in Stores
    BY <2>1, <2>2, Constants DEF Stores
  <2>4. life' \in [Nonces -> Gone .. TTL]
    BY <2>1, Constants DEF Gone
  <2> QED BY <2>1, <2>3, <2>4
<1> QED BY <1>1, <1>2

LEMMA ClientTypes ==
  ASSUME TypeOK, NEW h \in Hosts, Run(h)
  PROVE  TypeOK'
<1> USE DEF TypeOK, registry
<1>1. CASE Start(h)
  <2>1. client' = [client EXCEPT ![h] = Ended("fetch")]
    BY <1>1 DEF Start
  <2>2. client' \in [Hosts -> Clients]
    BY <2>1, EndedTyped
  <2> QED BY <2>2, <1>1 DEF Start
<1>2. CASE Timeout(h)
  <2>1. client' = [client EXCEPT ![h] = Ended("error")] /\ answer' = [answer EXCEPT ![h] = None]
    BY <1>2 DEF Timeout, End
  <2>2. client' \in [Hosts -> Clients]
    BY <2>1, EndedTyped DEF Ends
  <2> QED BY <2>1, <2>2, <1>2 DEF Timeout
<1>3. CASE Fetched(h)
  <2>1. answer[h] \in Answers /\ answer' = [answer EXCEPT ![h] = None]
    BY <1>3 DEF Fetched
  <2>2. client' \in [Hosts -> Clients] /\ wire' \in SUBSET Requests
    <3>1. CASE End(h, "error") /\ UNCHANGED wire
      BY <3>1, EndedTyped DEF End, Ends
    <3>2. CASE Post(h, client[h].call, answer[h].nonce)
      <4>1. client[h].call \in Calls /\ answer[h].nonce \in Nonces \cup {None}
        BY <2>1 DEF Answers, Clients
      <4> QED BY <4>1, <3>2, PostTyped
    <3> QED BY <1>3, <3>1, <3>2 DEF Fetched
  <2> QED BY <2>1, <2>2, <1>3 DEF Fetched
<1>4. CASE Answered(h)
  <2>1. answer[h] \in Answers /\ answer' = [answer EXCEPT ![h] = None]
    BY <1>4 DEF Answered
  <2>2. installed' \in [Hosts -> MaybeKeys]
    <3>1. CASE installed' = installed
      BY <3>1
    <3>2. CASE Install(h, answer[h].keys)
      <4>1. answer[h].keys \in MaybeKeys
        BY <2>1 DEF Answers
      <4>2. PICK done \in SUBSET Products :
              installed' = [installed EXCEPT ![h] =
                 [p \in Products |-> IF p \in done THEN answer[h].keys[p] ELSE installed[h][p]]]
        BY <3>2 DEF Install
      <4>3. [p \in Products |-> IF p \in done THEN answer[h].keys[p] ELSE installed[h][p]]
              \in MaybeKeys
        BY <4>1 DEF MaybeKeys
      <4> QED BY <4>2, <4>3
    <3> QED BY <1>4, <3>1, <3>2 DEF Answered
  <2>3. client' \in [Hosts -> Clients] /\ wire' \in SUBSET Requests
    <3>1. ASSUME NEW how \in Ends, End(h, how), UNCHANGED wire
          PROVE  client' \in [Hosts -> Clients] /\ wire' \in SUBSET Requests
      BY <3>1, EndedTyped DEF End
    <3>2. CASE Post(h, "order", answer[h].nonce)
      <4>1. answer[h].nonce \in Nonces \cup {None} /\ "order" \in Calls
        BY <2>1 DEF Answers, Calls
      <4> QED BY <4>1, <3>2, PostTyped
    <3> QED BY <1>4, <3>1, <3>2 DEF Answered, Ends
  <2> QED BY <2>1, <2>2, <2>3, <1>4 DEF Answered
<1> QED BY <1>1, <1>2, <1>3, <1>4 DEF Run

LEMMA VerifyTypes ==
  ASSUME TypeOK, NEW m \in wire, Verify(m)
  PROVE  TypeOK'
<1> USE DEF TypeOK, registry
<1>1. m \in Requests /\ m.nonce \in Nonces
  BY DEF Requests
<1>2. /\ [req |-> m, found |-> "ok"] \in Verified
      /\ [req |-> m, found |-> "bad nonce"] \in Verified
      /\ [req |-> m, found |-> "no account"] \in Verified
  BY <1>1 DEF Verified
<1>3. handling' \in SUBSET Verified
  <2>1. \E f \in {"ok", "bad nonce", "no account"} :
          handling' = handling \cup {[req |-> m, found |-> f]}
    BY DEF Verify
  <2> QED BY <2>1, <1>2
<1>4. store' \in Stores
  <2>1. store' = store \/ store' = [store EXCEPT ![m.nonce] = Absent]
    BY DEF Verify, Use
  <2> QED BY <2>1 DEF Stores
<1>5. life' \in [Nonces -> Gone .. TTL]
  <2>1. life' = life \/ life' = [life EXCEPT ![m.nonce] = Used]
    BY DEF Verify
  <2>2. Used \in Gone .. TTL
    BY Constants DEF Gone, Used
  <2> QED BY <2>1, <2>2
<1> QED BY <1>3, <1>4, <1>5 DEF Verify

LEMMA NewNonceTypes ==
  ASSUME TypeOK, NEW h \in Hosts, NewNonce(h)
  PROVE  TypeOK'
<1> USE DEF TypeOK, registry
<1>1. PICK n \in Free \cup {None} :
        /\ FreshNonce(n, store)
        /\ \/ answer' = [answer EXCEPT ![h] = [ok |-> TRUE, nonce |-> n,
                                              keys |-> NoKeys, pending |-> FALSE]]
           \/ UNCHANGED answer
  BY DEF NewNonce
<1>2. n \in Nonces \cup {None} /\ store' \in Stores /\ life' \in [Nonces -> Gone .. TTL]
  BY <1>1, FreshNonceTyped
<1>3. [ok |-> TRUE, nonce |-> n, keys |-> NoKeys, pending |-> FALSE] \in Answers
  BY <1>2 DEF Answers, NoKeys, MaybeKeys
<1>4. answer' \in [Hosts -> Answers \cup {None}]
  BY <1>1, <1>3
<1> QED BY <1>2, <1>4 DEF NewNonce

LEMMA HandleTypes ==
  ASSUME TypeOK, NEW x \in handling, Handle(x)
  PROVE  TypeOK'
<1> USE DEF TypeOK
<1>1. x.req.from \in Hosts
  BY DEF Requests, Verified
<1> DEFINE h == x.req.from
<1>2. PICK ok \in BOOLEAN, keys \in MaybeKeys, n \in Free \cup {None} :
        /\ \/ UNCHANGED registry
           \/ Register(h)
           \/ Order(h, keys)
        /\ FreshNonce(n, store)
        /\ \/ answer' = [answer EXCEPT ![h] =
                 [ok |-> ok, nonce |-> n, keys |-> keys,
                  pending |-> ok /\ x.req.call = "order" /\ status[h] # "active"]]
           \/ UNCHANGED answer
  BY DEF Handle
<1>3. n \in Nonces \cup {None} /\ store' \in Stores /\ life' \in [Nonces -> Gone .. TTL]
  BY <1>2, FreshNonceTyped
<1>4. answer' \in [Hosts -> Answers \cup {None}]
  <2> DEFINE late == ok /\ x.req.call = "order" /\ status[h] # "active"
             a == [ok |-> ok, nonce |-> n, keys |-> keys, pending |-> late]
  <2>1. late \in BOOLEAN
    OBVIOUS
  <2> HIDE DEF late
  <2>2. a \in Answers
    BY <2>1, <1>3 DEF Answers
  <2> HIDE DEF a
  <2>3. answer' = [answer EXCEPT ![h] = a] \/ answer' = answer
    BY <1>2 DEF a, late
  <2> QED BY <2>2, <2>3, <1>1
<1>5. /\ status' \in [Hosts -> {"none", "pending", "active", "blocked"}]
      /\ assigned' \in [Hosts -> MaybeKeys]
      /\ revoked' \in SUBSET Keys
  <2>1. CASE UNCHANGED registry
    BY <2>1 DEF registry
  <2>2. CASE Register(h)
    BY <2>2, <1>1 DEF Register
  <2>3. CASE Order(h, keys)
    BY <2>3 DEF Order
  <2> QED BY <1>2, <2>1, <2>2, <2>3
<1>6. handling' \in SUBSET Verified
  BY DEF Handle
<1> QED BY <1>3, <1>4, <1>5, <1>6 DEF Handle

LEMMA SurroundingsTypes ==
  ASSUME TypeOK, Disturb \/ Operator \/ Tick \/ CalmDown
  PROVE  TypeOK'
<1> USE DEF TypeOK, registry, session
<1>1. CASE Restart
  BY <1>1, EmptyTyped DEF Restart
<1>2. ASSUME NEW m \in wire \cup {x.req : x \in handling}, Drop(m) \/ Repeat(m)
      PROVE  TypeOK'
  <2>1. m \in Requests
    BY DEF Verified
  <2>2. [m EXCEPT !.copy = 2] \in Requests
    BY <2>1 DEF Requests
  <2> QED BY <1>2, <2>2 DEF Drop, Repeat
<1>3. ASSUME NEW h \in Hosts, Approve(h)
      PROVE  TypeOK'
  BY <1>3 DEF Approve
<1>4. ASSUME NEW k \in Keys, Revoke(k)
      PROVE  TypeOK'
  BY <1>4 DEF Revoke
<1>5. ASSUME NEW h \in Hosts, NEW p \in Products, Remove(h, p) \/ ClearKey(h, p)
      PROVE  TypeOK'
  <2>1. CASE Remove(h, p)
    BY <2>1 DEF Remove, MaybeKeys
  <2>2. CASE ClearKey(h, p)
    BY <2>2 DEF ClearKey, MaybeKeys
  <2> QED BY <1>5, <2>1, <2>2
<1>6. CASE Tick
  <2>1. store' \in Stores /\ life' \in [Nonces -> Gone .. TTL]
    BY <1>6, TickTyped
  <2>3. ASSUME NEW h \in Hosts
        PROVE  client'[h] \in Clients
    <3>1. CASE Running(h)
      <4>1. client[h] \in Clients /\ client[h].wait < MaxWait
        BY <1>6, <3>1 DEF Tick, Clients
      <4>3. client[h].wait \in 0 .. MaxWait /\ MaxWait \in Nat
        BY <4>1, EnrollAssumption DEF Clients
      <4>4. client[h].wait + 1 \in 0 .. MaxWait
        BY <4>1, <4>3
      <4>2. client'[h] = [client[h] EXCEPT !.wait = @ + 1]
        BY <1>6, <3>1 DEF Tick
      <4> QED BY <4>1, <4>2, <4>4 DEF Clients
    <3>2. CASE ~Running(h)
      BY <1>6, <3>2 DEF Tick, Clients
    <3> QED BY <3>1, <3>2
  <2>4. client' \in [Hosts -> Clients]
    BY <2>3, <1>6 DEF Tick
  <2> QED BY <2>1, <2>4, <1>6 DEF Tick, Clients
<1>7. CASE CalmDown
  BY <1>7 DEF CalmDown
<1> QED BY <1>1, <1>2, <1>3, <1>4, <1>5, <1>6, <1>7 DEF Disturb, Operator

(* Every variable keeps its type: in particular the client signs no call
   without a nonce (acmeclient.go:120). *)
THEOREM EnrollTypes == Spec => []TypeOK
<1>1. Init => TypeOK
  <2> SUFFICES ASSUME Init PROVE TypeOK
    OBVIOUS
  <2>1. client \in [Hosts -> Clients]
    <3>1. Ended("never ran") \in Clients
      BY EndedTyped DEF Ends
    <3> QED BY <3>1 DEF Init
  <2>2. store \in Stores /\ life \in [Nonces -> Gone .. TTL]
    BY EmptyTyped DEF Init
  <2> QED BY <2>1, <2>2 DEF Init, TypeOK, Clients, MaybeKeys, NoKeys
<1>2. TypeOK /\ [Next]_vars => TypeOK'
  <2> SUFFICES ASSUME TypeOK, [Next]_vars PROVE TypeOK'
    OBVIOUS
  <2>1. CASE UNCHANGED vars
    BY <2>1 DEF vars, TypeOK
  <2> QED
    BY <2>1, ClientTypes, VerifyTypes, NewNonceTypes, HandleTypes, SurroundingsTypes
       DEF Next, Serve
<1> QED BY <1>1, <1>2, PTL DEF Spec

-----------------------------------------------------------------------------
LEMMA NextAccounts == TypeOK /\ Accounted /\ [Next]_vars => Accounted'
<1> SUFFICES ASSUME TypeOK, Accounted, [Next]_vars PROVE Accounted'
  OBVIOUS
<1>1. CASE store' = store /\ life' = life
  BY <1>1 DEF Accounted
<1>2. ASSUME NEW m \in wire, Verify(m)
      PROVE  Accounted'
  BY <1>2, VerifyAccounts DEF TypeOK
<1>3. ASSUME NEW n, FreshNonce(n, store)
      PROVE  Accounted'
  BY <1>3, FreshNonceAccounts
<1>4. CASE Restart
  BY <1>4, EmptyTyped DEF Restart, Accounted
<1>5. CASE Tick
  BY <1>5, TickAccounts
<1>6. CASE UNCHANGED vars
  BY <1>6, <1>1 DEF vars
<1>7. ASSUME NEW h \in Hosts, Run(h)
      PROVE  Accounted'
  BY <1>7, <1>1 DEF Run, Start, Fetched, Answered, Timeout
<1>8. CASE Operator \/ CalmDown
  BY <1>8, <1>1 DEF Operator, Approve, Revoke, Remove, ClearKey, CalmDown
<1>9. ASSUME NEW m, Drop(m) \/ Repeat(m)
      PROVE  Accounted'
  BY <1>9, <1>1 DEF Drop, Repeat
<1>10. CASE Serve
  <2>1. ASSUME NEW h \in Hosts, NewNonce(h)
        PROVE  Accounted'
    BY <2>1, <1>3 DEF NewNonce
  <2>2. ASSUME NEW x \in handling, Handle(x)
        PROVE  Accounted'
    BY <2>2, <1>3 DEF Handle
  <2> QED BY <1>10, <1>2, <2>1, <2>2 DEF Serve
<1> QED BY <1>4, <1>5, <1>6, <1>7, <1>8, <1>9, <1>10 DEF Next, Disturb

(* Replay protection: a step that lets a request pass verifyJWS finds its
   nonce issued by this server process less than TTL ago and never used,
   however requests are lost, repeated, delayed and interleaved. *)
THEOREM ReplayProtection == Spec => AcceptedOnceAndFresh
<1> DEFINE Accepts ==
      \A x \in handling' \ handling : x.found = "ok" => life[x.req.nonce] \in 0 .. TTL - 1
<1>1. Init => Accounted
  BY EmptyTyped DEF Init, Accounted
<1>2. TypeOK /\ Accounted /\ [Next]_vars => [Accepts]_vars
  <2> SUFFICES ASSUME TypeOK, Accounted, Next PROVE Accepts
    OBVIOUS
  <2>1. ASSUME handling' \subseteq handling
        PROVE  Accepts
    BY <2>1
  <2>2. ASSUME NEW m \in wire, Verify(m)
        PROVE  Accepts
    <3> SUFFICES ASSUME NEW x \in handling' \ handling, x.found = "ok"
                 PROVE  life[x.req.nonce] \in 0 .. TTL - 1
      OBVIOUS
    <3>1. x = [req |-> m, found |-> "ok"] /\ Usable(store, m.nonce)
      <4>1. x \in {[req |-> m, found |-> "no account"], [req |-> m, found |-> "ok"],
                   [req |-> m, found |-> "bad nonce"]}
        BY <2>2 DEF Verify
      <4>2. /\ [req |-> m, found |-> "bad nonce"].found # "ok"
            /\ [req |-> m, found |-> "no account"].found # "ok"
            /\ [req |-> m, found |-> "ok"].found = "ok"
        OBVIOUS
      <4>3. /\ x = [req |-> m, found |-> "ok"]
            /\ x # [req |-> m, found |-> "bad nonce"]
            /\ x # [req |-> m, found |-> "no account"]
        BY <4>1, <4>2, Zenon
      <4> QED BY <4>3, <2>2 DEF Verify
    <3>2. m.nonce \in Nonces
      BY DEF TypeOK, Requests
    <3>3. store[m.nonce] \in 1 .. TTL
      BY <3>1, <3>2, Constants DEF Usable, Accounted, Stores
    <3>4. life[m.nonce] = TTL - store[m.nonce]
      BY <3>3, <3>2, Constants DEF Accounted
    <3> QED BY <3>1, <3>3, <3>4, Constants
  <2>3. ASSUME NEW h \in Hosts, Run(h)
        PROVE  handling' \subseteq handling
    BY <2>3 DEF Run, Start, Fetched, Answered, Timeout
  <2>4. CASE Disturb \/ Operator \/ Tick \/ CalmDown
    <3>1. handling' \subseteq handling
      BY <2>4 DEF Disturb, Restart, Drop, Repeat, Operator, Approve, Revoke, Remove,
                  ClearKey, Tick, CalmDown, session
    <3> QED BY <3>1, <2>1
  <2>5. CASE Serve
    <3>1. ASSUME NEW h \in Hosts, NewNonce(h)
          PROVE  handling' \subseteq handling
      BY <3>1 DEF NewNonce
    <3>2. ASSUME NEW x \in handling, Handle(x)
          PROVE  handling' \subseteq handling
      BY <3>2 DEF Handle
    <3> QED BY <2>5, <2>1, <2>2, <3>1, <3>2 DEF Serve
  <2> QED BY <2>1, <2>3, <2>4, <2>5 DEF Next
<1>3. TypeOK /\ Accounted /\ [Next]_vars => Accounted'
  BY NextAccounts
<1> QED BY <1>1, <1>2, <1>3, EnrollTypes, PTL DEF Spec, AcceptedOnceAndFresh

-----------------------------------------------------------------------------
(***************************************************************************)
(* A nonce outlasts the call that brings it and the call that uses it.     *)
(* Counted is the other direction of Accounted: a nonce that is young and  *)
(* unused is in the store.  Young bounds the age of a nonce by the time    *)
(* its client has waited: for the answer that carries it, then for the     *)
(* answer to the request it signs.                                         *)
(***************************************************************************)
Counted ==
  \A n \in Nonces : life[n] \in 0 .. TTL - 1 => store[n] = TTL - life[n]

Since(n, ticks) == life[n] \in {Used, Gone} \/ life[n] \in 0 .. ticks

YoungOf(h) ==
  /\ answer[h] # None => Running(h) /\ (answer[h].nonce # None =>
                                          Since(answer[h].nonce, client[h].wait))
  /\ client[h].at = "await" => /\ client[h].nonce \in Nonces
                               /\ Since(client[h].nonce, MaxWait + client[h].wait)

Young == Counted /\ \A h \in Hosts : YoungOf(h)

LEMMA Ticks ==
  /\ MaxWait \in Nat /\ TTL \in Nat
  /\ MaxWait + MaxWait < TTL
  /\ None \notin Nonces
BY EnrollAssumption, Constants

(* A nonce that somebody holds is not handed out again, so its history stays;
   the fresh one is young. *)
LEMMA FreshNonceCounts ==
  ASSUME TypeOK, Counted, NEW n, FreshNonce(n, store)
  PROVE  /\ Counted'
         /\ n # None => n \in Nonces /\ life'[n] = 0
         /\ \A k \in Held : life'[k] = life[k]
<1>1. CASE n = None
  BY <1>1, Ticks DEF FreshNonce, Free, Counted
<1>2. CASE n # None
  <2>1. /\ n \in Nonces /\ n \notin Held
        /\ store' = [Gc(store) EXCEPT ![n] = TTL]
        /\ life' = [life EXCEPT ![n] = 0]
    BY <1>2 DEF FreshNonce, Free, Issue
  <2>2. life'[n] = 0 /\ \A k \in Nonces : k # n => life'[k] = life[k]
    BY <2>1 DEF TypeOK
  <2>3. \A k \in Held : life'[k] = life[k]
    BY <2>1 DEF TypeOK
  <2>4. ASSUME NEW k \in Nonces, life'[k] \in 0 .. TTL - 1
        PROVE  store'[k] = TTL - life'[k]
    <3>1. CASE k = n
      BY <3>1, <2>1, <2>2, GcKeeps, Constants DEF TypeOK, Stores
    <3>2. CASE k # n
      <4>1. life[k] \in 0 .. TTL - 1 /\ store[k] = TTL - life[k]
        BY <3>2, <2>2, <2>4 DEF Counted
      <4>2. store[k] # -1
        BY <4>1, Constants
      <4>3. store'[k] = store[k]
        BY <3>2, <4>2, <2>1 DEF Gc
      <4> QED BY <4>1, <4>3, <3>2, <2>2
    <3> QED BY <3>1, <3>2
  <2> QED BY <2>1, <2>2, <2>3, <2>4 DEF Counted
<1> QED BY <1>1, <1>2

LEMMA VerifyCounts ==
  ASSUME TypeOK, Counted, NEW m \in wire, Verify(m)
  PROVE  Counted' /\ \A k \in Nonces : life'[k] \in {life[k], Used}
<1>1. m.nonce \in Nonces
  BY DEF TypeOK, Requests
<1>2. CASE store' = store /\ life' = life
  BY <1>2 DEF Counted
<1>3. CASE store' = Use(store, m.nonce) /\ Usable(store, m.nonce) /\ life' = [life EXCEPT ![m.nonce] = Used]
  <2>1. /\ life'[m.nonce] = Used
        /\ \A k \in Nonces : k # m.nonce => life'[k] = life[k] /\ store'[k] = store[k]
    BY <1>1, <1>3 DEF TypeOK, Use, Stores
  <2>2. Used \notin 0 .. TTL - 1
    BY Constants DEF Used
  <2> QED BY <2>1, <2>2 DEF Counted
<1>4. CASE store' = Use(store, m.nonce) /\ ~Usable(store, m.nonce) /\ life' = life
  <2>1. \A k \in Nonces : k # m.nonce => store'[k] = store[k]
    BY <1>1, <1>4 DEF TypeOK, Use, Stores
  <2>2. life[m.nonce] \notin 0 .. TTL - 1
    <3> SUFFICES ASSUME life[m.nonce] \in 0 .. TTL - 1 PROVE FALSE
      OBVIOUS
    <3>1. store[m.nonce] = TTL - life[m.nonce]
      BY <1>1 DEF Counted
    <3>2. store[m.nonce] \in Int /\ store[m.nonce] > 0
      BY <3>1, Constants
    <3> QED BY <1>4, <3>2, Constants DEF Usable
  <2> QED BY <1>4, <2>1, <2>2 DEF Counted
<1> QED BY <1>2, <1>3, <1>4 DEF Verify

LEMMA TickCounts ==
  ASSUME TypeOK, Counted, Tick
  PROVE  /\ Counted'
         /\ \A k \in Nonces : life[k] \in 0 .. TTL - 1 => life'[k] = life[k] + 1
         /\ \A k \in Nonces : life[k] \notin 0 .. TTL - 1 => life'[k] = life[k]
<1>1. store' = Elapse(store)
  BY DEF Tick
<1>2. life' = [n \in Nonces |-> IF life[n] \in 0 .. TTL - 1 THEN life[n] + 1 ELSE life[n]]
  BY DEF Tick
<1>3. ASSUME NEW k \in Nonces, life'[k] \in 0 .. TTL - 1
      PROVE  store'[k] = TTL - life'[k]
  <2>1. life[k] \in 0 .. TTL - 1 /\ life'[k] = life[k] + 1
    BY <1>2, <1>3
  <2>2. store[k] = TTL - life[k]
    BY <2>1 DEF Counted
  <2>3. store[k] # Absent /\ store[k] # -1
    BY <2>1, <2>2, Constants
  <2>4. store'[k] = store[k] - 1
    BY <1>1, <2>3 DEF Elapse
  <2> QED BY <2>1, <2>2, <2>4, Constants
<1> QED BY <1>2, <1>3 DEF Counted

LEMMA ClientFacts ==
  ASSUME TypeOK, NEW h \in Hosts
  PROVE  /\ client[h].wait \in 0 .. MaxWait
         /\ answer[h] # None => answer[h].nonce \in Nonces \cup {None}
         /\ client[h].nonce \in Held
         /\ answer[h] # None => answer[h].nonce \in Held
<1>1. client[h] \in Clients /\ answer[h] \in Answers \cup {None}
  BY DEF TypeOK
<1>2. client[h].wait \in 0 .. MaxWait
  BY <1>1 DEF Clients
<1>3. answer[h] # None => answer[h].nonce \in Nonces \cup {None}
  BY <1>1 DEF Answers
<1> QED BY <1>2, <1>3 DEF Held

(* The client's own steps: a nonce moves from an answer to the request. *)
LEMMA RunYoung ==
  ASSUME TypeOK, Young, NEW h \in Hosts, Run(h)
  PROVE  \A g \in Hosts : YoungOf(g)'
<1>1. life' = life
  BY DEF Run, Start, Fetched, Answered, Timeout
<1>2. ASSUME NEW g \in Hosts, answer'[g] = answer[g], client'[g] = client[g]
      PROVE  YoungOf(g)'
  BY <1>1, <1>2 DEF Young, YoungOf, Running, Since
<1>3. /\ \E c : client' = [client EXCEPT ![h] = c]
      /\ answer' = answer \/ answer' = [answer EXCEPT ![h] = None]
  BY DEF Run, Start, Fetched, Answered, Timeout, End, Post
<1>4. \A g \in Hosts \ {h} : answer'[g] = answer[g] /\ client'[g] = client[g]
  BY <1>3 DEF TypeOK
<1>5. ASSUME NEW how \in Ends \cup {"fetch"}, client' = [client EXCEPT ![h] = Ended(how)], answer'[h] = None
      PROVE  YoungOf(h)'
  <2>1. client'[h].at = how /\ how # "await"
    BY <1>5 DEF TypeOK, Ended, Ends
  <2> QED BY <1>5, <2>1 DEF YoungOf
<1>6. ASSUME NEW call, NEW nonce, answer[h] # None, nonce = answer[h].nonce, Post(h, call, nonce),
             answer'[h] = None
      PROVE  YoungOf(h)'
  <2>1. CASE nonce = None
    <3>1. client' = [client EXCEPT ![h] = [at |-> "fetch", call |-> call, nonce |-> None, wait |-> 0]]
      BY <1>6, <2>1 DEF Post
    <3>2. client'[h].at = "fetch"
      BY <3>1 DEF TypeOK
    <3> QED BY <1>6, <3>2 DEF YoungOf
  <2>2. CASE nonce # None
    <3>1. client' = [client EXCEPT ![h] = [at |-> "await", call |-> call, nonce |-> nonce, wait |-> 0]]
      BY <1>6, <2>2 DEF Post
    <3>2. client'[h].nonce = nonce /\ client'[h].wait = 0
      BY <3>1 DEF TypeOK
    <3>3. nonce \in Nonces /\ Since(nonce, client[h].wait)
      BY <1>6, <2>2, ClientFacts DEF Young, YoungOf
    <3>4. Since(nonce, MaxWait + 0)
      BY <3>3, ClientFacts, Ticks DEF Since
    <3>5. Since(client[h].nonce, MaxWait + client[h].wait)'
      BY <1>1, <3>2, <3>4 DEF Since
    <3> QED BY <1>6, <3>2, <3>3, <3>5 DEF YoungOf
  <2> QED BY <2>1, <2>2
<1>7. YoungOf(h)'
  <2>1. CASE Start(h)
    <3>1. answer[h] = None
      BY <2>1 DEF Start, Young, YoungOf
    <3> QED BY <1>5, <2>1, <3>1 DEF Start
  <2>2. CASE Timeout(h)
    <3>1. answer'[h] = None
      BY <2>2 DEF Timeout, TypeOK
    <3> QED BY <1>5, <2>2, <3>1 DEF Timeout, End, Ends
  <2>3. CASE Fetched(h)
    <3>1. answer'[h] = None
      BY <2>3 DEF Fetched, TypeOK
    <3>2. \/ client' = [client EXCEPT ![h] = Ended("error")]
          \/ Post(h, client[h].call, answer[h].nonce)
      BY <2>3 DEF Fetched, End
    <3> QED BY <1>5, <1>6, <2>3, <3>1, <3>2 DEF Fetched, Ends
  <2>4. CASE Answered(h)
    <3>1. answer'[h] = None /\ answer[h] # None
      BY <2>4 DEF Answered, TypeOK
    <3>2. \/ \E how \in Ends : client' = [client EXCEPT ![h] = Ended(how)]
          \/ Post(h, "order", answer[h].nonce)
      BY <2>4 DEF Answered, End, Ends
    <3> QED BY <1>5, <1>6, <3>1, <3>2
  <2> QED BY <2>1, <2>2, <2>3, <2>4 DEF Run
<1> QED BY <1>2, <1>4, <1>7

(* The server's answers carry a fresh nonce or none. *)
LEMMA AnswerYoung ==
  ASSUME TypeOK, Young, NEW n, FreshNonce(n, store), NEW h \in Hosts, NEW a,
         client' = client,
         answer' = answer \/ (answer' = [answer EXCEPT ![h] = a] /\ Running(h) /\ a.nonce = n)
  PROVE  \A g \in Hosts : YoungOf(g)'
<1> SUFFICES ASSUME NEW g \in Hosts PROVE YoungOf(g)'
  OBVIOUS
<1>1. /\ n # None => n \in Nonces /\ life'[n] = 0
      /\ \A k \in Held : life'[k] = life[k]
  BY FreshNonceCounts DEF Young
<1>2. client[g].nonce \in Held /\ client[g].wait \in 0 .. MaxWait
  BY ClientFacts
<1>3. client[g].at = "await" => Since(client[g].nonce, MaxWait + client[g].wait)'
  BY <1>1, <1>2 DEF Young, YoungOf, Since
<1>4. CASE answer'[g] = answer[g]
  <2>1. answer[g] # None => answer[g].nonce \in Held
    BY ClientFacts
  <2>2. (answer[g] # None /\ answer[g].nonce # None => Since(answer[g].nonce, client[g].wait))'
    BY <1>1, <1>4, <2>1 DEF Young, YoungOf, Since
  <2> QED BY <1>3, <1>4, <2>2 DEF Young, YoungOf, Running
<1>5. CASE g = h /\ answer'[g] = a /\ Running(h) /\ a.nonce = n
  <2>1. n # None => life'[n] \in 0 .. client[g].wait
    BY <1>1, <1>2, Ticks
  <2>2. n # None => Since(n, client[g].wait)'
    BY <2>1 DEF Since
  <2> QED BY <1>3, <1>5, <2>2 DEF Young, YoungOf, Running
<1> QED BY <1>4, <1>5 DEF TypeOK

(* A nonce that a request used up is not young any more; a restart ends the
   history of every nonce. *)
LEMMA HistoryYoung ==
  ASSUME TypeOK, Young, client' = client, answer' = answer,
         \A k \in Nonces : life'[k] \in {life[k], Used, Gone}
  PROVE  \A g \in Hosts : YoungOf(g)'
<1> SUFFICES ASSUME NEW g \in Hosts PROVE YoungOf(g)'
  OBVIOUS
<1>1. client[g].at = "await" => Since(client[g].nonce, MaxWait + client[g].wait)'
  BY DEF Young, YoungOf, Since
<1>2. answer[g] # None /\ answer[g].nonce # None => Since(answer[g].nonce, client[g].wait)'
  BY ClientFacts DEF Young, YoungOf, Since
<1> QED BY <1>1, <1>2 DEF Young, YoungOf, Running

(* A tick ages the nonce and the wait alike. *)
LEMMA TickYoung ==
  ASSUME TypeOK, Young, Tick
  PROVE  \A g \in Hosts : YoungOf(g)'
<1> SUFFICES ASSUME NEW g \in Hosts PROVE YoungOf(g)'
  OBVIOUS
<1>1. answer' = answer
  BY DEF Tick
<1>2. CASE ~Running(g)
  <2>1. client'[g] = client[g]
    BY <1>2 DEF Tick, TypeOK
  <2>2. answer[g] = None /\ client[g].at # "await"
    BY <1>2 DEF Young, YoungOf, Running
  <2> QED BY <1>1, <2>1, <2>2 DEF YoungOf
<1>3. CASE Running(g)
  <2> DEFINE w == client[g].wait
  <2>1. /\ client'[g].at = client[g].at /\ client'[g].nonce = client[g].nonce
        /\ client'[g].wait = w + 1
        /\ w < MaxWait
    BY <1>3 DEF Tick, TypeOK, Clients
  <2>2. w \in 0 .. MaxWait
    BY ClientFacts
  <2>3. ASSUME NEW k \in Nonces, NEW t \in {w, MaxWait + w}, Since(k, t)
        PROVE  life'[k] \in {Used, Gone} \/ life'[k] \in 0 .. t + 1
    <3>1. t \in Nat /\ t < TTL
      BY <2>1, <2>2, Ticks
    <3>2. CASE life[k] \in 0 .. t
      <4>1. life[k] \in 0 .. TTL - 1 /\ life[k] + 1 \in 0 .. t + 1
        BY <3>1, <3>2, Ticks
      <4> QED BY <4>1, TickCounts DEF Young
    <3>3. CASE life[k] \in {Used, Gone}
      <4>1. life[k] \notin 0 .. TTL - 1
        BY <3>3, Ticks DEF Used, Gone
      <4> QED BY <3>3, <4>1, TickCounts DEF Young
    <3> QED BY <2>3, <3>2, <3>3 DEF Since
  <2> HIDE DEF w
  <2>4. MaxWait + w + 1 = MaxWait + (w + 1)
    BY <2>2, Ticks
  <2>5. client[g].at = "await" =>
          client[g].nonce \in Nonces /\ Since(client[g].nonce, MaxWait + client[g].wait)'
    BY <2>1, <2>3, <2>4 DEF Young, YoungOf, Since, w
  <2>6. answer[g] # None /\ answer[g].nonce # None => Since(answer[g].nonce, client[g].wait)'
    <3> SUFFICES ASSUME answer[g] # None, answer[g].nonce # None
                 PROVE  Since(answer[g].nonce, client[g].wait)'
      OBVIOUS
    <3>1. answer[g].nonce \in Nonces /\ Since(answer[g].nonce, w)
      BY ClientFacts DEF Young, YoungOf, w
    <3> QED BY <1>1, <2>1, <2>3, <3>1 DEF Since
  <2> QED BY <1>1, <1>3, <2>1, <2>5, <2>6 DEF YoungOf, Running
<1> QED BY <1>2, <1>3

LEMMA InitYoung == Init => Young
<1> SUFFICES ASSUME Init PROVE Young
  OBVIOUS
<1>1. \A n \in Nonces : life[n] = Gone
  BY DEF Init
<1>2. Gone \notin 0 .. TTL - 1
  BY Constants DEF Gone
<1>3. \A h \in Hosts : answer[h] = None /\ client[h].at # "await"
  BY DEF Init, Ended
<1> QED BY <1>1, <1>2, <1>3 DEF Young, Counted, YoungOf

LEMMA NextYoung == TypeOK /\ Young /\ [Next]_vars => Young'
<1> SUFFICES ASSUME TypeOK, Young, [Next]_vars PROVE Young'
  OBVIOUS
<1>1. ASSUME store' = store, life' = life
      PROVE  Counted'
  BY <1>1 DEF Young, Counted
<1>2. ASSUME store' = store, life' = life, client' = client, answer' = answer
      PROVE  Young'
  BY <1>1, <1>2, HistoryYoung DEF Young
<1>3. ASSUME NEW h \in Hosts, Run(h)
      PROVE  Young'
  <2>1. store' = store /\ life' = life
    BY <1>3 DEF Run, Start, Fetched, Answered, Timeout
  <2> QED BY <1>1, <1>3, <2>1, RunYoung DEF Young
<1>4. ASSUME NEW h \in Hosts, NewNonce(h)
      PROVE  Young'
  <2>1. \E n : /\ FreshNonce(n, store)
               /\ \/ answer' = answer
                  \/ answer' = [answer EXCEPT ![h] = [ok |-> TRUE, nonce |-> n,
                                                     keys |-> NoKeys, pending |-> FALSE]]
    BY <1>4 DEF NewNonce
  <2>2. client' = client /\ Running(h)
    BY <1>4 DEF NewNonce, Running
  <2>3. PICK n : /\ FreshNonce(n, store)
                 /\ \/ answer' = answer
                    \/ answer' = [answer EXCEPT ![h] = [ok |-> TRUE, nonce |-> n,
                                                       keys |-> NoKeys, pending |-> FALSE]]
    BY <2>1
  <2> QED BY <2>2, <2>3, FreshNonceCounts, AnswerYoung DEF Young
<1>5. ASSUME NEW x \in handling, Handle(x)
      PROVE  Young'
  <2> DEFINE h == x.req.from
  <2>1. client' = client /\ h \in Hosts
    BY <1>5 DEF Handle, TypeOK, Verified, Requests
  <2>2. \E ok \in BOOLEAN, keys \in MaybeKeys, n \in Free \cup {None} :
          /\ FreshNonce(n, store)
          /\ \/ /\ Awaits(h, x.req)
                /\ answer' = [answer EXCEPT ![h] =
                     [ok |-> ok, nonce |-> n, keys |-> keys,
                      pending |-> ok /\ x.req.call = "order" /\ status[h] # "active"]]
             \/ answer' = answer
    BY <1>5, Zenon DEF Handle
  <2>3. PICK ok \in BOOLEAN, keys \in MaybeKeys, n \in Free \cup {None} :
          /\ FreshNonce(n, store)
          /\ \/ /\ Awaits(h, x.req)
                /\ answer' = [answer EXCEPT ![h] =
                     [ok |-> ok, nonce |-> n, keys |-> keys,
                      pending |-> ok /\ x.req.call = "order" /\ status[h] # "active"]]
             \/ answer' = answer
    BY <2>2
  <2> DEFINE a == [ok |-> ok, nonce |-> n, keys |-> keys,
                   pending |-> ok /\ x.req.call = "order" /\ status[h] # "active"]
  <2>4. a.nonce = n
    OBVIOUS
  <2>5. Awaits(h, x.req) => Running(h)
    BY DEF Awaits, Running
  <2>6. FreshNonce(n, store) /\ (answer' = answer \/ (answer' = [answer EXCEPT ![h] = a] /\ Running(h)))
    BY <2>3, <2>5
  <2> HIDE DEF a, h
  <2> QED BY <2>1, <2>4, <2>6, FreshNonceCounts, AnswerYoung DEF Young
<1>6. ASSUME NEW m \in wire, Verify(m)
      PROVE  Young'
  <2>1. client' = client /\ answer' = answer
    BY <1>6 DEF Verify
  <2> QED BY <1>6, <2>1, VerifyCounts, HistoryYoung DEF Young
<1>7. CASE Restart
  <2>1. \A k \in Nonces : life'[k] = Gone /\ Gone \notin 0 .. TTL - 1
    BY <1>7, Constants DEF Restart, Gone
  <2>2. client' = client /\ answer' = answer
    BY <1>7 DEF Restart
  <2> QED BY <2>1, <2>2, HistoryYoung DEF Young, Counted
<1>8. CASE Tick
  BY <1>8, TickCounts, TickYoung DEF Young
<1>9. ASSUME NEW m, Drop(m) \/ Repeat(m)
      PROVE  Young'
  BY <1>9, <1>2 DEF Drop, Repeat
<1>10. CASE Operator \/ CalmDown
  BY <1>10, <1>2 DEF Operator, Approve, Revoke, Remove, ClearKey, CalmDown, session
<1>11. CASE UNCHANGED vars
  BY <1>11, <1>2 DEF vars
<1> QED
  BY <1>3, <1>4, <1>5, <1>6, <1>7, <1>8, <1>9, <1>10, <1>11 DEF Next, Serve, Disturb

(* A nonce whose age is within two timeouts is still accepted. *)
LEMMA YoungIsUsable ==
  ASSUME Young, NEW n \in Nonces, NEW w \in 0 .. MaxWait, life[n] \in 0 .. MaxWait + w
  PROVE  Usable(store, n)
<1>1. MaxWait + w \in Nat /\ MaxWait + w < TTL
  BY Ticks
<1>2. life[n] \in 0 .. TTL - 1
  BY <1>1, Ticks
<1>3. store[n] = TTL - life[n]
  BY <1>2 DEF Young, Counted
<1>4. store[n] \in Int /\ store[n] > 0
  BY <1>2, <1>3, Ticks
<1> QED BY <1>4, Constants DEF Usable

(* The lifetime of a nonce outlasts a run: whatever is lost, repeated or
   delayed, a request whose client still waits for it, and which no other
   delivery has used up, is refused for its nonce only after a restart. *)
THEOREM NonceOutlastsCall == Spec => OnlyRestartsSpoilNonces
<1> DEFINE Spoils ==
      \A x \in handling' \ handling :
        x.found = "bad nonce" /\ life[x.req.nonce] # Used /\ Awaits(x.req.from, x.req)
          => life[x.req.nonce] = Gone
<1>1. TypeOK /\ Young /\ [Next]_vars => [Spoils]_vars
  <2> SUFFICES ASSUME TypeOK, Young, Next PROVE Spoils
    OBVIOUS
  <2>1. ASSUME handling' \subseteq handling
        PROVE  Spoils
    BY <2>1
  <2>2. ASSUME NEW m \in wire, Verify(m)
        PROVE  Spoils
    <3> SUFFICES ASSUME NEW x \in handling' \ handling, x.found = "bad nonce",
                        life[x.req.nonce] # Used, Awaits(x.req.from, x.req)
                 PROVE  life[x.req.nonce] = Gone
      OBVIOUS
    <3>1. x.req = m /\ ~Usable(store, m.nonce)
      <4>1. x \in {[req |-> m, found |-> "no account"], [req |-> m, found |-> "ok"],
                   [req |-> m, found |-> "bad nonce"]}
        BY <2>2 DEF Verify
      <4>2. /\ [req |-> m, found |-> "ok"].found # "bad nonce"
            /\ [req |-> m, found |-> "no account"].found # "bad nonce"
            /\ [req |-> m, found |-> "bad nonce"].found = "bad nonce"
        OBVIOUS
      <4>3. /\ x = [req |-> m, found |-> "bad nonce"]
            /\ x # [req |-> m, found |-> "ok"]
            /\ x # [req |-> m, found |-> "no account"]
        BY <4>1, <4>2, Zenon
      <4> QED BY <4>3, <2>2 DEF Verify
    <3>2. m.from \in Hosts /\ m.nonce \in Nonces
      BY DEF TypeOK, Requests
    <3>3. client[m.from].at = "await" /\ client[m.from].nonce = m.nonce
      BY <3>1 DEF Awaits
    <3>4. Since(m.nonce, MaxWait + client[m.from].wait)
      BY <3>2, <3>3 DEF Young, YoungOf
    <3>5. life[m.nonce] \notin 0 .. MaxWait + client[m.from].wait
      BY <3>1, <3>2, YoungIsUsable, ClientFacts
    <3> QED BY <3>1, <3>4, <3>5 DEF Since
  <2>3. ASSUME NEW h \in Hosts, Run(h)
        PROVE  handling' \subseteq handling
    BY <2>3 DEF Run, Start, Fetched, Answered, Timeout
  <2>4. CASE Disturb \/ Operator \/ Tick \/ CalmDown
    <3>1. handling' \subseteq handling
      BY <2>4 DEF Disturb, Restart, Drop, Repeat, Operator, Approve, Revoke, Remove,
                  ClearKey, Tick, CalmDown, session
    <3> QED BY <3>1, <2>1
  <2>5. CASE Serve
    <3>1. ASSUME NEW h \in Hosts, NewNonce(h)
          PROVE  handling' \subseteq handling
      BY <3>1 DEF NewNonce
    <3>2. ASSUME NEW x \in handling, Handle(x)
          PROVE  handling' \subseteq handling
      BY <3>2 DEF Handle
    <3> QED BY <2>5, <2>1, <2>2, <3>1, <3>2 DEF Serve
  <2> QED BY <2>1, <2>3, <2>4, <2>5 DEF Next
<1> QED BY <1>1, InitYoung, NextYoung, EnrollTypes, PTL DEF Spec, OnlyRestartsSpoilNonces
=============================================================================
