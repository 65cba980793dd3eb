------------------------ MODULE LicenseVerify_proof ------------------------
(***************************************************************************)
(* Theorems about LicenseService: what verify.php answers and what         *)
(* re-registration leaves alone, for every request, in any interleaving.   *)
(***************************************************************************)
EXTENDS LicenseService_proof

(* A step is another's, or the request's own; a crash counts as another's. *)
LEMMA StepCases ==
  ASSUME TInv, Next, NEW q \in Requests
  PROVE  \/ /\ pc'[q] \in {pc[q], "lost"}
            /\ call'[q] = call[q] /\ loc'[q] = loc[q] /\ reply'[q] = reply[q]
            /\ \E self : self # q /\ Observe(self)
         \/ Arrive(q) /\ Observe(q)
         \/ Step(q) /\ Observe(q)
<1>1. CASE (Operator \/ Restart) /\ Observe(None)
  <2>1. None # q
    BY ServiceAssumption
  <2>2. CASE Restart
    BY <1>1, <2>1, <2>2 DEF Restart
  <2>3. CASE Operator
    <3>1. UNCHANGED requestState
      BY <2>3 DEF Operator, AdminAccount, AdminHost, AdminRemoveHost, AdminAdd,
         AdminGenerate, AdminRevoke, AdminRemove, BatchList, BatchSet
    <3> QED
      BY <1>1, <2>1, <3>1 DEF requestState
  <2> QED
    BY <1>1, <2>2, <2>3
<1>2. ASSUME NEW r \in Requests, Arrive(r) \/ Step(r), Observe(r), q # r
      PROVE  loc'[q] = loc[q]
  <2>1. ASSUME NEW p, NEW answer, Settle(r, p, answer)
        PROVE  loc'[q] = loc[q]
    BY <1>2, <2>1, SMT DEF Settle, TInv, StateOK
  <2>2. CASE OrdGate(r)
    BY <1>2, <2>1, <2>2, SMT DEF OrdGate, Pend, Fail, TInv, StateOK
  <2>3. CASE OrdLookup(r)
    BY <1>2, <2>1, <2>3 DEF OrdLookup, Issue, Refuse, Fail, TInv, StateOK
  <2>4. CASE OrdRevoke(r) \/ OrdMint(r)
    BY <2>1, <2>4 DEF OrdRevoke, OrdMint, Issue, Fail
  <2>5. CASE Arrive(r) \/ RegRead(r) \/ VerUpsert(r)
    <3>1. \E l : loc' = [loc EXCEPT ![r] = l]
      <4>1. CASE Arrive(r)
        BY <4>1 DEF Arrive
      <4>2. CASE RegRead(r)
        BY <4>2 DEF RegRead
      <4>3. CASE VerUpsert(r)
        BY <4>3 DEF VerUpsert
      <4> QED
        BY <2>5, <4>1, <4>2, <4>3
    <3> QED
      BY <1>2, <3>1, SMT DEF TInv, StateOK
  <2>6. CASE RegWrite(r) \/ RevGet(r) \/ RevSet(r) \/ VerGet(r)
    BY <2>6 DEF RegWrite, RevGet, RevSet, VerGet
  <2> QED
    BY <1>2, <2>2, <2>3, <2>4, <2>5, <2>6 DEF Step
<1>3. ASSUME NEW r \in Requests, Arrive(r) \/ Step(r), Observe(r)
      PROVE  \/ /\ pc'[q] = pc[q]
                /\ call'[q] = call[q] /\ loc'[q] = loc[q] /\ reply'[q] = reply[q]
                /\ \E self : self # q /\ Observe(self)
             \/ Arrive(q) /\ Observe(q)
             \/ Step(q) /\ Observe(q)
  <2>1. CASE q = r
    BY <1>3, <2>1
  <2>2. CASE q # r
    BY <1>2, <1>3, <2>2, OthersStay
  <2> QED
    BY <2>1, <2>2
<1> QED
  BY <1>1, <1>3 DEF Next

(* What the history says after a step: of a request that runs, of one that
   arrives, and of one that is over. *)
LEMMA HistorySeen ==
  ASSUME NEW q \in Requests, NEW self, Observe(self), Running(q)
  PROVE  /\ since'[q].dark => since[q].dark /\ (q = self \/ Dark(call[q], licenses'))
         /\ since'[q].bright => since[q].bright /\ (q = self \/ Bright(call[q], licenses'))
         /\ since'[q].standing => since[q].standing /\ (q = self \/ Standing(call[q]))
         /\ since[q].entitled => since'[q].entitled
         /\ Entitled(call[q], licenses', servers') => since'[q].entitled
<1>1. since'[q] = Witnessed(q, q = self)
  BY DEF Observe
<1> DEFINE own == q = self
           b1 == since[q].dark /\ (own \/ Dark(call[q], licenses'))
           b2 == since[q].bright /\ (own \/ Bright(call[q], licenses'))
           b3 == since[q].standing /\ (own \/ Standing(call[q]))
           b4 == since[q].entitled \/ Entitled(call[q], licenses', servers')
<1>2. /\ Witnessed(q, own).dark = b1
      /\ Witnessed(q, own).bright = b2
      /\ Witnessed(q, own).standing = b3
      /\ Witnessed(q, own).entitled = b4
  BY DEF Witnessed
<1> HIDE DEF b1, b2, b3, b4
<1>3. since'[q].dark = b1 /\ since'[q].bright = b2 /\ since'[q].standing = b3 /\ since'[q].entitled = b4
  BY <1>1, <1>2
<1>4. (since'[q].dark => b1) /\ (since'[q].bright => b2) /\ (since'[q].standing => b3)
      /\ (b4 => since'[q].entitled)
  BY <1>3, Zenon
<1> QED
  BY <1>4 DEF b1, b2, b3, b4

LEMMA HistoryKept ==
  ASSUME NEW q \in Requests, NEW self, Observe(self), ~Running(q), q # self
  PROVE  since'[q] = since[q]
  BY DEF Observe

LEMMA HistoryBegins ==
  ASSUME NEW q \in Requests, Observe(q), pc[q] = "idle"
  PROVE  since'[q] = Arrived(call'[q])
  BY DEF Observe, Running

(* A request arrives at the first step of its call and changes nothing else. *)
LEMMA Arrival ==
  ASSUME TInv, NEW q \in Requests, Arrive(q)
  PROVE  /\ pc'[q] \in {"reg_read", "ord_gate", "rev_get", "ver_upsert"}
         /\ pc[q] = "idle"
         /\ UNCHANGED registry
<1>1. PICK c \in Calls : pc' = [pc EXCEPT ![q] = Entry(c)]
  BY DEF Arrive
<1>2. c.kind \in {"register", "order", "revoke", "verify"}
  BY ServiceAssumption, SMT DEF Call
<1>3. Entry(c) \in {"reg_read", "ord_gate", "rev_get", "ver_upsert"}
  BY <1>2 DEF Entry
<1>4. pc'[q] = Entry(c)
  BY <1>1, SMT DEF TInv, StateOK
<1> QED
  BY <1>3, <1>4 DEF Arrive

-----------------------------------------------------------------------------
(* Hosts *)

(* Registering a contact leaves alone what an operator decided. *)
LEMMA UpsertKeepsDecision ==
  ASSUME NEW srvs \in ServerMap, NEW h \in Hosts, NEW b \in BOOLEAN, NEW g \in Hosts,
         srvs[g] \in {"APPROVED", "BLOCKED", "REJECTED"}
  PROVE  UpsertServer(srvs, h, b)[g] = srvs[g]
<1>1. None \notin {"APPROVED", "BLOCKED", "REJECTED"}
  BY StatusAssumption DEF Statuses
<1> QED
  BY <1>1, SMT DEF UpsertServer, ServerMap

(* A host an operator approved, blocked or rejected keeps its status through
   every step of every request, auto-approval included. *)
THEOREM DecisionsStand == Spec => HostDecisionStands
<1> DEFINE Kept(r) == pc'[r] # pc[r] /\ pc'[r] # "lost" =>
                        \A h \in Hosts :
                          servers[h] \in {"APPROVED", "BLOCKED", "REJECTED"} => servers'[h] = servers[h]
<1>1. TInv /\ [Next]_vars => [\A r \in Requests : Kept(r)]_vars
  <2> SUFFICES ASSUME TInv, Next, NEW r \in Requests, pc'[r] # pc[r], pc'[r] # "lost",
                      NEW h \in Hosts, servers[h] \in {"APPROVED", "BLOCKED", "REJECTED"}
               PROVE  servers'[h] = servers[h]
    OBVIOUS
  <2>1. Arrive(r) \/ Step(r)
    BY StepCases
  <2>2. CASE VerUpsert(r)
    <3>1. call[r] \in Call
      BY DEF TInv, StateOK
    <3>2. \/ servers' = servers
          \/ call[r].host # None /\ servers' = UpsertServer(servers, call[r].host, call[r].auto)
      BY <2>2 DEF VerUpsert
    <3>3. call[r].auto \in BOOLEAN /\ (call[r].host # None => call[r].host \in Hosts)
      BY <3>1, SMT DEF Call
    <3> QED
      BY <3>2, <3>3, UpsertKeepsDecision DEF TInv, StateOK
  <2>3. CASE ~VerUpsert(r)
    BY <2>1, <2>3 DEF Arrive, Step, RegRead, RegWrite, OrdGate, OrdLookup, OrdRevoke, OrdMint,
       RevGet, RevSet, VerGet, registry
  <2> QED
    BY <2>2, <2>3
<1> QED
  BY <1>1, TypedInvariant, PTL DEF Spec, HostDecisionStands, Typed

-----------------------------------------------------------------------------
(***************************************************************************)
(* Answers of verify.php.  While a request runs, `dark' and `bright' say   *)
(* how its key stands at this moment; an approved status it has read is    *)
(* one the host had.  So the one step that answers answers rightly.        *)
(***************************************************************************)
SeenNow(r) ==
  Running(r) => /\ since[r].dark => Dark(call[r], licenses)
                /\ since[r].bright => Bright(call[r], licenses)

SeenOK == \A r \in Requests : SeenNow(r)

ReadApproved(r) == pc[r] = "ver_get" /\ call[r].host # None /\ loc[r].status = "APPROVED"

(* The code answers so even where registering the host failed. *)
BrightAnswered == \A r \in Requests : since[r].bright => ~Answered(r, "inactive")

EarnedOK ==
  \A r \in Requests : ReadApproved(r) \/ Answered(r, "active") => since[r].entitled

(* Only the last step of verify.php answers "active" or "inactive". *)
LEMMA OnlyVerGetAnswers ==
  ASSUME TInv, NEW r \in Requests, Step(r), NEW what \in {"active", "inactive"},
         Answered(r, what)'
  PROVE  VerGet(r)
<1>1. ASSUME NEW p, NEW answer, Settle(r, p, answer), "outcome" \in DOMAIN answer
      PROVE  reply'[r].outcome = "ordered"
  <2>1. reply'[r] = [answer EXCEPT !.outcome = "ordered"]
    BY <1>1, SMT DEF Settle, TInv, StateOK
  <2> QED
    BY <1>1, <2>1
<1>2. ASSUME NEW p, NEW k, Issue(r, k) \/ Pend(r, p) \/ Refuse(r, p) \/ Fail(r, p)
      PROVE  reply'[r].outcome = "ordered"
  <2>1. "outcome" \in DOMAIN reply[r]
    BY SMT DEF TInv, StateOK, Reply
  <2>2. \A S : /\ "outcome" \in DOMAIN [reply[r] EXCEPT !.issued = S]
               /\ "outcome" \in DOMAIN [reply[r] EXCEPT !.pending = S]
               /\ "outcome" \in DOMAIN [reply[r] EXCEPT !.refused = S]
               /\ "outcome" \in DOMAIN [reply[r] EXCEPT !.failed = S]
    BY <2>1
  <2> QED
    BY <1>1, <1>2, <2>2 DEF Issue, Pend, Refuse, Fail
<1>3. ASSUME NEW a, NEW b, Finish(r, Answer(a, b))
      PROVE  reply'[r].outcome = a
  BY <1>3, SMT DEF Finish, Answer, TInv, StateOK
<1>4. ASSUME NEW s, Goto(r, s)
      PROVE  pc'[r] = s
  BY <1>4, SMT DEF Goto, TInv, StateOK
<1>5. pc'[r] = "done" /\ reply'[r].outcome = what
  BY DEF Answered
<1>6. CASE OrdGate(r) \/ OrdLookup(r) \/ OrdRevoke(r) \/ OrdMint(r)
  <2>1. \/ \E p, k : Issue(r, k) \/ Pend(r, p) \/ Refuse(r, p) \/ Fail(r, p)
        \/ Goto(r, "ord_lookup") \/ Goto(r, "ord_revoke") \/ Goto(r, "ord_mint")
    BY <1>6 DEF OrdGate, OrdLookup, OrdRevoke, OrdMint
  <2> QED
    BY <1>2, <1>4, <1>5, <2>1
<1>7. CASE RegRead(r) \/ RegWrite(r) \/ RevGet(r) \/ RevSet(r) \/ VerUpsert(r)
  <2>1. \/ Goto(r, "reg_write") \/ Goto(r, "rev_set") \/ Goto(r, "ver_get")
        \/ \E a \in {"registered", "revoked", "forbidden", "error"} : Finish(r, Answer(a, FALSE))
    BY <1>7 DEF RegRead, RegWrite, RevGet, RevSet, VerUpsert, Outcome
  <2> QED
    BY <1>3, <1>4, <1>5, <2>1
<1> QED
  BY <1>6, <1>7 DEF Step

(* The answer to a host about the record of a key. *)
LEMMA VerdictSays ==
  ASSUME NEW host, NEW status, NEW license, NEW regErr
  PROVE  LET what == Verdict(host, status, license, regErr).outcome
         IN /\ what \in {"active", "inactive"}
            /\ license # None /\ ~ActiveStatus(license.status) => what # "active"
            /\ (license # None /\ ActiveStatus(license.status) /\ license.account # None /\ host # None)
                 => what # "inactive"
            /\ what = "active" =>
                 /\ host # None
                 /\ \/ status = "APPROVED"
                    \/ license # None /\ ActiveStatus(license.status) /\ license.account # None
  BY DEF Verdict, Answer

LEMMA VerGetAnswers ==
  ASSUME TInv, NEW r \in Requests, VerGet(r)
  PROVE  /\ call[r].kind = "verify" /\ call[r] \in Call /\ pc'[r] = "done" /\ Running(r)
         /\ UNCHANGED registry
         /\ ~ReadFails /\ Dark(call[r], licenses) => reply'[r].outcome # "active"
         /\ ~ReadFails /\ Bright(call[r], licenses) => reply'[r].outcome # "inactive"
         /\ reply'[r].outcome = "active" => ReadApproved(r) \/ Entitled(call[r], licenses, servers)
<1> DEFINE verdict(license) == Verdict(call[r].host, loc[r].status, license, loc[r].regErr)
           now == licenses[call[r].key]
<1>1. /\ call[r].kind = "verify" /\ call[r] \in Call /\ Running(r) /\ pc[r] = "ver_get"
      /\ UNCHANGED registry
  BY DEF VerGet, TInv, ControlOK, StateOK, Running
<1>2. \E license \in {now, None} : /\ Finish(r, verdict(license))
                                   /\ license = now \/ ReadFails
  BY DEF VerGet
<1>3. PICK license \in {now, None} : /\ Finish(r, verdict(license))
                                     /\ license = now \/ ReadFails
  BY <1>2
<1>4. pc'[r] = "done" /\ reply'[r] = verdict(license)
  BY <1>3, SMT DEF Finish, Goto, TInv, StateOK
<1>5. ~ReadFails /\ Dark(call[r], licenses) => reply'[r].outcome # "active"
  BY <1>3, <1>4, VerdictSays DEF Dark, Active, Known
<1>6. ~ReadFails /\ Bright(call[r], licenses) => reply'[r].outcome # "inactive"
  BY <1>3, <1>4, VerdictSays DEF Bright, Active, Known
<1>7. ASSUME reply'[r].outcome = "active"
      PROVE  ReadApproved(r) \/ Entitled(call[r], licenses, servers)
  <2>1. /\ call[r].host # None
        /\ \/ loc[r].status = "APPROVED"
           \/ license # None /\ ActiveStatus(license.status) /\ license.account # None
    BY <1>4, <1>7, VerdictSays
  <2>2. CASE loc[r].status = "APPROVED"
    BY <1>1, <2>1, <2>2 DEF ReadApproved
  <2>3. CASE license # None /\ ActiveStatus(license.status) /\ license.account # None
    BY <1>1, <2>1, <2>3 DEF Entitled, Bright, Active, Known
  <2> QED
    BY <2>1, <2>2, <2>3
<1> QED
  BY <1>1, <1>4, <1>5, <1>6, <1>7

(* A verify request changes no license. *)
LEMMA VerifyReadsOnly ==
  ASSUME TInv, NEW r \in Requests, Step(r), call[r].kind = "verify"
  PROVE  licenses' = licenses
<1>1. pc[r] \in {"ver_upsert", "ver_get"} \/ pc[r] \notin OrderPCs \cup {"rev_set", "rev_get"}
  BY DEF TInv, ControlOK
<1> QED
  BY <1>1 DEF Step, RegRead, RegWrite, OrdGate, OrdLookup, OrdRevoke, OrdMint,
     RevGet, RevSet, VerUpsert, VerGet, OrderPCs, TInv, ControlOK, registry

LEMMA NextSeen ==
  ASSUME TInv, SeenOK, [Next]_vars
  PROVE  SeenOK'
<1>1. CASE UNCHANGED vars
  BY <1>1 DEF vars, SeenOK, SeenNow, Running
<1>2. ASSUME Next, NEW q \in Requests
      PROVE  SeenNow(q)'
  <2>1. ASSUME NEW self, Observe(self), self # q, pc'[q] \in {pc[q], "lost"}, call'[q] = call[q]
        PROVE  SeenNow(q)'
    <3> SUFFICES ASSUME Running(q)' PROVE SeenNow(q)'
      BY DEF SeenNow
    <3>1. Running(q)
      BY <2>1 DEF Running
    <3> QED
      BY <2>1, <3>1, HistorySeen DEF SeenNow
  <2>2. CASE Arrive(q) /\ Observe(q)
    <3>1. since'[q] = Arrived(call'[q]) /\ licenses' = licenses
      BY <2>2, Arrival, HistoryBegins DEF registry
    <3>2. /\ Arrived(call'[q]).dark = Dark(call'[q], licenses)
          /\ Arrived(call'[q]).bright = Bright(call'[q], licenses)
      BY DEF Arrived
    <3> QED
      BY <3>1, <3>2 DEF SeenNow
  <2>3. CASE Step(q) /\ Observe(q)
    <3>1. Running(q) /\ pc[q] # "idle"
      BY <2>3 DEF Running, Step, RegRead, RegWrite, OrdGate, OrdLookup, OrdRevoke, OrdMint,
         RevGet, RevSet, VerUpsert, VerGet
    <3>2. call'[q] = call[q]
      BY <1>2, <3>1, CallStays
    <3>3. since'[q].dark => since[q].dark
      BY <2>3, <3>1, HistorySeen
    <3>4. since'[q].bright => since[q].bright
      BY <2>3, <3>1, HistorySeen
    <3>5. since[q].dark \/ since[q].bright => licenses' = licenses
      BY <2>3, <3>1, VerifyReadsOnly DEF SeenOK, SeenNow, Dark, Bright
    <3>6. since[q].dark => Dark(call[q], licenses)
      BY <3>1 DEF SeenOK, SeenNow
    <3>7. since[q].bright => Bright(call[q], licenses)
      BY <3>1 DEF SeenOK, SeenNow
    <3> QED
      BY <3>2, <3>3, <3>4, <3>5, <3>6, <3>7 DEF SeenNow
  <2> QED
    BY <1>2, <2>1, <2>2, <2>3, StepCases
<1> QED
  BY <1>1, <1>2 DEF SeenOK

(* Of requests that a step does not concern, and of those that arrive, nothing
   new is answered. *)
LEMMA AnswerSource ==
  ASSUME TInv, Next, NEW q \in Requests, NEW what \in {"active", "inactive"}, Answered(q, what)'
  PROVE  \/ Answered(q, what) /\ ~Running(q) /\ since'[q] = since[q]
         \/ VerGet(q) /\ Observe(q)
<1>1. pc'[q] = "done" /\ reply'[q].outcome = what
  BY DEF Answered
<1>2. ASSUME NEW self, Observe(self), self # q, pc'[q] \in {pc[q], "lost"}, reply'[q] = reply[q]
      PROVE  Answered(q, what) /\ ~Running(q) /\ since'[q] = since[q]
  <2>1. pc[q] = "done"
    BY <1>1, <1>2
  <2>2. ~Running(q)
    BY <2>1 DEF Running
  <2> QED
    BY <1>1, <1>2, <2>1, <2>2, HistoryKept DEF Answered
<1>3. CASE Arrive(q)
  BY <1>1, <1>3, Arrival
<1>4. CASE Step(q) /\ Observe(q)
  BY <1>4, OnlyVerGetAnswers
<1> QED
  BY <1>2, <1>3, <1>4, StepCases

LEMMA NextAnswers ==
  ASSUME TInv, SeenOK, [Next]_vars, ~ReadFails
  PROVE  /\ RevokedKeyGoesDark => RevokedKeyGoesDark'
         /\ BrightAnswered => BrightAnswered'
<1>1. CASE UNCHANGED vars
  BY <1>1 DEF vars, RevokedKeyGoesDark, BrightAnswered, Answered
<1>2. ASSUME Next, NEW q \in Requests, RevokedKeyGoesDark, since'[q].dark, Answered(q, "active")'
      PROVE  FALSE
  <2>1. CASE Answered(q, "active") /\ since'[q] = since[q]
    BY <1>2, <2>1 DEF RevokedKeyGoesDark
  <2>2. CASE VerGet(q) /\ Observe(q)
    <3>1. since[q].dark /\ Running(q)
      BY <1>2, <2>2, VerGetAnswers, HistorySeen
    <3>2. Dark(call[q], licenses)
      BY <3>1 DEF SeenOK, SeenNow
    <3> QED
      BY <1>2, <2>2, <3>2, VerGetAnswers DEF Answered
  <2> QED
    BY <1>2, <2>1, <2>2, AnswerSource
<1>3. ASSUME Next, NEW q \in Requests, BrightAnswered, since'[q].bright, Answered(q, "inactive")'
      PROVE  FALSE
  <2>1. CASE Answered(q, "inactive") /\ since'[q] = since[q]
    BY <1>3, <2>1 DEF BrightAnswered
  <2>2. CASE VerGet(q) /\ Observe(q)
    <3>1. since[q].bright /\ Running(q)
      BY <1>3, <2>2, VerGetAnswers, HistorySeen
    <3>2. Bright(call[q], licenses)
      BY <3>1 DEF SeenOK, SeenNow
    <3> QED
      BY <1>3, <2>2, <3>2, VerGetAnswers DEF Answered
  <2> QED
    BY <1>3, <2>1, <2>2, AnswerSource
<1> QED
  BY <1>1, <1>2, <1>3 DEF RevokedKeyGoesDark, BrightAnswered

(* Only registering the contact leads on to the lookup of the key, and a status
   read there is one the host has. *)
LEMMA OnlyVerUpsert ==
  ASSUME TInv, NEW r \in Requests, Step(r), pc'[r] = "ver_get"
  PROVE  VerUpsert(r)
<1>1. ASSUME NEW s, Goto(r, s)
      PROVE  s = "ver_get"
  BY <1>1, SMT DEF Goto, TInv, StateOK
<1>2. ASSUME NEW p, NEW answer, Settle(r, p, answer)
      PROVE  FALSE
  <2>1. Goto(r, "done") \/ Goto(r, "ord_gate")
    BY <1>2 DEF Settle
  <2> QED
    BY <1>1, <2>1
<1>3. CASE OrdGate(r) \/ OrdLookup(r) \/ OrdRevoke(r) \/ OrdMint(r)
  <2>1. \/ \E p, answer : Settle(r, p, answer)
        \/ Goto(r, "ord_lookup") \/ Goto(r, "ord_revoke") \/ Goto(r, "ord_mint")
    BY <1>3 DEF OrdGate, OrdLookup, OrdRevoke, OrdMint, Issue, Pend, Refuse, Fail
  <2> QED
    BY <1>1, <1>2, <2>1
<1>4. CASE RegRead(r) \/ RegWrite(r) \/ RevGet(r) \/ RevSet(r) \/ VerGet(r)
  <2>1. Goto(r, "reg_write") \/ Goto(r, "rev_set") \/ Goto(r, "done")
    BY <1>4 DEF RegRead, RegWrite, RevGet, RevSet, VerGet, Finish
  <2> QED
    BY <1>1, <2>1
<1> QED
  BY <1>3, <1>4 DEF Step

LEMMA ApprovedByUpsert ==
  ASSUME TInv, NEW r \in Requests, VerUpsert(r), ReadApproved(r)'
  PROVE  Running(r) /\ Entitled(call[r], licenses', servers')
<1>1. /\ Running(r) /\ call[r].kind = "verify" /\ call' = call
  BY DEF VerUpsert, TInv, ControlOK, Running
<1>2. call[r].host # None /\ loc'[r].status = "APPROVED"
  BY <1>1 DEF ReadApproved
<1> DEFINE read(status, failed) ==
             loc' = [loc EXCEPT ![r] = [@ EXCEPT !.status = status, !.regErr = failed]]
<1>3. \/ read(servers'[call[r].host], FALSE)
      \/ read(None, TRUE)
      \/ read(None, FALSE)
  BY DEF VerUpsert
<1>4. ASSUME NEW status, NEW failed \in BOOLEAN, read(status, failed)
      PROVE  loc'[r].status = status
  BY <1>4, SMT DEF TInv, StateOK, Locals
<1> HIDE DEF read
<1>5. None # "APPROVED"
  BY StatusAssumption DEF Statuses
<1> QED
  BY <1>1, <1>2, <1>3, <1>4, <1>5 DEF Entitled

LEMMA NextEarned ==
  ASSUME TInv, EarnedOK, [Next]_vars
  PROVE  EarnedOK'
<1>1. CASE UNCHANGED vars
  BY <1>1 DEF vars, EarnedOK, ReadApproved, Answered
<1>2. ASSUME Next, NEW q \in Requests, Answered(q, "active")'
      PROVE  since'[q].entitled
  <2>1. CASE Answered(q, "active") /\ since'[q] = since[q]
    BY <2>1 DEF EarnedOK
  <2>2. CASE VerGet(q) /\ Observe(q)
    <3>1. /\ Running(q) /\ UNCHANGED registry
          /\ ReadApproved(q) \/ Entitled(call[q], licenses, servers)
      BY <1>2, <2>2, VerGetAnswers DEF Answered
    <3>2. CASE ReadApproved(q)
      BY <2>2, <3>1, <3>2, HistorySeen DEF EarnedOK
    <3>3. CASE Entitled(call[q], licenses, servers)
      <4>1. Entitled(call[q], licenses', servers')
        BY <3>1, <3>3 DEF registry
      <4> QED
        BY <2>2, <3>1, <4>1, HistorySeen
    <3> QED
      BY <3>1, <3>2, <3>3
  <2> QED
    BY <1>2, <2>1, <2>2, AnswerSource
<1>3. ASSUME Next, NEW q \in Requests, ReadApproved(q)'
      PROVE  since'[q].entitled
  <2>1. pc'[q] = "ver_get"
    BY <1>3 DEF ReadApproved
  <2>2. ASSUME NEW self, Observe(self), self # q, pc'[q] \in {pc[q], "lost"},
               call'[q] = call[q], loc'[q] = loc[q]
        PROVE  since'[q].entitled
    <3>1. Running(q) /\ ReadApproved(q)
      BY <1>3, <2>1, <2>2 DEF Running, ReadApproved
    <3> QED
      BY <2>2, <3>1, HistorySeen DEF EarnedOK
  <2>3. CASE Arrive(q)
    BY <2>1, <2>3, Arrival
  <2>4. CASE Step(q) /\ Observe(q)
    <3>1. VerUpsert(q)
      BY <2>1, <2>4, OnlyVerUpsert
    <3> QED
      BY <1>3, <2>4, <3>1, ApprovedByUpsert, HistorySeen
  <2> QED
    BY <1>2, <1>3, <2>2, <2>3, <2>4, StepCases
<1> QED
  BY <1>1, <1>2, <1>3 DEF EarnedOK

LEMMA InitVerify ==
  ASSUME Init
  PROVE  SeenOK /\ EarnedOK /\ RevokedKeyGoesDark /\ BrightAnswered
<1>1. \A r \in Requests : pc[r] = "idle"
  BY SMT DEF Init
<1> QED
  BY <1>1 DEF SeenOK, SeenNow, Running, EarnedOK, ReadApproved, Answered,
     RevokedKeyGoesDark, BrightAnswered

LEMMA SeenInvariant == Spec => []SeenOK
  BY TypedInvariant, InitVerify, NextSeen, PTL DEF Spec, Typed

(* As long as reads of the registry succeed, a key that was in the registry and
   invalid throughout a request is not honoured, on whatever host. *)
THEOREM RevokedKeysStayDark == ~ReadFails /\ Spec => []RevokedKeyGoesDark
<1>1. TInv /\ SeenOK /\ [Next]_vars /\ ~ReadFails /\ RevokedKeyGoesDark => RevokedKeyGoesDark'
  BY NextAnswers
<1>2. Init => RevokedKeyGoesDark
  BY InitVerify
<1>3. SUFFICES ASSUME ~ReadFails PROVE Spec => []RevokedKeyGoesDark
  OBVIOUS
<1>4. TInv /\ SeenOK /\ [Next]_vars /\ RevokedKeyGoesDark => RevokedKeyGoesDark'
  BY <1>1, <1>3
<1> QED
  BY <1>2, <1>4, TypedInvariant, SeenInvariant, PTL DEF Spec, Typed

(* As long as reads of the registry succeed, an issued key that stayed active
   throughout a request is honoured on every named host that could be registered. *)
THEOREM IssuedKeysStayHonoured == ~ReadFails /\ Spec => []IssuedKeyIsHonoured
<1>1. TInv /\ SeenOK /\ [Next]_vars /\ ~ReadFails /\ BrightAnswered => BrightAnswered'
  BY NextAnswers
<1>2. Init => BrightAnswered
  BY InitVerify
<1>3. SUFFICES ASSUME ~ReadFails PROVE Spec => []IssuedKeyIsHonoured
  OBVIOUS
<1>4. TInv /\ SeenOK /\ [Next]_vars /\ BrightAnswered => BrightAnswered'
  BY <1>1, <1>3
<1>5. BrightAnswered => IssuedKeyIsHonoured
  BY DEF BrightAnswered, IssuedKeyIsHonoured
<1> QED
  BY <1>2, <1>4, <1>5, TypedInvariant, SeenInvariant, PTL DEF Spec, Typed

(* Whatever fails, "active" is only answered when at some moment of the request
   the host was approved or the key an active issued one. *)
THEOREM ActiveAnswersAreEarned == Spec => []ActiveIsEarned
<1>1. Init => EarnedOK
  BY InitVerify
<1>2. TInv /\ EarnedOK /\ [Next]_vars => EarnedOK'
  BY NextEarned
<1>3. EarnedOK => ActiveIsEarned
  BY DEF EarnedOK, ActiveIsEarned
<1> QED
  BY <1>1, <1>2, <1>3, TypedInvariant, PTL DEF Spec, Typed

-----------------------------------------------------------------------------
(***************************************************************************)
(* Registering again.  The status RegisterAccount writes back is the one   *)
(* it read; as long as nobody else touched the account it is still right.  *)
(***************************************************************************)
StillRight(r) ==
  (pc[r] = "reg_write" /\ since[r].standing /\ accounts[call[r].account] # None)
     => loc[r].status = accounts[call[r].account]

StatusOK == \A r \in Requests : StillRight(r)

(* Only reading the account leads on to writing it. *)
LEMMA OnlyRegRead ==
  ASSUME TInv, NEW r \in Requests, Step(r), pc'[r] = "reg_write"
  PROVE  RegRead(r)
<1>1. ASSUME NEW s, Goto(r, s)
      PROVE  s = "reg_write"
  BY <1>1, SMT DEF Goto, TInv, StateOK
<1>2. ASSUME NEW p, NEW answer, Settle(r, p, answer)
      PROVE  FALSE
  <2>1. Goto(r, "done") \/ Goto(r, "ord_gate")
    BY <1>2 DEF Settle
  <2> QED
    BY <1>1, <2>1
<1>3. CASE OrdGate(r) \/ OrdLookup(r) \/ OrdRevoke(r) \/ OrdMint(r)
  <2>1. \/ \E p, answer : Settle(r, p, answer)
        \/ Goto(r, "ord_lookup") \/ Goto(r, "ord_revoke") \/ Goto(r, "ord_mint")
    BY <1>3 DEF OrdGate, OrdLookup, OrdRevoke, OrdMint, Issue, Pend, Refuse, Fail
  <2> QED
    BY <1>1, <1>2, <2>1
<1>4. CASE RegWrite(r) \/ RevGet(r) \/ RevSet(r) \/ VerUpsert(r) \/ VerGet(r)
  <2>1. Goto(r, "rev_set") \/ Goto(r, "ver_get") \/ Goto(r, "done")
    BY <1>4 DEF RegWrite, RevGet, RevSet, VerUpsert, VerGet, Finish
  <2> QED
    BY <1>1, <2>1
<1> QED
  BY <1>3, <1>4 DEF Step

LEMMA NextStatus ==
  ASSUME TInv, StatusOK, [Next]_vars, ~ReadFails
  PROVE  StatusOK'
<1>1. CASE UNCHANGED vars
  BY <1>1 DEF vars, StatusOK, StillRight
<1>2. ASSUME Next, NEW q \in Requests, pc'[q] = "reg_write", since'[q].standing,
             accounts'[call'[q].account] # None
      PROVE  loc'[q].status = accounts'[call'[q].account]
  <2>1. ASSUME NEW self, Observe(self), self # q, pc'[q] \in {pc[q], "lost"},
               call'[q] = call[q], loc'[q] = loc[q]
        PROVE  loc'[q].status = accounts'[call'[q].account]
    <3>1. pc[q] = "reg_write" /\ Running(q)
      BY <1>2, <2>1 DEF Running
    <3>2. since[q].standing /\ Standing(call[q])
      BY <1>2, <2>1, <3>1, HistorySeen
    <3>3. call[q].kind = "register"
      BY <3>1 DEF TInv, ControlOK
    <3>4. accounts'[call[q].account] = accounts[call[q].account]
      BY <3>2, <3>3 DEF Standing
    <3> QED
      BY <1>2, <2>1, <3>1, <3>2, <3>4 DEF StatusOK, StillRight
  <2>2. CASE Arrive(q)
    BY <1>2, <2>2, Arrival
  <2>3. CASE Step(q)
    <3>1. RegRead(q)
      BY <1>2, <2>3, OnlyRegRead
    <3>2. accounts' = accounts /\ call' = call
      BY <3>1 DEF RegRead, registry
    <3> DEFINE a == call[q].account
               status == IF accounts[a] = None THEN InitialStatus(call[q].auto) ELSE accounts[a]
    <3>3. loc' = [loc EXCEPT ![q].status = status]
      BY <3>1 DEF RegRead
    <3> HIDE DEF status
    <3>4. loc'[q].status = status
      BY <3>3, SMT DEF TInv, StateOK, Locals
    <3> QED
      BY <1>2, <3>2, <3>4 DEF status
  <2> QED
    BY <1>2, <2>1, <2>2, <2>3, StepCases
<1> QED
  BY <1>1, <1>2 DEF StatusOK, StillRight

(* As long as reads of the registry succeed, registering an account again
   leaves alone a status that nobody else changed meanwhile. *)
THEOREM StatusSurvivesRegistration == ~ReadFails /\ Spec => ReRegistrationKeepsStatus
<1> DEFINE Kept(r) == LET a == call[r].account
                      IN (pc[r] = "reg_write" /\ pc'[r] # pc[r] /\ since[r].standing
                            /\ accounts[a] # None) => accounts'[a] = accounts[a]
<1>1. TInv /\ StatusOK /\ [Next]_vars => [\A r \in Requests : Kept(r)]_vars
  <2> SUFFICES ASSUME TInv, StatusOK, Next, NEW r \in Requests, pc[r] = "reg_write", pc'[r] # pc[r],
                      since[r].standing, accounts[call[r].account] # None
               PROVE  accounts'[call[r].account] = accounts[call[r].account]
    OBVIOUS
  <2>1. CASE Restart
    BY <2>1 DEF Restart, registry
  <2>2. CASE Operator
    <3>1. UNCHANGED requestState
      BY <2>2 DEF Operator, AdminAccount, AdminHost, AdminRemoveHost, AdminAdd,
         AdminGenerate, AdminRevoke, AdminRemove, BatchList, BatchSet
    <3> QED
      BY <3>1 DEF requestState
  <2>3. ASSUME NEW q \in Requests, Arrive(q) \/ Step(q)
        PROVE  accounts'[call[r].account] = accounts[call[r].account]
    <3>1. q = r
      BY <2>3, OthersStay
    <3>2. RegWrite(r)
      BY <2>3, <3>1 DEF Arrive, Step, RegRead, OrdGate, OrdLookup, OrdRevoke, OrdMint,
         RevGet, RevSet, VerUpsert, VerGet
    <3>3. loc[r].status = accounts[call[r].account]
      BY DEF StatusOK, StillRight
    <3>4. accounts' = accounts \/ accounts' = UpsertAccount(accounts, call[r].account, loc[r].status)
      BY <3>2 DEF RegWrite
    <3>5. accounts \in [Accounts -> Statuses \cup {None}]
      BY DEF TInv, StateOK, AccountMap
    <3>6. CASE accounts' = accounts
      BY <3>6
    <3>7. CASE accounts' = UpsertAccount(accounts, call[r].account, loc[r].status)
      <4>1. accounts' = [accounts EXCEPT ![call[r].account] = accounts[call[r].account]]
        BY <3>3, <3>7 DEF UpsertAccount
      <4> QED
        BY <3>5, <4>1, SMT
    <3> QED
      BY <3>4, <3>6, <3>7
  <2> QED
    BY <2>1, <2>2, <2>3 DEF Next
<1>2. Init => StatusOK
  <2>1. Init => \A r \in Requests : pc[r] = "idle"
    BY SMT DEF Init
  <2> QED
    BY <2>1 DEF StatusOK, StillRight
<1>3. SUFFICES ASSUME ~ReadFails PROVE Spec => ReRegistrationKeepsStatus
  OBVIOUS
<1>4. TInv /\ StatusOK /\ [Next]_vars => StatusOK'
  BY <1>3, NextStatus
<1> QED
  BY <1>1, <1>2, <1>4, TypedInvariant, PTL DEF Spec, ReRegistrationKeepsStatus, Typed
=============================================================================
