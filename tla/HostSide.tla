------------------------------ MODULE HostSide ------------------------------
(***************************************************************************)
(* What the client commands do to the Proxmox host they run on: `client    *)
(* install', `client enroll' up to its order, `client uninstall', `hosts   *)
(* enable' and `disable', and `cert install' (internal/cli/client.go,      *)
(* client_enroll.go, hosts.go, cert.go; internal/hosts, internal/client/   *)
(* install.go and acmeclient.go, internal/certs).                          *)
(*                                                                         *)
(* A command is a list of jobs.  Most jobs read a file, then open, write   *)
(* and perhaps rename one: the hosts file and the binary are replaced      *)
(* through a temporary file that all processes share, the certificate and  *)
(* the account key are written in place.  Nothing takes a lock, and a      *)
(* command may fail or die at each step.                                   *)
(***************************************************************************)
EXTENDS Naturals, Sequences, FiniteSets

CONSTANTS Processes,
          IPs,       \* proxies: their address, their URL and their certificate
          Foreign,   \* lines of the hosts file that map other addresses
          Start,     \* what the hosts file may be at first (bounds the initial states)
          Versions,  \* versions of the binary
          KeyIds,    \* account keys that may be generated (bounds their number)
          Requests,  \* calls of commands (bounds the inputs)
          Begin, End, Blank,  \* lines: the markers and the empty line
          MaxCalls,  \* bound: calls of commands
          Faults,    \* subset of {"fail", "kill", "misread"}
          None, Torn

Line == IPs \cup Foreign \cup {Begin, End, Blank}

(* ip is --ip, server is --server; the flags are the negated --no-... flags,
   `hosts' of an enroll is both its certificate and its redirect. *)
Request == [kind : {"install", "enroll", "uninstall", "enable", "disable", "cert"},
            server : IPs \cup {None}, ip : IPs \cup {None}, version : Versions,
            binary : BOOLEAN, cert : BOOLEAN, hosts : BOOLEAN]

ASSUME HostAssumption ==
  /\ Requests \subseteq Request /\ MaxCalls \in Nat
  /\ IPs \cap Foreign = {} /\ {Begin, End, Blank} \cap (IPs \cup Foreign) = {}
  /\ Begin # End /\ Begin # Blank /\ End # Blank
  /\ None \notin Line \cup Versions \cup KeyIds \cup Seq(Line)
  /\ Torn \notin Line \cup Versions \cup KeyIds \cup Seq(Line) \cup {None}

Files == {"hosts", "binary", "crt", "key"}
InPlace == {"crt", "key"}

NoRequest == [kind |-> "disable", server |-> None, ip |-> None,
              version |-> CHOOSE v \in Versions : TRUE,
              binary |-> FALSE, cert |-> FALSE, hosts |-> FALSE]
NoJob == [do |-> "none", ip |-> None]

VARIABLES content,   \* what is in each file; a hosts file is the list of its lines
          tmp,       \* what is in its temporary file
          trust,     \* the proxy whose certificate the system trusts
          pc,        \* next step of each process
          request,   \* the command it runs
          todo,      \* its jobs, the current one first
          mem,       \* what it is about to write
          using,     \* the server and the account key of an enroll run
          calls,     \* number of calls so far
          identities,  \* account keys that were registered with a server
          foreign,   \* history: the foreign lines, as the administrator left them
          redirect,  \* history: the address last put into place
          before,    \* history: redirect and certificate file when the command began
          alone,     \* history: nobody else did anything since it began
          spoilt     \* history: files two had in hand at once, or that could not be read

vars == <<content, tmp, trust, pc, request, todo, mem, using, calls, identities,
          foreign, redirect, before, alone, spoilt>>

-----------------------------------------------------------------------------
(* The hosts file: strings.Split of its content, so that a final newline is a
   final empty line.  A torn file is an empty one. *)

Text(c) == IF c = Torn THEN <<Blank>> ELSE c

(* A loop over the lines of a file: step[l] is what line l does to the loop's
   variables.  A step is a function, so that a theorem can speak of every loop. *)
Scan(step, base, s) ==
  LET acc[n \in 0 .. Len(s)] == IF n = 0 THEN base ELSE step[s[n]][acc[n - 1]]
  IN acc[Len(s)]

(* stripBlock: all lines but the markers and what a begin marker opens. *)
StripLine[l \in Line] ==
  [acc \in [out : Seq(Line), inBlock : BOOLEAN] |->
     CASE l = Begin -> [acc EXCEPT !.inBlock = TRUE]
       [] l = End -> [acc EXCEPT !.inBlock = FALSE]
       [] OTHER -> IF acc.inBlock THEN acc ELSE [acc EXCEPT !.out = Append(@, l)]]
Strip(s) == Scan(StripLine, [out |-> <<>>, inBlock |-> FALSE], s)
StripBlock(s) == Strip(s).out

(* RedirectIP: the address of the first line that has one in what extractBlock
   returns, which stops at the first end marker. *)
ExtractLine[l \in Line] ==
  [acc \in [ip : Line \cup {None}, inBlock : BOOLEAN, over : BOOLEAN] |->
     CASE acc.over -> acc
       [] ~acc.over /\ l = Begin -> [acc EXCEPT !.inBlock = TRUE]
       [] ~acc.over /\ l = End -> [acc EXCEPT !.over = TRUE]
       [] OTHER -> IF acc.inBlock /\ l # Blank /\ acc.ip = None THEN [acc EXCEPT !.ip = l] ELSE acc]
Extract(s) == Scan(ExtractLine, [ip |-> None, inBlock |-> FALSE, over |-> FALSE], s)
RedirectIP(s) == Extract(s).ip

(* The lines that are not the program's, in order. *)
ForeignLine[l \in Line] ==
  [acc \in Seq(Line) |-> IF l \in Foreign THEN Append(acc, l) ELSE acc]
ForeignLines(s) == Scan(ForeignLine, <<>>, s)

(* A hosts file as the program and its administrator leave it: every block is
   closed, other lines stand outside the blocks and addresses inside. *)
Tidy(s) ==
  /\ s \in Seq(Line) /\ s # <<>>
  /\ ~Strip(s).inBlock
  /\ StripBlock(s) \in Seq(Foreign \cup {Blank})
  /\ ForeignLines(StripBlock(s)) = ForeignLines(s)
  /\ RedirectIP(s) \in IPs \cup {None}
Addressed(s, ip) ==
  /\ \A i \in DOMAIN s : s[i] \in IPs => s[i] = ip
  /\ RedirectIP(s) = ip

ASSUME StartAssumption == \A s \in Start : Tidy(s) /\ Addressed(s, RedirectIP(s))

(* strings.TrimRight of newlines. *)
Trimmed(s) ==
  LET full == {i \in DOMAIN s : s[i] # Blank}
  IN IF full = {} THEN <<Blank>>
     ELSE SubSeq(s, 1, CHOOSE i \in full : \A j \in full : j <= i)

Disabled(s) == Append(Trimmed(StripBlock(s)), Blank)

(* Faulty variant: of the old block only the markers go, the address stays. *)
EnabledOverOld(s, ip) ==
  Trimmed(SelectSeq(s, LAMBDA l : l \notin {Begin, End})) \o <<Begin, ip, End, Blank>>

Enabled(s, ip) == Trimmed(StripBlock(s)) \o <<Begin, ip, End, Blank>>

-----------------------------------------------------------------------------
Init ==
  /\ content \in [Files -> Start \cup {None}]
  /\ content["hosts"] \in Start
  /\ content["binary"] = None
  /\ content["crt"] = None /\ content["key"] = None
  /\ tmp = [f \in Files |-> None]
  /\ trust = None
  /\ pc = [p \in Processes |-> "idle"]
  /\ request = [p \in Processes |-> NoRequest]
  /\ todo = [p \in Processes |-> <<>>]
  /\ mem = [p \in Processes |-> None]
  /\ using = [p \in Processes |-> [server |-> None, key |-> None]]
  /\ calls = 0
  /\ identities = {}
  /\ foreign = ForeignLines(content["hosts"])
  /\ redirect = RedirectIP(content["hosts"])
  /\ before = [p \in Processes |-> [redirect |-> None, crt |-> None]]
  /\ alone = [p \in Processes |-> FALSE]
  /\ spoilt = {}

-----------------------------------------------------------------------------
(* Calls *)

Job(do, ip) == [do |-> do, ip |-> ip]
If(condition, job) == IF condition THEN <<job>> ELSE <<>>
Or(given, default) == IF given = None THEN default ELSE given

(* What a run does once it knows its server. *)
Enrolling(r, server) ==
  <<Job("ca", server), Job("key", None), Job("order", server)>>
  \o If(r.hosts, Job("cert", server)) \o If(r.hosts, Job("enable", Or(r.ip, server)))

Jobs(r) ==
  CASE r.kind = "install" -> If(r.binary, Job("binary", None))
                             \o If(r.cert, Job("cert", r.server))
                             \o If(r.hosts, Job("enable", Or(r.ip, r.server)))
    [] r.kind = "enroll" -> <<Job("resolve", r.server)>>
    [] r.kind = "uninstall" -> If(r.cert, Job("drop-cert", None))
                               \o If(r.hosts, Job("disable", None))
                               \o If(r.binary, Job("drop-binary", None))
    [] r.kind = "enable" -> <<Job("enable", r.ip)>>
    [] r.kind = "disable" -> <<Job("disable", None)>>
    [] r.kind = "cert" -> <<Job("cert", r.server)>>

Resting(p) == pc[p] \in {"idle", "stopped"}

Call(p) ==
  /\ Resting(p)
  /\ calls < MaxCalls
  /\ calls' = calls + 1
  /\ \E r \in Requests :
       /\ Jobs(r) # <<>>
       /\ request' = [request EXCEPT ![p] = r]
       /\ todo' = [todo EXCEPT ![p] = Jobs(r)]
  /\ pc' = [pc EXCEPT ![p] = "do"]
  /\ before' = [before EXCEPT ![p] = [redirect |-> RedirectIP(Text(content["hosts"])),
                                      crt |-> content["crt"]]]
  /\ alone' = [q \in Processes |-> q = p /\ \A o \in Processes \ {p} : Resting(o)]
  /\ UNCHANGED <<content, tmp, trust, mem, using, identities, foreign, redirect, spoilt>>

-----------------------------------------------------------------------------
(* Jobs *)

Doing(p, jobs) == pc[p] = "do" /\ Head(todo[p]).do \in jobs
Address(p) == Head(todo[p]).ip

FileOf(do) ==
  CASE do \in {"enable", "disable"} -> "hosts"
    [] do \in {"binary", "drop-binary"} -> "binary"
    [] do \in {"cert", "drop-cert"} -> "crt"
    [] do = "key" -> "key"
    [] OTHER -> "none"
File(p) == FileOf(Head(todo[p]).do)

Over(p, how) ==
  /\ pc' = [pc EXCEPT ![p] = how]
  /\ request' = [request EXCEPT ![p] = NoRequest]
  /\ todo' = [todo EXCEPT ![p] = <<>>]
  /\ mem' = [mem EXCEPT ![p] = None]
  /\ using' = [using EXCEPT ![p] = [server |-> None, key |-> None]]
  /\ before' = [before EXCEPT ![p] = [redirect |-> None, crt |-> None]]
  /\ alone' = [alone EXCEPT ![p] = FALSE]

(* The job is done: the next one, or the report of success. *)
Done(p) ==
  IF Len(todo[p]) = 1
  THEN Over(p, "idle")
  ELSE /\ pc' = [pc EXCEPT ![p] = "do"]
       /\ todo' = [todo EXCEPT ![p] = Tail(@)]
       /\ mem' = [mem EXCEPT ![p] = None]
       /\ UNCHANGED <<request, using, before, alone>>

disk == <<content, tmp, trust>>
history == <<calls, identities, foreign, redirect>>

Fails(p) == "fail" \in Faults /\ Over(p, "stopped") /\ UNCHANGED <<disk, history, spoilt>>
Refuses(p) == Over(p, "stopped") /\ UNCHANGED <<disk, history, spoilt>>

(* p has made up what to write to its file. *)
Prepares(p, data) ==
  /\ pc' = [pc EXCEPT ![p] = "open"]
  /\ mem' = [mem EXCEPT ![p] = data]
  /\ UNCHANGED <<request, todo, using, before, alone, disk, history>>

InHand(q, f) == pc[q] \in {"open", "write", "rename"} /\ File(q) = f
Spoils(p) ==
  spoilt' = IF \E q \in Processes \ {p} : InHand(q, File(p)) THEN spoilt \cup {File(p)}
            ELSE spoilt

(* No server to download the certificate from, or no address for the redirect. *)
Unaddressed(p) == Doing(p, {"cert", "enable"}) /\ Address(p) = None /\ Refuses(p)

(* hosts.Enable and Disable, the reading half. *)
HostsRead(p) ==
  /\ Doing(p, {"enable", "disable"})
  /\ \/ /\ Doing(p, {"enable"}) => Address(p) # None
        /\ LET old == Text(content["hosts"])
           IN Prepares(p, IF Doing(p, {"enable"}) THEN Enabled(old, Address(p)) ELSE Disabled(old))
        /\ Spoils(p)
     \/ Fails(p)

(* InstallBinary: nothing to do if the installed binary is the same. *)
BinaryRead(p) ==
  /\ Doing(p, {"binary"})
  /\ \/ content["binary"] = request[p].version /\ Done(p) /\ UNCHANGED <<disk, history, spoilt>>
     \/ content["binary"] # request[p].version /\ Prepares(p, request[p].version) /\ Spoils(p)
     \/ Fails(p)

(* The certificate is downloaded from the server. *)
CertRead(p) ==
  /\ Doing(p, {"cert"})
  /\ \/ Address(p) # None /\ Prepares(p, Address(p)) /\ Spoils(p)
     \/ Fails(p)

WithKey(p, k) == using' = [using EXCEPT ![p].key = k]

(* Faulty variants: a new key is used but not saved; whatever is in the file is
   taken for a key. *)
KeyReadUnsaved(p) ==
  /\ Doing(p, {"key"})
  /\ \E k \in KeyIds :
       /\ IF content["key"] \in KeyIds THEN k = content["key"] ELSE k \notin identities
       /\ WithKey(p, k)
  /\ pc' = pc /\ todo' = [todo EXCEPT ![p] = Tail(@)]
  /\ UNCHANGED <<request, mem, before, alone, disk, history, spoilt>>
KeyReadAny(p) ==
  /\ Doing(p, {"key"})
  /\ \/ /\ content["key"] # None
        /\ pc' = pc /\ todo' = [todo EXCEPT ![p] = Tail(@)]
        /\ WithKey(p, content["key"])
        /\ UNCHANGED <<request, mem, before, alone, disk, history, spoilt>>
     \/ /\ content["key"] = None
        /\ \E k \in KeyIds \ identities : Prepares(p, k)
        /\ Spoils(p)

(* LoadOrCreateAccountKey: any error of the read is taken for an absent file. *)
KeyRead(p) ==
  /\ Doing(p, {"key"})
  /\ \/ /\ content["key"] \in KeyIds
        /\ pc' = pc /\ todo' = [todo EXCEPT ![p] = Tail(@)]
        /\ WithKey(p, content["key"])
        /\ UNCHANGED <<request, mem, before, alone, disk, history, spoilt>>
     \/ content["key"] = Torn /\ Refuses(p)
     \/ /\ content["key"] = None \/ "misread" \in Faults
        /\ \E k \in KeyIds \ (identities \cup {content["key"]}) :
             /\ \A q \in Processes : mem[q] # k
             /\ Prepares(p, k)
        /\ spoilt' = IF content["key"] # None \/ \E q \in Processes \ {p} : InHand(q, "key")
                     THEN spoilt \cup {"key"} ELSE spoilt
     \/ Fails(p)

(* Faulty variant: the binary is written in place, like the certificate. *)
OpenInPlace(p) ==
  /\ pc[p] = "open"
  /\ content' = [content EXCEPT ![File(p)] = Torn]
  /\ pc' = [pc EXCEPT ![p] = "write"]
  /\ UNCHANGED <<tmp, trust, request, todo, mem, using, before, alone, history, spoilt>>

(* os.WriteFile: the file, or its temporary file, is created or truncated ... *)
Open(p) ==
  /\ pc[p] = "open"
  /\ \/ /\ IF File(p) \in InPlace
           THEN content' = [content EXCEPT ![File(p)] = Torn] /\ UNCHANGED tmp
           ELSE tmp' = [tmp EXCEPT ![File(p)] = Torn] /\ UNCHANGED content
        /\ pc' = [pc EXCEPT ![p] = "write"]
        /\ UNCHANGED <<trust, request, todo, mem, using, before, alone, history, spoilt>>
     \/ Fails(p)

(* ... and written; if another process has renamed the temporary file away,
   the data may reach the file itself or a file that is gone. *)
Write(p) ==
  LET f == File(p)
  IN /\ pc[p] = "write"
     /\ \/ /\ IF f \in InPlace
              THEN content' = [content EXCEPT ![f] = mem[p]] /\ UNCHANGED tmp
              ELSE \/ tmp[f] # None /\ tmp' = [tmp EXCEPT ![f] = mem[p]] /\ UNCHANGED content
                   \/ tmp[f] = None /\ content' = [content EXCEPT ![f] = mem[p]] /\ UNCHANGED tmp
                   \/ tmp[f] = None /\ UNCHANGED <<content, tmp>>
           /\ pc' = [pc EXCEPT ![p] = CASE f = "crt" -> "refresh"
                                         [] f = "key" -> "do"
                                         [] OTHER -> "rename"]
           /\ todo' = IF f = "key" THEN [todo EXCEPT ![p] = Tail(@)] ELSE todo
           /\ IF f = "key" THEN WithKey(p, mem[p]) ELSE UNCHANGED using
           /\ UNCHANGED <<trust, request, mem, before, alone, history, spoilt>>
        \/ Fails(p)

Rename(p) ==
  LET f == File(p)
  IN /\ pc[p] = "rename"
     /\ \/ /\ tmp[f] # None
           /\ content' = [content EXCEPT ![f] = tmp[f]]
           /\ tmp' = [tmp EXCEPT ![f] = None]
           /\ redirect' = IF f = "hosts" THEN Address(p) ELSE redirect
           /\ Done(p)
           /\ UNCHANGED <<trust, calls, identities, foreign, spoilt>>
        \/ tmp[f] = None /\ Refuses(p)
        \/ Fails(p)

(* Faulty variant: whether the refresh worked does not matter. *)
RefreshAnyway(p) ==
  /\ pc[p] = "refresh"
  /\ trust' \in {trust, IF content["crt"] = Torn THEN None ELSE content["crt"]}
  /\ Done(p)
  /\ UNCHANGED <<content, tmp, history, spoilt>>

(* update-ca-certificates takes over the file if it is a certificate. *)
Refresh(p) ==
  /\ pc[p] = "refresh"
  /\ \/ /\ trust' = IF content["crt"] = Torn THEN None ELSE content["crt"]
        /\ Done(p)
        /\ UNCHANGED <<content, tmp, history, spoilt>>
     \/ Fails(p)

(* RemoveTrust: without the file there is nothing to refresh. *)
DropCert(p) ==
  /\ Doing(p, {"drop-cert"})
  /\ \/ /\ content["crt"] = None
        /\ Done(p)
        /\ UNCHANGED <<disk, history, spoilt>>
     \/ /\ content["crt"] # None
        /\ content' = [content EXCEPT !["crt"] = None]
        /\ pc' = [pc EXCEPT ![p] = "refresh"]
        /\ Spoils(p)
        /\ UNCHANGED <<tmp, trust, request, todo, mem, using, before, alone, history>>
     \/ Fails(p)

DropBinary(p) ==
  /\ Doing(p, {"drop-binary"})
  /\ \/ /\ content' = [content EXCEPT !["binary"] = None]
        /\ Done(p)
        /\ Spoils(p)
        /\ UNCHANGED <<tmp, trust, history>>
     \/ Fails(p)

(* resolveEnrollServer: the server that is given, or the one the host is
   pointed at, or one that the user picks for an install without a binary. *)
Resolve(p) ==
  LET r == RedirectIP(Text(content["hosts"]))
      server == Or(Address(p), r)
      Follow(s) == /\ todo' = [todo EXCEPT ![p] = Enrolling(request[p], s)]
                   /\ using' = [using EXCEPT ![p].server = s]
  IN /\ Doing(p, {"resolve"})
     /\ \/ /\ \/ server # None /\ Follow(server)
              \/ /\ server = None
                 /\ \E picked \in IPs :
                      todo' = [todo EXCEPT ![p] = <<Job("cert", picked), Job("enable", picked),
                                                    Job("adopt", None)>>]
                 /\ UNCHANGED using
           /\ UNCHANGED <<pc, request, mem, before, alone, disk, history, spoilt>>
        \/ server = None /\ Refuses(p)

(* ... which is then read back from the redirect. *)
Adopt(p) ==
  LET r == RedirectIP(Text(content["hosts"]))
  IN /\ Doing(p, {"adopt"})
     /\ \/ /\ r # None
           /\ todo' = [todo EXCEPT ![p] = Enrolling(request[p], r)]
           /\ using' = [using EXCEPT ![p].server = r]
           /\ UNCHANGED <<pc, request, mem, before, alone, disk, history, spoilt>>
        \/ r = None /\ Refuses(p)

(* enrollHTTPClient downloads the certificate to pin it. *)
Reach(p) ==
  /\ Doing(p, {"ca"})
  /\ \/ Done(p) /\ UNCHANGED <<disk, history, spoilt>>
     \/ Fails(p)

(* Register and Order: the run stops early if nothing was issued. *)
Order(p) ==
  /\ Doing(p, {"order"})
  /\ identities' = identities \cup {using[p].key}
  /\ Done(p) \/ Over(p, "stopped")
  /\ UNCHANGED <<disk, calls, foreign, redirect, spoilt>>

(* The process dies; a temporary file stays behind. *)
Kill(p) == "kill" \in Faults /\ ~Resting(p) /\ Refuses(p)

-----------------------------------------------------------------------------
(* The administrator adds a line at the end of the hosts file. *)
Edit ==
  /\ \E l \in Foreign :
       /\ \A i \in DOMAIN Text(content["hosts"]) : Text(content["hosts"])[i] # l
       /\ LET s == Text(content["hosts"])
              body == IF s[Len(s)] = Blank THEN SubSeq(s, 1, Len(s) - 1) ELSE s
          IN content' = [content EXCEPT !["hosts"] = body \o <<l, Blank>>]
       /\ foreign' = Append(foreign, l)
  /\ spoilt' = IF \E q \in Processes : InHand(q, "hosts") THEN spoilt \cup {"hosts"} ELSE spoilt
  /\ alone' = [p \in Processes |-> FALSE]
  /\ UNCHANGED <<tmp, trust, pc, request, todo, mem, using, calls, identities, redirect, before>>

Next ==
  \/ \E p \in Processes :
       \/ Call(p) \/ Unaddressed(p) \/ HostsRead(p) \/ BinaryRead(p) \/ CertRead(p) \/ KeyRead(p)
       \/ Open(p) \/ Write(p) \/ Rename(p) \/ Refresh(p) \/ DropCert(p) \/ DropBinary(p)
       \/ Resolve(p) \/ Adopt(p) \/ Reach(p) \/ Order(p) \/ Kill(p)
  \/ Edit

Spec == Init /\ [][Next]_vars

-----------------------------------------------------------------------------
Data == {None, Torn} \cup Versions \cup IPs \cup KeyIds
Steps == {"idle", "stopped", "do", "open", "write", "rename", "refresh"}

(* Each file holds data of its kind, and each process is at a step of a job. *)
TypeOK ==
  /\ content["hosts"] = Torn \/ content["hosts"] \in Seq(Line)
  /\ content["binary"] \in Versions \cup {None, Torn}
  /\ content["crt"] \in IPs \cup {None, Torn}
  /\ content["key"] \in KeyIds \cup {None, Torn}
  /\ tmp["hosts"] \in {None, Torn} \/ tmp["hosts"] \in Seq(Line)
  /\ \A f \in InPlace : tmp[f] = None
  /\ trust \in IPs \cup {None}
  /\ \A p \in Processes :
       /\ pc[p] \in Steps
       /\ Resting(p) <=> todo[p] = <<>>
       /\ request[p] \in Requests \cup {NoRequest}
       /\ using[p] \in [server : IPs \cup {None}, key : KeyIds \cup {None}]
       /\ pc[p] = "write" /\ File(p) # "hosts" => mem[p] \in Data \ {None, Torn}
  /\ calls \in 0 .. MaxCalls
  /\ identities \subseteq KeyIds
  /\ redirect \in IPs \cup {None}
  /\ spoilt \subseteq Files

(* As long as no two had the file in hand at once: the hosts file keeps every
   foreign line, in order, has no other managed address than the one that was put
   into place last, and the client reads that one back; and the installed binary
   is whole.  Failures, deaths and what they leave behind do no harm. *)
FilesKept ==
  /\ "hosts" \notin spoilt =>
       LET s == content["hosts"]
       IN /\ s # Torn
          /\ ForeignLines(s) = foreign
          /\ Addressed(s, redirect)
  /\ "binary" \notin spoilt => content["binary"] # Torn

(* "The host's stable ACME identity" (acmeclient.go:20-21): whatever fails or dies,
   and however often it enrolls, a host registers under one key only, unless two
   first runs overlap or the file cannot be read. *)
OneIdentity == "key" \in spoilt \/ Cardinality(identities) <= 1

(* A command that nobody disturbed and that reports success has done all it was
   asked to; an enroll without --server goes on with the proxy the host was pointed
   at.  Only an uninstall that finds no certificate file may leave it trusted. *)
Achieved(p) ==
  LET r == request[p]
      seen == RedirectIP(Text(content'["hosts"]))
      server == IF r.kind = "enroll" THEN using[p].server ELSE r.server
  IN CASE r.kind \in {"install", "enroll", "enable", "cert"} ->
            /\ r.kind = "install" /\ r.binary => content'["binary"] = r.version
            /\ r.kind = "cert" \/ (r.kind = "install" /\ r.cert) \/ (r.kind = "enroll" /\ r.hosts)
                 => trust' = server
            /\ r.kind = "enable" \/ (r.kind \in {"install", "enroll"} /\ r.hosts)
                 => seen = Or(r.ip, server)
            /\ r.kind = "enroll" =>
                 /\ content'["key"] = using[p].key
                 /\ server = Or(r.server, Or(before[p].redirect, server))
       [] r.kind \in {"uninstall", "disable"} ->
            /\ r.kind = "disable" \/ r.hosts => seen = None
            /\ r.kind = "uninstall" /\ r.binary => content'["binary"] = None
            /\ r.kind = "uninstall" /\ r.cert /\ before[p].crt # None => trust' = None

ReportsTrue ==
  [][\A p \in Processes :
       (~Resting(p) /\ pc'[p] = "idle" /\ alone[p]) => Achieved(p)]_vars
=============================================================================
