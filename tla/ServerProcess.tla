---------------------------- MODULE ServerProcess ----------------------------
(***************************************************************************)
(* The server process from start to exit (internal/cli/serve.go,           *)
(* internal/registry/migrate.go, internal/certs, httpapi.Server): the      *)
(* legacy migration and the TLS pair it prepares before it listens, and    *)
(* readiness, drain and shutdown against a load balancer that probes       *)
(* /readyz and requests that may hang.                                     *)
(*                                                                         *)
(* Up to Listen every step is one file operation: the process may die or   *)
(* the operation fail at each, and what it has written stays for the next  *)
(* start.  A file that is truncated and not yet written is Torn.  From     *)
(* then on time passes in ticks.                                           *)
(***************************************************************************)
EXTENDS Naturals, Sequences

CONSTANTS Certs,       \* certificates the server may generate, each with its key
          Requests,
          None, Torn,
          Faults,      \* subset of {"read", "write", "bind", "crash"}
          DrainDelay,  \* ticks between signal and Shutdown (1 s in the code)
          Grace,       \* ticks Shutdown waits for requests (25 s)
          ProbeEvery   \* ticks between two probes of the balancer

(* The files of the state directory, in the order the migration copies them. *)
Files == <<"registry", "backup", "crt", "key">>
FileNames == {"registry", "backup", "crt", "key"}

(* Registries are told apart by where they come from: copied from the pre-2.0
   location, or written by this version.  The pair of tls.mode=files is the
   operator's own. *)
Contents == {"legacy", "current", "own", Torn, None} \cup Certs
Modes == {"auto", "files", "http", "other"}
Pairs == [crt : Contents, key : Contents]
NoPair == [crt |-> None, key |-> None]
OwnPairs == {[crt |-> "own", key |-> "own"], [crt |-> "own", key |-> None]}
Default == CHOOSE c \in Certs : TRUE

ASSUME ServerAssumption ==
  /\ DrainDelay \in Nat /\ Grace \in Nat /\ ProbeEvery \in Nat
  /\ None # Torn
  /\ {None, Torn} \cap (Certs \cup {"legacy", "current", "own"}) = {}
  /\ Certs \cap {"legacy", "current", "own"} = {}
  /\ Certs # {}
  /\ \A a, b, c, d \in Certs : Certs \ {a, b, c, d} # {}

VARIABLES dir,      \* the state directory (/etc/pmox)
          old,      \* the pre-2.0 directory (/var/lib/pmox)
          own,      \* the pair that tls.cert and tls.key name
          mode,     \* TLS mode: the --tls-mode flag is not validated
          valid,    \* certificates that cover the configured names and do not expire soon
          pc,       \* where the process is
          at,       \* index of the file it copies or saves
          pem,      \* the pair it will serve
          timer,    \* ticks until it goes on
          running,  \* requests in flight
          ran,      \* ticks each of them has run, up to Grace
          inPool,   \* the balancer sends requests to this server
          probe,    \* ticks until its next probe
          asked,    \* the service is meant to run
          calm,     \* no failure, death or stop from now on
          trusted,  \* history: the certificate hosts trust, the one served last
          excused,  \* history: a failure, or a migration that did not complete, may cost it
          clean,    \* history: FALSE from a death while listening until the balancer may know
          misled,   \* history: the migration is about to go over a registry it did not see
          deaf      \* history: ticks for which, after a planned stop, requests are sent to a closed listener

disk == <<dir, old, own, valid>>
memory == <<at, pem>>
traffic == <<running, ran, inPool, probe>>
world == <<asked, calm>>
past == <<trusted, clean, misled, deaf>>
history == <<past, excused>>
vars == <<dir, old, own, mode, valid, pc, at, pem, timer, running, ran,
          inPool, probe, asked, calm, trusted, excused, clean, misled, deaf>>

(* A new installation, or one upgraded from before 2.0 whose hosts trust the
   certificate of the old directory.  The CLI may have written a registry. *)
Init ==
  /\ old \in {[f \in FileNames |-> None],
              [registry |-> "legacy", backup |-> None, crt |-> Default, key |-> Default]}
  /\ \E r \in {None, "current"} :
       dir = [f \in FileNames |-> IF f = "registry" THEN r ELSE None]
  /\ mode \in Modes
  /\ own \in {NoPair} \cup (IF mode = "files" THEN OwnPairs ELSE {})
  /\ valid = {old.crt} \cap Certs
  /\ pc = "down" /\ at = 1 /\ pem = NoPair /\ timer = 0
  /\ running = {} /\ ran = [r \in Requests |-> 0]
  /\ inPool = FALSE /\ probe = ProbeEvery
  /\ asked = TRUE /\ calm = FALSE
  /\ trusted = (IF dir.registry = None THEN old.crt ELSE None)
  /\ excused = FALSE /\ clean = TRUE /\ misled = FALSE /\ deaf = 0

Fails(kind) == kind \in Faults /\ ~calm
Write(f, contents) == dir' = [dir EXCEPT ![f] = contents]

(* The process ends; its memory is gone. *)
Ends == pc' = "down" /\ at' = 1 /\ pem' = NoPair

-----------------------------------------------------------------------------
(* Start *)

Start ==
  /\ pc = "down" /\ asked
  /\ pc' = "migrate"
  /\ clean' = (clean \/ ~inPool)
  /\ misled' = FALSE
  /\ UNCHANGED <<disk, mode, memory, timer, traffic, world, trusted, excused, deaf>>

(* A migration that fails is logged, and the server starts without it. *)
GiveUp ==
  /\ pc' = "probe" /\ at' = 1
  /\ excused' = TRUE
  /\ UNCHANGED dir

(* Faulty variant: the new location is not looked at. *)
MigrateAlways ==
  /\ pc = "migrate"
  /\ pc' = IF old.registry = None THEN "probe" ELSE "copy"
  /\ UNCHANGED <<disk, mode, memory, timer, traffic, world, history>>

Pending == dir.registry = None /\ old.registry # None

(* Nothing is migrated over an existing registry, however torn; but one that
   os.Stat fails on is taken for absent, here and there.  No lock is taken, so
   what was seen here may have changed by the next step. *)
Migrate ==
  /\ pc = "migrate"
  /\ \/ /\ pc' = IF Pending THEN "copy" ELSE "probe"
        /\ UNCHANGED <<dir, at, excused, misled>>
     \/ /\ Pending /\ (Fails("read") \/ Fails("write"))
        /\ GiveUp
        /\ UNCHANGED misled
     \/ /\ dir.registry # None /\ old.registry # None /\ Fails("read")
        /\ pc' = "copy"
        /\ misled' = TRUE /\ excused' = TRUE
        /\ UNCHANGED <<dir, at>>
  /\ UNCHANGED <<old, own, mode, valid, pem, timer, traffic, world, trusted, clean, deaf>>

(* One file is done with. *)
Onward ==
  IF at < Len(Files) THEN at' = at + 1 /\ pc' = "copy" ELSE at' = 1 /\ pc' = "probe"

(* The next file, if the old directory has it, is read, and its copy opened.
   One that os.Stat fails on is skipped like one that is not there. *)
Copy ==
  /\ pc = "copy"
  /\ misled' = FALSE
  /\ \/ /\ old[Files[at]] = None
        /\ Onward
        /\ UNCHANGED <<dir, excused>>
     \/ /\ old[Files[at]] # None /\ Fails("read")
        /\ Onward
        /\ excused' = TRUE
        /\ UNCHANGED dir
     \/ /\ old[Files[at]] # None
        /\ Write(Files[at], Torn)
        /\ pc' = "copy_write"
        /\ UNCHANGED <<at, excused>>
     \/ old[Files[at]] # None /\ (Fails("read") \/ Fails("write")) /\ GiveUp
  /\ UNCHANGED <<old, own, mode, valid, pem, timer, traffic, world, trusted, clean, deaf>>

(* A command that has meanwhile renamed a registry into place is not written
   over: the open file is no longer the one at the path. *)
Copied(f) == IF dir[f] = Torn THEN old[f] ELSE dir[f]

CopyWrite ==
  /\ pc = "copy_write"
  /\ \/ /\ Write(Files[at], Copied(Files[at]))
        /\ Onward
        /\ UNCHANGED excused
     \/ Fails("write") /\ GiveUp
  /\ UNCHANGED <<old, own, mode, valid, pem, timer, traffic, world, past>>

(* checkRegistryWritable: the first error that ends the process. *)
Probe ==
  /\ pc = "probe"
  /\ \/ pc' = "tls" /\ UNCHANGED memory
     \/ Fails("write") /\ Ends
  /\ UNCHANGED <<disk, mode, timer, traffic, world, history>>

-----------------------------------------------------------------------------
(* setupTLS *)

Matching(pair) == pair.crt = pair.key /\ pair.crt \in Certs \cup {"own"}

Stored == [crt |-> dir.crt, key |-> dir.key]
InUse == {dir.crt, dir.key, trusted, old.crt}

(* Faulty variant: the key is not compared with the certificate. *)
UsableUnpaired(pair) == pair.crt \in valid

(* LoadKeyPairIfValid *)
Usable(pair) == Matching(pair) /\ pair.crt \in valid

(* A certificate nobody has seen; one that is out of use is as good as new. *)
Generated == CHOOSE c \in Certs : c \notin InUse

(* auto: reuse the stored pair, or generate one and save it. *)
SetupAuto ==
  /\ pc = "tls" /\ mode = "auto"
  /\ \/ /\ Usable(Stored)
        /\ pem' = Stored
        /\ pc' = "listen"
        /\ UNCHANGED <<at, valid, excused>>
     \/ /\ ~Usable(Stored) \/ Fails("read")
        /\ pem' = [crt |-> Generated, key |-> Generated]
        /\ valid' = (valid \cap {dir.crt, trusted, old.crt}) \cup {Generated}
        /\ excused' = (excused \/ Usable(Stored))
        /\ at' = 3
        /\ pc' = "save_open"
  /\ UNCHANGED <<dir, old, own, mode, timer, traffic, world, past>>

(* files: both must be readable; no other check is made.  http and any other
   mode: nothing to prepare. *)
SetupOther ==
  /\ pc = "tls" /\ mode # "auto"
  /\ \/ /\ mode = "files" => own.crt # None
        /\ pem' = IF mode = "files" THEN own ELSE NoPair
        /\ pc' = "listen"
        /\ UNCHANGED at
     \/ mode = "files" /\ (own.crt = None \/ Fails("read")) /\ Ends
  /\ UNCHANGED <<disk, mode, timer, traffic, world, history>>

(* WriteKeyPair: the certificate in place, then the key.  An error is logged,
   and the server serves what it could not save; "at" stays where it failed. *)
Unsaved ==
  /\ pc' = "listen"
  /\ excused' = TRUE
  /\ UNCHANGED <<dir, at>>

SaveOpen ==
  /\ pc = "save_open"
  /\ \/ /\ Write(Files[at], Torn)
        /\ pc' = "save_write"
        /\ UNCHANGED <<at, excused>>
     \/ Fails("write") /\ Unsaved
  /\ UNCHANGED <<old, own, mode, valid, pem, timer, traffic, world, past>>

(* Faulty variant: the key is not saved. *)
SaveWriteCrtOnly ==
  /\ pc = "save_write"
  /\ Write(Files[at], pem[Files[at]])
  /\ pc' = "listen" /\ at' = 1
  /\ UNCHANGED <<old, own, mode, valid, pem, timer, traffic, world, history>>

SaveWrite ==
  /\ pc = "save_write"
  /\ \/ /\ Write(Files[at], pem[Files[at]])
        /\ IF at = 3 THEN at' = 4 /\ pc' = "save_open" ELSE at' = 1 /\ pc' = "listen"
        /\ UNCHANGED excused
     \/ Fails("write") /\ Unsaved
  /\ UNCHANGED <<old, own, mode, valid, pem, timer, traffic, world, past>>

-----------------------------------------------------------------------------
(* Run *)

(* Faulty variant: any mode but auto and files is served in plain text. *)
PlainUnlessTLS == mode \notin {"auto", "files"}

Plain == mode = "http"

(* From here on the process handles signals itself. *)
Listen ==
  /\ pc = "listen"
  /\ \/ /\ Plain \/ Matching(pem)
        /\ pc' = "serving"
        /\ trusted' = IF mode = "auto" THEN pem.crt ELSE trusted
        /\ excused' = (mode = "auto" /\ (at # 1 \/ Pending))
        /\ clean' = TRUE
        /\ deaf' = 0
        /\ at' = 1
        /\ UNCHANGED <<pem, misled>>
     \/ /\ (~Plain /\ ~Matching(pem)) \/ Fails("bind")
        /\ Ends
        /\ UNCHANGED history
  /\ UNCHANGED <<disk, mode, timer, traffic, world>>

Listening == pc \in {"serving", "draining"}

(* Faulty variant: the listener closes with the signal. *)
ShutdownAtOnce ==
  /\ pc = "draining"
  /\ pc' = "closing"
  /\ timer' = Grace
  /\ UNCHANGED <<disk, mode, memory, traffic, world, history>>

(* drainDelay is over: Shutdown closes the listener. *)
Shutdown ==
  /\ pc = "draining" /\ timer = 0
  /\ pc' = "closing"
  /\ timer' = Grace
  /\ UNCHANGED <<disk, mode, memory, traffic, world, history>>

Exit ==
  /\ pc = "closing" /\ running = {}
  /\ Ends
  /\ timer' = 0
  /\ UNCHANGED <<disk, mode, traffic, world, history>>

CutOff == running' = {} /\ ran' = [r \in Requests |-> 0]

(* Faulty variants: Shutdown has no deadline; it does not wait. *)
DeadlineNever == FALSE /\ UNCHANGED vars
DeadlineAtOnce ==
  /\ pc = "closing" /\ running # {}
  /\ Ends
  /\ timer' = 0
  /\ CutOff
  /\ UNCHANGED <<disk, mode, inPool, probe, world, history>>

Deadline ==
  /\ pc = "closing" /\ timer = 0 /\ running # {}
  /\ Ends
  /\ CutOff
  /\ UNCHANGED <<disk, mode, timer, inPool, probe, world, history>>

(* A request that the balancer sends here reaches the server. *)
Arrive(r) ==
  /\ inPool /\ Listening /\ r \notin running
  /\ running' = running \cup {r}
  /\ UNCHANGED <<disk, mode, pc, memory, timer, ran, inPool, probe, world, history>>

(* A mutation of the registry takes effect at once; for how, and for what
   becomes of the backup, see RegistryFile. *)
Mutated == [dir EXCEPT !.registry = "current"]

(* Its handler, which may have changed the registry, is done.  It may also hang,
   on the lock say.  Read and write timeouts (15 s) are not told apart: they cost
   the client its answer, and Shutdown waits for the handler all the same. *)
Answer(r) ==
  /\ r \in running
  /\ running' = running \ {r}
  /\ ran' = [ran EXCEPT ![r] = 0]
  /\ \/ UNCHANGED dir
     \/ dir.registry # Torn /\ dir' = Mutated
  /\ UNCHANGED <<old, own, mode, valid, pc, memory, timer, inPool, probe, world, history>>

(* Faulty variant: a draining server still calls itself ready. *)
ReadyWhileListening == Listening /\ dir.registry # Torn

Ready == pc = "serving" /\ dir.registry # Torn

(* Time matters to a server that is listening or shutting down, and to the
   balancer while it sends requests here. *)
Timely == inPool \/ pc \in {"serving", "draining", "closing"}

(* The balancer asks /readyz, and gets no answer once the listener is closed.
   A server in its pool is asked every ProbeEvery ticks, one out of it at any
   time, which tells when the server becomes ready. *)
Balance ==
  /\ IF inPool THEN probe = 0 ELSE Ready
  /\ probe' = ProbeEvery
  /\ inPool' = Ready
  /\ clean' = TRUE /\ deaf' = 0
  /\ UNCHANGED <<disk, mode, pc, memory, timer, running, ran, world, trusted, excused, misled>>

Deaf == IF inPool /\ clean /\ ~Listening THEN deaf + 1 ELSE 0

(* Faulty variant: time goes on past a deadline. *)
TickOn ==
  /\ Timely /\ (inPool => probe > 0)
  /\ probe' = IF inPool THEN probe - 1 ELSE probe
  /\ timer' = IF pc \in {"draining", "closing"} THEN timer - 1 ELSE 0
  /\ ran' = [r \in Requests |->
               IF r \in running /\ ran[r] < Grace THEN ran[r] + 1 ELSE ran[r]]
  /\ deaf' = Deaf
  /\ UNCHANGED <<disk, mode, pc, memory, running, inPool, world, trusted, excused, clean, misled>>

(* Probes and timers are punctual. *)
Tick ==
  /\ Timely /\ (inPool => probe > 0)
  /\ pc \in {"draining", "closing"} => timer > 0
  /\ probe' = IF inPool THEN probe - 1 ELSE probe
  /\ timer' = IF pc \in {"draining", "closing"} THEN timer - 1 ELSE 0
  /\ ran' = [r \in Requests |->
               IF r \in running /\ ran[r] < Grace THEN ran[r] + 1 ELSE ran[r]]
  /\ deaf' = Deaf
  /\ UNCHANGED <<disk, mode, pc, memory, running, inPool, world, trusted, excused, clean, misled>>

-----------------------------------------------------------------------------
(* The operator, the supervisor and the system *)

Copying == {"copy", "copy_write"}
Migrating == {"migrate"} \cup Copying
Starting == Migrating \cup {"probe", "tls", "save_open", "save_write", "listen"}

(* SIGTERM or SIGINT: it kills a process that is still starting, begins the
   drain of one that serves, and is ignored afterwards. *)
Stop ==
  /\ asked /\ ~calm
  /\ asked' = FALSE
  /\ \/ /\ pc \in Starting
        /\ Ends
        /\ excused' = (excused \/ pc \in Migrating)
        /\ UNCHANGED timer
     \/ /\ pc = "serving"
        /\ pc' = "draining"
        /\ timer' = DrainDelay
        /\ UNCHANGED <<memory, excused>>
     \/ /\ pc \in {"down", "draining", "closing"}
        /\ UNCHANGED <<pc, memory, timer, excused>>
  /\ UNCHANGED <<disk, mode, traffic, calm, past>>

StartService ==
  /\ ~asked /\ pc = "down"
  /\ asked' = TRUE
  /\ UNCHANGED <<disk, mode, pc, memory, timer, traffic, calm, history>>

(* The process dies; a service that is meant to run is started again. *)
Crash ==
  /\ Fails("crash") /\ pc # "down"
  /\ Ends
  /\ timer' = 0
  /\ CutOff
  /\ clean' = (clean /\ pc \in Starting)
  /\ excused' = (excused \/ pc \in Migrating)
  /\ UNCHANGED <<disk, mode, inPool, probe, world, trusted, misled, deaf>>

(* The configured names change or the certificates come to expire: a start
   is when it matters. *)
Outdate ==
  /\ ~calm /\ pc = "down"
  /\ valid' = {}
  /\ UNCHANGED <<dir, old, own, mode, pc, memory, timer, traffic, world, history>>

(* What it saw when it looked no longer holds: a registry is there by now. *)
Overtaken == pc = "copy" /\ at = 1

(* A command of the CLI changes the registry, in its own process; the migration
   does not wait for it.  One that has loaded the registry before the migration
   truncates it still puts its own in place.  A registry of its own leaves
   nothing to migrate to. *)
Cli ==
  /\ dir.registry # Torn \/ (pc = "copy_write" /\ at = 1)
  /\ dir' = Mutated
  /\ misled' = (misled \/ Overtaken)
  /\ excused' = (excused \/ (Pending /\ pc \notin Copying))
  /\ UNCHANGED <<old, own, mode, valid, pc, memory, timer, traffic, world,
                  trusted, clean, deaf>>

CalmDown ==
  /\ asked /\ ~calm
  /\ calm' = TRUE
  /\ UNCHANGED <<disk, mode, pc, memory, timer, traffic, asked, history>>

-----------------------------------------------------------------------------
Process ==
  \/ Start \/ Migrate \/ Copy \/ CopyWrite \/ Probe
  \/ SetupAuto \/ SetupOther \/ SaveOpen \/ SaveWrite
  \/ Listen \/ Shutdown \/ Exit \/ Deadline

Environment ==
  \/ Stop \/ StartService \/ Crash \/ Outdate \/ Cli \/ CalmDown

Next ==
  \/ Process \/ Balance \/ Tick \/ Environment
  \/ \E r \in Requests : Arrive(r) \/ Answer(r)

Spec == Init /\ [][Next]_vars

(* The process runs, the supervisor restarts it (Restart=on-failure), time
   passes and the balancer probes.  Handlers owe nothing: they may hang. *)
FairSpec == Spec /\ WF_vars(Process) /\ WF_vars(Balance) /\ WF_vars(Tick)

-----------------------------------------------------------------------------
PCs == Starting \cup {"down", "serving", "draining", "closing"}

TypeOK ==
  /\ dir \in [FileNames -> Contents]
  /\ old \in [FileNames -> Contents]
  /\ own \in Pairs
  /\ mode \in Modes
  /\ valid \subseteq Certs
  /\ pc \in PCs
  /\ at \in 1 .. 4
  /\ pem \in Pairs
  /\ timer \in Nat
  /\ running \subseteq Requests
  /\ ran \in [Requests -> 0 .. Grace]
  /\ inPool \in BOOLEAN /\ asked \in BOOLEAN /\ calm \in BOOLEAN
  /\ probe \in 0 .. ProbeEvery
  /\ trusted \in Certs \cup {None}
  /\ excused \in BOOLEAN /\ clean \in BOOLEAN /\ misled \in BOOLEAN
  /\ deaf \in Nat

-----------------------------------------------------------------------------
(* "It never overwrites current data" (migrate.go:19-20): what this version
   wrote is not replaced by the registry from before 2.0. *)
NeverOverwritten ==
  [][dir.registry = "current" => dir'.registry = "current"]_vars

(* That holds of every registry that was there, and could be seen, when the
   migration looked: no start, repeated, interrupted or overtaken by a command
   while the file is open, goes over it. *)
CurrentRegistryKept ==
  [][dir.registry = "current" /\ ~misled => dir'.registry = "current"]_vars

(* "Otherwise every restart would mint a new cert and break hosts that already
   trust the old one" (server.go:74): across stops, crashes at every step and
   the migration, the server comes back with the certificate hosts trust,
   unless that one is outdated, a file operation on it failed, or the migration
   was interrupted or forestalled. *)
TrustKept ==
  [][(trusted # None /\ trusted' # trusted) => (trusted \notin valid \/ excused)]_vars

(* Whatever --tls-mode says, a listening server has a matching pair or was told
   to do without. *)
NoAccidentalPlaintext == Listening => mode = "http" \/ Matching(pem)

(* The drain is to "let load balancers notice /readyz failing" (server.go:215).
   It does for a balancer that probes within drainDelay; any other may go on
   sending requests to the closed listener after a planned stop, but not for
   longer than its probes are apart, less drainDelay, however often the server
   stops and starts. *)
RefusedBriefly == inPool /\ clean /\ ~Listening => deaf + DrainDelay <= ProbeEvery

(* A request is cut off only when the process dies or the request outlasts the
   whole grace period. *)
CutOnlyAfterGrace ==
  [][pc # "down" /\ pc' = "down" /\ clean' => \A r \in running : ran[r] = Grace]_vars

(* A signal ends the process even if a handler hangs. *)
StopEnds == ~asked ~> (pc = "down" \/ asked)

(* After any sequence of crashes, failures and stops, a server that is asked to
   run and has a usable mode serves again and is put back into the pool,
   unless its registry file is torn. *)
Serviceable == mode \in {"auto", "http"} \/ (mode = "files" /\ Matching(own))

ServesAgain ==
  (calm /\ asked /\ Serviceable) ~>
    (pc = "serving" /\ (inPool \/ dir.registry = Torn))
=============================================================================
