# Formal models of proxmox-license-proxy

TLA+ specifications of the license proxy in `src/`, model-checked with TLC on
small instances and, for the properties that matter most, proved with TLAPS for
every instance. `PROJECT.json` maps each definition to the lines it models and
lists the runs, the theorems, the hazards and the disagreements found.

## 1. Inventory of the system

The program is one Go binary. As a server it answers the Proxmox subscription
check (`verify.php`) and an ACME-like API (`/api/v1`); as a client it enrolls a
Proxmox host; as a command line it administers the registry of the server.

| Part | State it keeps | Operations |
|---|---|---|
| **Registry** (`internal/registry`) | `registry.json` with licenses, hosts and accounts; `.bak`, `.tmp`, `.lock` | `Load` without a lock; `mutate` = lock, load, change, back up, write temporary file, rename, unlock |
| **Service** (`internal/app`) | none of its own | register an account, issue and revoke a subscription, add and generate licenses, verify |
| **HTTP handlers** (`internal/transport/httpapi`) | replay nonces (in memory), readiness flag, TLS key pair | signed client API, admin API, `verify.php`, health |
| **Nonces, JWS** (`internal/acme`) | map of issued nonces with their expiry | issue, use, garbage collection; sign, verify |
| **Enroll client** (`internal/client`, `cli/client_enroll.go`) | account key file; per run: one nonce | fetch a nonce, register, order, set keys with the product tools |
| **CLI administration** (`internal/cli`) | none; opens the registry itself; the exported file | add, generate, remove, date, export, import licenses; decide on hosts and accounts, one by one or `--all`, with notes |
| **Host side** (`internal/hosts`, `certs`, `client`) | block in `/etc/hosts`, trusted CA, installed binary, account key | install, enroll, uninstall, redirect on and off, trust a certificate |
| **Server process** (`registry/migrate.go`, `certs`, `cli/serve.go`, `httpapi.Server`) | state directory with registry, certificate and key; readiness | migrate, reuse or create the certificate, listen, drain and stop |
| **Configuration, discovery, doctor, release check, packaging** | configuration file | load, validate, report |

**How they interact.** Each HTTP request runs in a goroutine. Goroutines of the
server and every CLI process share only the registry file. Each store call locks
the file, reads it, changes it and replaces it, so a handler that makes several
calls is interrupted between any two of them by other requests, the admin API and
the CLI. The enroll client and the server exchange HTTP messages; the server keeps
the nonces in memory and forgets them when it restarts. A systemd timer starts a
client run every day and nothing within a run is retried.

**What is hard.** Check-then-act over several store calls (registration, ordering,
revocation by the owner); lists that are worked through long after they were read
(`--all`, import, picks from a menu); an upgrade that revokes before it mints; a status
and its note that are two mutations; errors that are dropped (`GetLicense`, the backup,
`RegisterErr`, any error of reading the account key); a process that dies between the
system calls of a save, a migration, a certificate pair, or an installation; files
that commands change without a lock through one temporary name; lock-free readers; requests
that are delivered twice or late; two notions of expiry; lost answers; a drain that has
to be longer than the load balancer's probe interval. `PROJECT.json` lists each one at its line.

**What makes each part correct.**

* Registry: it changes atomically, one mutation at a time, readers see states of it,
  a lock never outlives its holder, the backup is the previous state.
* Orders: an account gets a key only under approval, only its own, one per product,
  covering its sockets, idempotently, and not again after a revocation.
* Accounts and hosts: what an operator decided stands.
* `verify.php`: revoked keys are never honoured, issued ones always, and "active" is
  earned.
* Signed requests: accepted at most once, while fresh, and never refused without cause.
* Enroll: every run ends, and the daily run makes up for whatever went wrong.
* Server process: what hosts trust and what the registry holds survive every start, a planned
  stop refuses requests briefly at most and cuts none off early, and the server comes back.
* Administration: no key without the signature gets in, a reported success is one, and
  nothing but naming a key brings a license back.
* Host side: foreign lines stay, files are whole, one identity, a reported success is one.

## 2. Modules

| Module | Models | Kind |
|---|---|---|
| `SubscriptionStatus` | statuses and which of them are active | pure definitions |
| `Subscription` | keys, socket tiers, the key generator | pure definitions, extends `SubscriptionStatus` |
| `LicenseStore` | each `Store` mutation as a function on the registry | pure definitions, extends `Subscription` |
| `LicenseService` | handlers and service, one step per store call; operator, `--all`, restart | state machine, extends `LicenseStore` |
| `AtomicRegistry` | what the registry file promises | abstract specification |
| `RegistryFile` | `Load`, `mutate` and `save`, one step per system call | state machine, implements `AtomicRegistry` |
| `ReplayNonces` | the nonce map | pure definitions |
| `EnrollSession` | enroll client, network, nonce checks, responses, operator | state machine, extends `ReplayNonces` |
| `ServerProcess` | migration, TLS pair, listen, readiness, drain, shutdown, load balancer | state machine |
| `AdminCommands` | the administration commands, each a process with a list of items, and what changes the registry meanwhile | state machine, extends `SubscriptionStatus` |
| `HostSide` | install, enroll, uninstall, redirect and trust on a host's files | state machine |
| `MC*` | finite instances for TLC | |
| `LicenseService_proof`, `LicenseVerify_proof`, `LicenseOrders_proof`, `RegistryFile_proof`, `EnrollSession_proof`, `ServerProcess_proof`, `AdminCommands_proof`, `HostSide_proof` | theorems | proofs |

They meet at these seams. `LicenseService` and `AdminCommands` take each store call as one step; that
`RegistryFile` implements `AtomicRegistry` is the reason they may. `EnrollSession`
takes what a register or order call does to the registry as one step; what one
account's calls promise over that registry is checked in `LicenseService`. `HostSide` ends an
enroll run where `EnrollSession` takes it up: it says which server and which key the run uses.
`ServerProcess` keeps of the registry only where it comes from, and has requests that
may change it or hang; its restart is the `Restart` of `LicenseService` and `EnrollSession`.

Operators named *faulty variant* stand next to the definition they vary. They are
what a plausible bug would look like, no specification uses them, and for each
checked property one of them makes TLC report a violation.

### 2.1 LicenseService

A request has a program counter (`pc`) that names its next store call, the call it
runs, its local variables (`loc`) and what is known of its answer (`reply`):

| Call | Steps | Code |
|---|---|---|
| `new-account` | `RegRead`, `RegWrite` | `RegisterAccount`: `GetAccount`, then `UpsertAccount` |
| `new-order` | per product `OrdGate`, `OrdLookup`, then possibly `OrdRevoke`, `OrdMint` | `IssueSubscription`: account, assignment, revocation on upgrade, key |
| `revoke` | `RevGet`, `RevSet` | `v1Revoke`: owner check, then revocation |
| `verify.php` | `VerUpsert`, `VerGet` | `Verify`: register the host, read the license, decide |

The rest of a handler (generating the key, computing the verdict, recording the
product's result and starting on the next one) belongs to the step of the store call
it follows. The operator's actions are single mutations: the admin API and the
corresponding CLI commands are the same call on the store. `BatchList` and `BatchSet`
are `server approve|reject --all`: one read, then one mutation per host.
`Restart` is a server process that dies and loses what it was doing.

`since` and `withdrawn` are history: what was true at some moment, or at every
moment, while a request ran. They let a property relate an answer to the states it
was computed from. They never guard a step.

Abstractions. Keys are records of product, socket digit and serial. A mint by
request r has serial r, which takes the 28 random bits of a key to be fresh. Dates,
display names, notes, last-seen times and the level letter decide nothing. The order of
the records in the file is left open: of several keys an account holds for a product
the lookup may return any of those the code's rule allows. `auto` is the verdict of the
configured networks on the source address. Each `Faults` member lets
reads fail, writes fail or the server die.

### 2.2 RegistryFile

Inodes with contents, and paths that name them. `rename` moves a path, writing
changes an inode, an open descriptor keeps its inode, and a half-written file is
`Torn`. The steps of a mutation are those of `mutate` and `save` in order; any step
may fail where the code can return an error, and a process may die before each of them,
which releases its `flock`. The backup's errors are dropped, as in the code. Readers
open and read in two steps and take no lock.

`AtomicRegistry` is the abstract specification: a registry, the fate of each
mutation, and what each reader saw. `ImplementsAtomic` maps the contents of the inode
behind `registry.json` to that registry. A mutation that died or failed after its
rename has still taken effect, and one that failed before has not.

Not modelled: loss of power (the code does not call `fsync`), edits of
`registry.json` by hand, and permissions.

### 2.3 EnrollSession

Each host runs `client enroll`: fetch a nonce (`NewNonce`, `Fetched`; the downloads of the CA and the directory
before it carry no state and are part of that one fetch), post the
registration, then the order chained on the nonce of the answer (`Post`, `Answered`),
then set the keys (`Install`). A request on the wire can be lost, repeated, or
delivered after its client has given up. `Verify` is `verifyJWS` up to `nonces.Use`;
`Handle` is the handler and its response with a fresh nonce.

Time is counted in ticks. The nonce map keeps the ticks left until expiry, so that the
instant of expiry, where `Use` refuses and the cleaning still keeps, is a state of
its own. A call does not outlast `MaxWait` ticks (the 30 s of `http.Client`), and
`TTL > 2 * MaxWait` is the assumption that the 10 minutes of a nonce exceed
the response that carries it plus the request that uses it. Nonces nobody holds any more are used
again, which keeps runs without end finite; `life` is the history of the current use.

`calm` says that faults and operator actions have stopped. After it, calls are answered
in time and tools succeed; before it anything in `Events` may happen, without limit.

Not modelled here: two runs at once on one host and the run's server and key file (both in
`HostSide`), server discovery, and a product tool that never returns (the code waits for it without a timeout).

### 2.4 ServerProcess

`Start` to `Listen` is `runServe` with `MigrateLegacy`, `checkRegistryWritable` and `setupTLS`, one file
operation per step: `Copy` reads a legacy file and truncates its copy, `CopyWrite` fills it;
`SaveOpen` and `SaveWrite` do the same for certificate and key. A death leaves what is on disk,
`Torn` included. `Listen` to `Exit` or `Deadline` is `Server.Run`. `Balance` is a load balancer, or the
container's health check, that asks `/readyz` every `ProbeEvery` ticks as long as it has the server in its
pool; while it has not, it may ask at any time, which only decides when the server is found ready. Requests arrive while it
routes them here and may hang. The 15 s read and write timeouts cost a client its answer but end no handler, so a
timed-out request and an answered one are the same `Answer`. `Stop` is a signal: it kills a process that is
still starting, because the handler is installed by `Run`, and is ignored while draining.

`Cli` is any command that changes the registry, at any moment of a start: `MigrateLegacy` takes no registry lock, so
between its `os.Stat` and its `os.WriteFile` a registry may appear, and between truncating and writing one may be
renamed into place, which the open file then misses (`Copied`). An `os.Stat` that fails is taken for an absent file, for
the new registry (it is migrated over) as for each source (it is skipped).

Registries are told apart by their origin only, certificates by being the same or not; `valid` is the verdict of
`LoadKeyPairIfValid` on names and expiry. `trusted`, `excused`, `clean`, `misled` and `deaf` are history.
The operator's own pair (`tls.mode=files`) is complete, or lacks its key.

What the properties exclude, because the code does it:

* A failed migration is logged and the server starts without: the registry, torn or complete, is then at
  the new place, nothing is ever migrated again, and the legacy certificate is lost. The same holds for a death during
  the migration, and for an administration command that creates the registry before the
  first start. `excused` marks these; with a torn registry the server runs but is never ready.
* `misled` marks a migration that is about to go over a registry it has not seen: one that a command creates after the
  migration looked, or that `os.Stat` failed on. It then does go over it, against `migrate.go:18-20`; `server_migration` shows the
  first case. `CurrentRegistryKept` claims every other one, and in particular that no restart, after whatever
  interruption, migrates over a registry that is there.
* After a planned stop requests may be refused. The drain is to "let load balancers notice" (`server.go:215`), but lasts
  1 s, while the health checks of `Dockerfile:43` and `docker-compose.yml:28` run every 30 s: a balancer that relies on these does send
  requests to a closed listener. `RefusedBriefly` says for how long, for every pair of the two constants: at most
  `ProbeEvery - DrainDelay`, and never if the probes are as frequent as the drain is long. A server that died while it listened
  is left out until the balancer may have noticed (`clean`): nothing announces a death.
* `--tls-mode` reaches the server without validation, although `config/model.go:22-23` says that
  invalid values cannot exist. `mode = "other"` is that case; the server then refuses to listen.

### 2.5 AdminCommands

A call fixes the command's items (`list`), as the argument, the file, or the registry says at that
moment. Each later step is one mutation and goes on to the next item, or ends with
`ok` or `failed`. `SetNote` is the second mutation of `approve --note`. `Export` truncates its file and
`ExportWrite` fills it. `ServerIssues`, `ServerRevokes`, `ServerMeetsHost` and `ServerMeetsAccount` are
what the server's handlers do to the registry, `EditFile` is whoever edits the export. `POST /api/licenses` shares
`Accepted` and `Defaulted` with `add`; the other admin routes make one mutation each.

`touched` is the history that makes `SuccessLands` precise: what others changed since the command
began. `source` remembers the registry an export has read and an import is given.
An import drops the owner of a key, so a license that was issued to an account belongs to nobody
after a restore; `RestoreMatchesExport` is about the status and date of each license that is imported, and `SuccessLands`
adds that a reported success means all of them. `--all` also sets hosts that were decided on meanwhile
(`cli/server.go:148`), because that is what it listed. `SuccessLands` neither demands nor forbids it: such hosts are
`touched`, and it claims only that no listed host nobody touched is skipped or reported falsely.

Not modelled: host IDs given twice on one command line. A failed import keeps what it has imported.

### 2.6 HostSide

A command is a list of jobs. A job reads a file, then `Open`, `Write` and, for the hosts file and the
binary, `Rename`. Two processes share the temporary name, so one may
rename what the other has half written. The hosts file is the list of its lines, and
`StripBlock`, `Extract`, `Enabled`, `Disabled` and `RedirectIP` are the functions of `internal/hosts` on it.
Their loops are `Scan`s: `StripLine` and `ExtractLine` say what one line does to the variables of the loop. The steps
are functions, so that one set of lemmas covers every loop.
`Refresh` is `update-ca-certificates`. `Resolve` and `Adopt` are `resolveEnrollServer`.

`spoilt` marks a file that two had in hand at once or a key file that could not be read. Of these the
code promises nothing, and the model shows that it keeps nothing either: overlapping edits of
the hosts file lose lines or tear it, and two first enroll runs register two keys. Everything else,
failures, deaths and leftovers of temporary files included, is claimed by `FilesKept` and `OneIdentity`.

What the model shows besides:

* A torn account key makes every later enroll fail until somebody deletes it.
* `RemoveTrust` deletes the file, then refreshes. If the refresh fails, a second uninstall finds no file,
  refreshes nothing and reports success while the CA is still trusted, contrary to "Roll back
  everything client install did". `ReportsTrue` excludes just this.
* An order that issues nothing ends an enroll run with exit code 0 and a hint (`client_enroll.go:104-108`); nothing is reported
  as done, so the run is `stopped` here and `ReportsTrue` does not speak of it.
* `client install` without `--server` fails at the certificate, with the binary already installed.
* An unterminated marker swallows the rest of the hosts file, and empty lines at its end
  are trimmed, although `hosts.go:1-4` promises not to touch the rest. No command writes an unterminated marker, and
  the initial files have none: `StartAssumption` says of them that they are `Tidy` (blocks are closed, other lines
  stand outside and addresses inside) and name one address. That is a file no client has touched yet, or one
  that `Enable` or `Disable` has left.

Not modelled: servers over plain http and on other ports, which a later run does not find
again (`RedirectIP` keeps an address only), IPv6 addresses, and hostnames given as `--server`.

## 3. What TLC checks

Constants of each run are in its `.cfg`. Requests, mutations, inodes and nonces are
interchangeable and declared symmetric in safety runs, never in liveness runs.

| Run | Bounds | Shows |
|---|---|---|
| `svc_orders` | 1 account, 3 requests, 2 socket tiers, one order at a time, failing reads, an operator who revokes, removes and re-imports | `IssuedCoversSockets`, `NoNeedlessReissue`, `OneActiveKey`, `RefusedOnlyIfWithdrawn`, `RevokedNotReissued` |
| `svc_shared` | 2 accounts, 2 products, 1 host, 2 requests, 1 added key, `--all`, failing writes, crashes | `TypeOK`, `IssuedUnderApproval`, `IssuedKeyIsOwn`, `OnlyOwnerRevokes`, `ReRegistrationKeepsStatus`, `RevokedKeyGoesDark`, `IssuedKeyIsHonoured`, `ActiveIsEarned`, `HostDecisionStands` |
| `file_faults` | 3 mutations, 1 reader, 3 inodes, all faults | `TypeOK`, `ImplementsAtomic`, `BackupAtMostOneBehind`, `EveryMutationEnds` |
| `enroll_replay` | 1 host, 3 nonces, loss, repetition, restarts | `TypeOK`, `AcceptedOnceAndFresh`, `OnlyRestartsSpoilNonces` |
| `enroll_catchup` | 1 host, 2 nonces, 3 keys; loss, failing writes, restarts and operator until `calm` | `EveryRunEnds`, `HostCatchesUp` |
| `server_restarts` | 5 certificates, 1 request, drain 1, grace 1, a probe every 2 ticks, all faults until `calm`, all TLS modes | `TypeOK`, `CurrentRegistryKept`, `TrustKept`, `NoAccidentalPlaintext`, `RefusedBriefly`, `CutOnlyAfterGrace`, `StopEnds`, `ServesAgain` |
| `admin_commands` | 2 commands, 3 keys, 2 hosts, 1 account, 2 dates, files of up to 2 entries, 2 changes from outside, failing mutations, interrupts | `TypeOK`, `OnlyLabKeys`, `SuccessLands`, `RecordStands`, `RestoreMatchesExport` |
| `host_files` | 2 processes, 3 calls, 2 proxies, 1 foreign line, 2 keys, failures, deaths, misread keys | `TypeOK`, `FilesKept`, `OneIdentity`, `ReportsTrue` |

Why these bounds are enough to be of use: every hazard listed is an interference of
two requests, or of one request with the operator, on one account, host or
key. Two requests and one operator therefore meet in every order, and a third
request observes what they left. Two accounts are enough for one to get what belongs
to the other. Three mutations give a current state, a previous one for the
backup, and one that waits for the lock. Three nonces are a stale, a current and
the next one. At most four certificates are in use at once, so five always leave a new one.
Two commands are one that works through its list and one that interferes; a second
item of the list is one done before and one after. Of three calls on a host two may overlap, and
the third finds what they left.

In `server_restarts` the drain is shorter than the time between probes, as it is with the shipped values (1 s against
30 s), so the case in which requests meet a closed listener happens, and `RefusedBriefly` is tight: `deaf` does reach 1. That the
grace of 25 s lies between the two is not kept (1, 1, 2 ticks), as no property compares it with either.

Constraints cut states that add nothing. `OneArea` (`admin_commands`): licenses, hosts and accounts are
different variables, and a command touches one of them, so commands of one area run at a time.
`LastAlone` (`host_files`): the third call does not overlap with both others. In `svc_shared`, as long as
only clients call, nothing is decided on hosts and no administrator's key is added (`ClientsApart`); a host's request meets the first account's orders of one
product from an approved account, and no restart, which loses a request without changing anything its answer is computed from
(`HostApart`); and an account that never calls does not exist (`CallersExist`). States of `svc_shared` that differ
in the history `withdrawn` only, which no step and, `TypeOK` aside, no property of that run reads, count as one (`VIEW Observed`). In `server_restarts`, a balancer notices a server that died before it
is started again (`Missed`): a restart too quick to be noticed, which `RefusedBriefly` leaves out anyway, is not explored. Of the five
certificates the fifth, which is there so that a new one always exists, may be generated but neither saved nor served (`FourServed`).

`CHECK_DEADLOCK FALSE` stands in the service runs, whose finite set of requests may all be
answered with nothing left for the operator to do, and in `admin_commands` and `host_files`, whose
commands may all be over. The mutations of
`RegistryFile` may also all have returned, but its readers go on; the enroll runs and the server never end.

**Fairness.** A goroutine or process that can take its next step eventually does:
weak fairness of each request, mutation, client and server step. Nothing is assumed of
arrivals, operators, faults or readers. `EnrollSession` also assumes that time passes and that the
timer starts a run again, as the systemd timer does every day. The lock needs no strong
fairness for `EveryMutationEnds`: there are finitely many mutations and each holder
lets go. A failure to open the lock file (`LockFails`) has no fairness, so a mutation that
waits behind a lock left behind is not counted as ended by an error. `ServerProcess` assumes that
the process takes its steps and is started again (`Restart=on-failure`), that time passes and the balancer
probes. Handlers owe nothing: they may hang for ever, and a stop still ends.

### Disagreements between the code and what it says of itself

Each is a run that checks one property and finds it violated.

| Run | Property | What happens |
|---|---|---|
| `svc_undo` | `AdminBlockStands` | a block between the read and the write of a re-registration is overwritten |
| `svc_twice` | `OneActiveKey` | overlapping orders of one account both mint |
| `svc_lockout` | `RefusedOnlyIfWithdrawn` | an upgrade revokes, then fails to mint; the account is refused from then on as if an operator had revoked its key |
| `server_migration` | `NeverOverwritten` | a registry that a command writes after the migration has looked for one is overwritten with the one from before 2.0 |

The passing runs say under which condition the property does hold: `svc_orders`
without overlapping orders and without failing writes, and
`ReRegistrationKeepsStatus` of `svc_shared` when nobody decides on the account
between the read and the write; and `CurrentRegistryKept` of `server_restarts` for a registry
that the migration could see.

Smaller disagreements are visible in the model, and bound what the passing runs claim:

* `RegisterAccount` takes a failing `GetAccount` for a new account, so that a bad read
  can reset a status. `svc_shared` therefore has no read faults.
* `Verify` takes a failing `GetLicense` for an unknown key (`service.go:328`), so that a
  revoked key whose record cannot be read counts as unknown. `svc_shared` has no
  read faults; with `"read"` in its `Faults`, `RevokedKeyGoesDark` fails.
* The comment on `Verify` says that a host must be approved first and that a failed registration degrades to an
  invalid answer, reported via `RegisterErr` (`service.go:306-310`); an issued key is answered active all the same, on
  every host, and the result that the handler logs then has no `RegisterErr`. `svc_shared` has failing registrations.
  `IssuedKeyIsHonoured` says nothing of a host that could not be registered; `ActiveIsEarned` says that such an
  answer is active for an active issued key only.
* A block that lands after an order's gate (`service.go:191`) and before its mint does not stop the key:
  `IssuedUnderApproval` asks for an approval at some moment of the order.
* An operator's revocation that lands between the lookup of an order and the mint of its upgrade (`service.go:200-233`) is
  overtaken by the new key. `RevokedNotReissued` speaks of products whose keys were all revoked when the order began.
* The drain of 1 s (`server.go:215`) against health checks every 30 s, see 2.4.
* `approve --all` works on the list it read (`cli/server.go:148`), and sets hosts that were
  decided on meanwhile. `HostDecisionStands` excludes the batch's own steps.
* A backup that fails is skipped in silence (`store.go:87`). `BackupAtMostOneBehind` excludes
  the states after such a failure (`skipped`), until a backup succeeds again.
* A host whose keys were all revoked or failed is told that its account is not approved
  (`client_enroll.go:104`): an order that was answered without keys is all that the client sees.

## 4. What TLAPS proves

For every value of the constants, under the named assumptions of the modules:

| Theorem | States | Inductive invariant |
|---|---|---|
| `TypeCorrect` | `Spec => []TypeOK` | `TypeOK` with, for each program counter, what the local variables hold there |
| `KeysAreOwn` | `Spec => []IssuedKeyIsOwn` | `OwnersOK`: a key an account owns was minted by an order of that account, and so was the key a running order found |
| `RevocationIsOwn` | `Spec => OnlyOwnerRevokes` | the same: a key never passes to another account, it can only lose its owner |
| `IssuedIsApproved` | `Spec => []IssuedUnderApproval` | `ApprovalOK`: a request past its gate has seen its account approved |
| `RevokedKeysStayDark` | no failing reads, `Spec => []RevokedKeyGoesDark` | `SeenOK`: while a request runs, what its history says of its key is true at this moment |
| `IssuedKeysStayHonoured` | no failing reads, `Spec => []IssuedKeyIsHonoured` | the same; the answer to a host that could be registered is computed from the key |
| `ActiveAnswersAreEarned` | `Spec => []ActiveIsEarned` | `EarnedOK`: an approved status a request has read was the host's status during the request |
| `DecisionsStand` | `Spec => HostDecisionStands` | the types |
| `StatusSurvivesRegistration` | no failing reads, `Spec => ReRegistrationKeepsStatus` | `StatusOK`: the status about to be written is the account's, unless another changed it |
| `SocketsAreCovered` | `Spec => []IssuedCoversSockets` | itself with the types |
| `RevocationsStand` | `Spec => []RevokedNotReissued` | `BarredOK`: a product barred throughout is barred now, and no order is about to upgrade or mint it |
| `OneKeyEach` | one order at a time, `Spec => []OneActiveKey` | `OneKeyOK`: at the mint the account has no active key for the product, at the upgrade's revocation at most the one to be revoked |
| `RefusalsHaveAReason` | `UpgradesComplete`, `Spec => []RefusedOnlyIfWithdrawn` | `RefusalOK`: an account whose last key for a product is revoked lost it to a withdrawal, which every order running since knows of, or to an upgrade about to mint |
| `OrdersAreIdempotent` | one order at a time, `Spec => []NoNeedlessReissue` | `IdempotentOK`: a covered product is covered now and not about to be minted; every key with the serial of an order is in its answer; what is in the answer is not to do any more |
| `FileTypes` | `Spec => []TypeOK` | `FileInv` |
| `FileIsAtomic` | `Spec => ImplementsAtomic` | `FileInv`: only the holder of the lock is between load and unlock, an inode behind the path or a reader is never torn, the holder's copy is current plus its own change |
| `BackupIsRecent` | `Spec => []BackupAtMostOneBehind` | `BackupInv`: the holder's copy of the previous state is the current one |
| `EnrollTypes` | `Spec => []TypeOK` | itself |
| `ReplayProtection` | `Spec => AcceptedOnceAndFresh` | `Accounted`: for a nonce that could still be used, its age and the time left add up to the lifetime |
| `NonceOutlastsCall` | `Spec => OnlyRestartsSpoilNonces` | `Young`: a young unused nonce is in the store; a nonce in an answer is no older than its client has waited, one in an awaited request no older than that and one timeout |
| `ServerTypes` | `Spec => []TypeOK` | itself, split into what never changes and the rest |
| `RegistrySurvives` | `Spec => CurrentRegistryKept` | `Constant`, and that copying the registry only goes on while none of this version is there or the migration is `misled` |
| `TrustSurvives` | `Spec => TrustKept` | `Trusting`: wherever the process is, the trusted pair is on disk or can still be copied from the old place, or its loss is excused |
| `NeverPlainByAccident` | `Spec => []NoAccidentalPlaintext` | itself with the types |
| `RefusalsAreBrief` | `Spec => []RefusedBriefly` | `Noticed`: what is left until the next probe and what has passed since the listener closed make up at most what a probe period has more than the drain |
| `GraceIsGranted` | `Spec => CutOnlyAfterGrace` | `Granted`: while closing, what a request has run and what is left of the timer add up to the grace period at least |
| `AdminTypes` | `Spec => []TypeOK` | `Typed`: items of each command are of its kind |
| `NoForeignKey` | `Spec => []OnlyLabKeys` | itself with `Typed` |
| `SuccessIsTrue` | `Spec => SuccessLands` | `Progressing`: what a running command has left is the end of its list, and each item before that is in place or was touched by others |
| `OnlyNamedRevives` | `Spec => RecordStands` | `Typed` |
| `RestoreIsFaithful` | `Spec => RestoreMatchesExport` | `Faithful`: what an import has left, an export still writes, and an unedited file holds, matches the registry it was read from |
| `Types` | `Spec => []TypeOK` | `IInv`: its parts about files (`FilesOK`) and about each command's jobs (`Controlled`) |
| `FilesAreKept` | `Spec => []FilesKept` | `IInv`: a file that is not spoilt is in one hand at most, whose temporary file is its own, and what that hand is about to write has the foreign lines of the file |
| `OneIdentityOnly` | `Spec => []OneIdentity` | `IInv`: every key registered or in use is the one in the file, and nobody replaces a key |
| `SuccessIsReal` | `Spec => ReportsTrue` | `Undisturbed`: each thing an undisturbed command was asked for is among its jobs or done |

Why the strengthening is needed: `IssuedKeyIsOwn` speaks of answers only, and says
nothing about the registry an answer is taken from. An order takes a key from the registry at
its lookup, so the invariant must say who may own a key there. An admin can drop an
owner by adding a key again, but can never set one. In `RegistryFile`, that the path
never shows a torn file says nothing about the temporary file about to be renamed,
so the invariant follows the inode from its creation. `SuccessLands` speaks of one step, the last one
of a command; what the command did before lies any number of steps back, and between them others
may have undone it. So the invariant carries, for the part of the list that is done, the
same statement about the current registry, and `touched` grows with every step that could break it.
`ReportsTrue` is of the same kind, and so is `Undisturbed`. `RefusedOnlyIfWithdrawn` speaks of an order that was
refused; its cause may lie with an earlier order that revoked a small key to mint a bigger one. So
`RefusalOK` says of every account without an active key why it has none.
`TrustKept` likewise speaks of the step that listens, and the invariant follows the pair through the start.

Assumptions used: minted keys are fresh (`Requests \subseteq Serials`, one serial per request),
absent values differ from present ones, and `TTL > 2 * MaxWait`, which
only `NonceOutlastsCall` uses as such. `ServerAssumption` lets a fresh
certificate exist besides any four. `AdminAssumption` has finitely many keys and hosts.

Lists of lines are of any length, and what a loop over them computes is proved by induction. The library's
induction theorems are out of reach, since they take an operator. `SeqInduction` in `HostSide_proof` states induction over
sequences in first-order form, for a set instead of a predicate, and rests on the well-foundedness of the
numbers (`LeastNat`). From it follow that a `Scan` is well defined and what one line more does to it
(`ScanAppend`), and from that what the commands keep: `EnabledTidy`, `DisabledTidy` and `EditedTidy` say
that the new hosts file is `Tidy` again, names the one address asked for and has the same foreign lines.
The steps of the commands are first reduced to the few outcomes they have (`StepCases`: `Takes`, `Opens`, `Puts`,
`Passes`, ...), and each part of the invariant is kept by each outcome.

Three conditions are hypotheses of theorems. "No failing reads" is `"read" \notin Faults`: section 3 says what
the code does with a failing read. "One order at a time" is `OneOrderPerAccount`, without which
`svc_twice` shows the two keys. `UpgradesComplete` adds to it that no write fails, the server does not die, and every order
names a level and sockets for which a key exists, so that an upgrade that has revoked the smaller key does mint the bigger one;
`svc_lockout` shows the refusal without it, and `svc_orders` is an instance that has it.

Only model-checked: liveness (`EveryMutationEnds`, `EveryRunEnds`, `HostCatchesUp`, `StopEnds`, `ServesAgain`), because
fairness is beyond the prover. Every other property of the passing runs is a theorem.

## 5. Not modelled

`PROJECT.json` lists every component with its status. Left out for good:

* Terminal output, prompts and reports (doctor, status, setup, menus, tables), the release check and server discovery: they
  read or compute, and keep no state the other parts rely on. What a user picks in a menu is a choice of an action.
* Cryptography and encodings (JWS, Ed25519, certificates, md5 signatures, XML): their verdicts are inputs.
* The parsing of configuration and networks, a computation without state. Its results are inputs: TLS mode, the
  verdict of the auto-approval networks.
* Install and package scripts. The timer they set up and the restarts they cause are actions.
* Loss of power, permissions, and `registry.json` edited by hand.
