---------------------------- MODULE AdminCommands ----------------------------
(***************************************************************************)
(* The administration commands (internal/cli/license.go, server.go,        *)
(* account.go) and the admin routes of the HTTP server that do the same.   *)
(*                                                                         *)
(* A command is a process of its own.  It makes up its list of items at    *)
(* once, from its arguments, a file or the registry, and then works        *)
(* through the list: one mutation of the registry per item, two if a note  *)
(* goes with it, and an end at the first failure.  Other commands and the  *)
(* server change the registry in between.  A picker only offers a part of  *)
(* what may be given as an argument, and the confirmation is the time      *)
(* between the list and the first mutation.                                *)
(***************************************************************************)
EXTENDS Naturals, Sequences, FiniteSets, SubscriptionStatus

CONSTANTS Processes,   \* command processes, also the notes they attach
          Keys,        \* license keys as a user may type them
          ValidKeys,   \* keys of a Proxmox format
          LabKeys,     \* keys with the lab signature
          Hosts, Accounts,
          Dues,        \* expiry dates in the required format
          DefaultDue,  \* a year from now
          Entries,     \* license data that may be given (bounds the inputs)
          Stored,      \* licenses the registry may hold (bounds the initial states)
          Decisions,   \* statuses that approve, reject and block set (bounds the inputs)
          MaxFile,     \* bound: entries of a file
          MaxEvents,   \* bound: changes from outside
          Faults,      \* subset of {"write", "kill"}
          None, Torn

License == [status : Statuses, account : Accounts \cup {None}, due : Dues]
Host == [status : Statuses, note : Processes \cup {None}]

(* What a user gives for a license: None stands for an absent field, "bad" for
   text that does not parse. *)
Entry == [key : Keys, status : Statuses \cup {None, "bad"}, due : Dues \cup {None, "bad"}]

ASSUME AdminAssumption ==
  /\ ValidKeys \subseteq Keys /\ LabKeys \subseteq Keys
  /\ DefaultDue \in Dues
  /\ Entries \subseteq Entry
  /\ Stored \subseteq License
  /\ Decisions \subseteq {"APPROVED", "REJECTED", "BLOCKED"}
  /\ IsFiniteSet(Keys) /\ IsFiniteSet(Hosts)
  /\ MaxFile \in Nat /\ MaxEvents \in Nat
  /\ None \notin License /\ None \notin Host /\ None \notin Statuses
  /\ None \notin Processes
  /\ None \notin Dues /\ "bad" \notin Dues
  /\ None \notin Seq(Entry) /\ Torn \notin Seq(Entry) /\ None # Torn
  /\ None \notin [Keys -> License \cup {None}]

Kinds == {"add", "import", "set-due", "remove", "export", "hosts", "remove-host", "account"}
NoCommand == [kind |-> "add", force |-> FALSE, status |-> "APPROVED", due |-> DefaultDue,
              note |-> FALSE, list |-> <<>>, source |-> None]

VARIABLES licenses, servers, accounts,  \* the registry
          file,      \* the file that export writes and import reads
          pc,        \* where each command is
          cmd,       \* what it was called to do, with all its items; NoCommand once it is over
          todo,      \* the items it has yet to do
          events,    \* number of changes from outside so far
          saved,     \* history: the licenses that `file' was exported from
          touched    \* history: what others changed since the command began

registry == <<licenses, servers, accounts>>
vars == <<licenses, servers, accounts, file, pc, cmd, todo, events, saved, touched>>

(* A registry with licenses, active or not, and pending hosts. *)
Init ==
  /\ licenses \in [Keys -> {None} \cup Stored]
  /\ \A k \in Keys : licenses[k] # None => k \in ValidKeys \cap LabKeys
  /\ servers \in [Hosts -> {None, [status |-> "PENDING", note |-> None]}]
  /\ accounts \in [Accounts -> {None, "PENDING"}]
  /\ file = None /\ saved = None
  /\ pc = [p \in Processes |-> "idle"]
  /\ cmd = [p \in Processes |-> NoCommand]
  /\ todo = [p \in Processes |-> <<>>]
  /\ events = 0
  /\ touched = [p \in Processes |-> {}]

-----------------------------------------------------------------------------
(* Calls *)

Known(k) == licenses[k] # None
KnownHost(h) == servers[h] # None

(* A set in any order: as it was typed, or as the registry lists its records. *)
Listings(S) ==
  {l \in [1 .. Cardinality(S) -> S] : \A x \in S : \E i \in DOMAIN l : l[i] = x}

(* `source' is a history: what an export has read, or what the file that an
   import reads was exported from. *)
Begins(p, command, items) ==
  /\ pc[p] = "idle"
  /\ pc' = [pc EXCEPT ![p] = "run"]
  /\ cmd' = [cmd EXCEPT ![p] =
                [command EXCEPT !.list = items,
                                !.source = CASE command.kind = "export" -> licenses
                                             [] command.kind = "import" -> saved
                                             [] OTHER -> None]]
  /\ todo' = [todo EXCEPT ![p] = items]
  /\ UNCHANGED <<registry, file, events, saved>>

CallAdd(p) ==
  \E e \in Entries, force \in BOOLEAN :
    Begins(p, [NoCommand EXCEPT !.force = force], <<e>>)

(* generate: a new key of a valid format that carries the signature. *)
CallGenerate(p) ==
  \E k \in ValidKeys \cap LabKeys :
    /\ ~Known(k)
    /\ Begins(p, NoCommand, <<[key |-> k, status |-> "APPROVED", due |-> DefaultDue]>>)

(* import reads the whole file first; what does not parse is not imported. *)
CallImport(p) ==
  /\ file \notin {None, Torn}
  /\ Begins(p, [NoCommand EXCEPT !.kind = "import"], file)

(* set-due and rm, once the key and the date are given or picked. *)
CallKey(p) ==
  \E kind \in {"set-due", "remove"}, k \in Keys, due \in Dues :
    /\ kind = "remove" => due = DefaultDue
    /\ Begins(p, [NoCommand EXCEPT !.kind = kind, !.due = due], <<k>>)

(* export lists all licenses; a license has no absent fields. *)
Exported(k) == [key |-> k, status |-> licenses[k].status, due |-> licenses[k].due]
CallExport(p) ==
  \E keys \in Listings({k \in Keys : Known(k)}) :
    Begins(p, [NoCommand EXCEPT !.kind = "export"], [i \in DOMAIN keys |-> Exported(keys[i])])

HostCommand(status, note) ==
  [NoCommand EXCEPT !.kind = "hosts", !.status = status, !.note = note]

(* approve, reject and block: the given hosts, or all that are pending now. *)
CallHosts(p) ==
  \E status \in Decisions, note \in BOOLEAN :
    \/ \E given \in SUBSET Hosts : \E items \in Listings(given) :
         given # {} /\ Begins(p, HostCommand(status, note), items)
    \/ LET pending == {h \in Hosts : KnownHost(h) /\ servers[h].status = "PENDING"}
       IN /\ status # "BLOCKED"
          /\ pending # {}
          /\ \E items \in Listings(pending) : Begins(p, HostCommand(status, note), items)

CallRemoveHost(p) ==
  \E h \in Hosts : Begins(p, [NoCommand EXCEPT !.kind = "remove-host"], <<h>>)

CallAccount(p) ==
  \E a \in Accounts, status \in {"APPROVED", "BLOCKED"} :
    Begins(p, [NoCommand EXCEPT !.kind = "account", !.status = status], <<a>>)

-----------------------------------------------------------------------------
(* Items *)

Reports(p, what) ==
  /\ pc' = [pc EXCEPT ![p] = what]
  /\ cmd' = [cmd EXCEPT ![p] = NoCommand]
  /\ todo' = [todo EXCEPT ![p] = <<>>]

(* The item is done: go on, or report success. *)
Advance(p) ==
  IF Len(todo[p]) = 1
  THEN Reports(p, "ok")
  ELSE /\ pc' = [pc EXCEPT ![p] = "run"]
       /\ todo' = [todo EXCEPT ![p] = Tail(@)]
       /\ UNCHANGED cmd

Fails(p) == Reports(p, "failed") /\ UNCHANGED registry

At(p, kinds) == pc[p] = "run" /\ todo[p] # <<>> /\ cmd[p].kind \in kinds
Item(p) == Head(todo[p])

Misfires == "write" \in Faults

(* Nothing to import or to export: the command reports success at once. *)
Nothing(p) ==
  /\ pc[p] = "run" /\ todo[p] = <<>> /\ cmd[p].kind = "import"
  /\ Reports(p, "ok")
  /\ UNCHANGED <<registry, file, events, saved>>

(* Faulty variants: --force skips both checks; status and date are not parsed. *)
AcceptedForced(e, force) ==
  /\ force \/ (e.key \in ValidKeys /\ e.key \in LabKeys)
  /\ e.status # "bad"
  /\ e.due # "bad"
AcceptedUnparsed(e, force) ==
  /\ force \/ e.key \in ValidKeys
  /\ e.key \in LabKeys

(* The checks of Service.AddLicense, for the CLI, import and POST /api/licenses. *)
Accepted(e, force) ==
  /\ force \/ e.key \in ValidKeys
  /\ e.key \in LabKeys
  /\ e.status # "bad"
  /\ e.due # "bad"

Given(field, default) == IF field = None THEN default ELSE field

(* Faulty variant: the status of the input is not taken over. *)
DefaultedApproved(e) ==
  [status |-> "APPROVED", account |-> None, due |-> Given(e.due, DefaultDue)]

(* The record it stores; an owner is not part of the input. *)
Defaulted(e) ==
  [status |-> Given(e.status, "APPROVED"), account |-> None, due |-> Given(e.due, DefaultDue)]

Add(p) ==
  LET e == Item(p)
  IN /\ At(p, {"add", "import"})
     /\ \/ /\ Accepted(e, cmd[p].force)
           /\ licenses' = [licenses EXCEPT ![e.key] = Defaulted(e)]
           /\ UNCHANGED <<servers, accounts>>
           /\ Advance(p)
        \/ (~Accepted(e, cmd[p].force) \/ Misfires) /\ Fails(p)
     /\ UNCHANGED <<file, events, saved>>

(* Faulty variant: set-due adds the license anew, with the date given. *)
SetDueAnew(p) ==
  LET k == Item(p)
  IN /\ At(p, {"set-due"})
     /\ Known(k)
     /\ licenses' = [licenses EXCEPT ![k] =
                       Defaulted([key |-> k, status |-> None, due |-> cmd[p].due])]
     /\ UNCHANGED <<servers, accounts>>
     /\ Advance(p)
     /\ UNCHANGED <<file, events, saved>>

SetDue(p) ==
  LET k == Item(p)
  IN /\ At(p, {"set-due"})
     /\ \/ /\ Known(k)
           /\ licenses' = [licenses EXCEPT ![k].due = cmd[p].due]
           /\ UNCHANGED <<servers, accounts>>
           /\ Advance(p)
        \/ (~Known(k) \/ Misfires) /\ Fails(p)
     /\ UNCHANGED <<file, events, saved>>

RemoveLicense(p) ==
  LET k == Item(p)
  IN /\ At(p, {"remove"})
     /\ \/ /\ Known(k)
           /\ licenses' = [licenses EXCEPT ![k] = None]
           /\ UNCHANGED <<servers, accounts>>
           /\ Advance(p)
        \/ (~Known(k) \/ Misfires) /\ Fails(p)
     /\ UNCHANGED <<file, events, saved>>

(* The file is truncated, then written. *)
Export(p) ==
  /\ pc[p] = "run" /\ cmd[p].kind = "export"
  /\ \/ /\ pc' = [pc EXCEPT ![p] = "write"]
        /\ file' = Torn
        /\ saved' = None
        /\ UNCHANGED <<registry, cmd, todo>>
     \/ Misfires /\ Fails(p) /\ UNCHANGED <<file, saved>>
  /\ UNCHANGED events

(* If somebody else has written meanwhile, a shorter text does not cover a
   longer one. *)
ExportWrite(p) ==
  /\ pc[p] = "write"
  /\ \/ /\ \/ file' = cmd[p].list /\ saved' = cmd[p].source
           \/ file # Torn /\ file' = Torn /\ saved' = None
        /\ Reports(p, "ok")
        /\ UNCHANGED registry
     \/ Misfires /\ Fails(p) /\ UNCHANGED <<file, saved>>
  /\ UNCHANGED events

(* Faulty variant: a host whose status cannot be set is passed over. *)
SetHostLenient(p) ==
  /\ At(p, {"hosts"})
  /\ \/ /\ KnownHost(Item(p))
        /\ servers' = [servers EXCEPT ![Item(p)].status = cmd[p].status]
     \/ Misfires /\ UNCHANGED servers
  /\ Advance(p)
  /\ UNCHANGED <<licenses, accounts, file, events, saved>>

(* One mutation for the status, another one for the note. *)
SetHost(p) ==
  LET h == Item(p)
  IN /\ At(p, {"hosts"})
     /\ \/ /\ KnownHost(h)
           /\ servers' = [servers EXCEPT ![h].status = cmd[p].status]
           /\ UNCHANGED <<licenses, accounts>>
           /\ IF cmd[p].note
              THEN pc' = [pc EXCEPT ![p] = "note"] /\ UNCHANGED <<cmd, todo>>
              ELSE Advance(p)
        \/ (~KnownHost(h) \/ Misfires) /\ Fails(p)
     /\ UNCHANGED <<file, events, saved>>

(* That the host may be gone by now is ignored. *)
SetNote(p) ==
  LET h == Item(p)
  IN /\ pc[p] = "note"
     /\ \/ /\ servers' = IF KnownHost(h) THEN [servers EXCEPT ![h].note = p] ELSE servers
           /\ UNCHANGED <<licenses, accounts>>
           /\ Advance(p)
        \/ Misfires /\ Fails(p)
     /\ UNCHANGED <<file, events, saved>>

RemoveHost(p) ==
  LET h == Item(p)
  IN /\ At(p, {"remove-host"})
     /\ \/ /\ KnownHost(h)
           /\ servers' = [servers EXCEPT ![h] = None]
           /\ UNCHANGED <<licenses, accounts>>
           /\ Advance(p)
        \/ (~KnownHost(h) \/ Misfires) /\ Fails(p)
     /\ UNCHANGED <<file, events, saved>>

SetAccount(p) ==
  LET a == Item(p)
  IN /\ At(p, {"account"})
     /\ \/ /\ accounts[a] # None
           /\ accounts' = [accounts EXCEPT ![a] = cmd[p].status]
           /\ UNCHANGED <<licenses, servers>>
           /\ Advance(p)
        \/ (accounts[a] = None \/ Misfires) /\ Fails(p)
     /\ UNCHANGED <<file, events, saved>>

(* The user interrupts the command. *)
Kill(p) ==
  /\ "kill" \in Faults
  /\ pc[p] \in {"run", "write", "note"}
  /\ Reports(p, "killed")
  /\ UNCHANGED <<registry, file, events, saved>>

-----------------------------------------------------------------------------
(* Changes from outside: the server's handlers, and whoever edits the file *)

ServerIssues ==
  /\ \E k \in ValidKeys \cap LabKeys, a \in Accounts :
       /\ ~Known(k)
       /\ licenses' = [licenses EXCEPT ![k] =
                         [status |-> "APPROVED", account |-> a, due |-> DefaultDue]]
  /\ UNCHANGED <<servers, accounts, file, saved>>

ServerRevokes ==
  /\ \E k \in Keys :
       /\ Known(k)
       /\ licenses' = [licenses EXCEPT ![k].status = "REVOKED"]
  /\ UNCHANGED <<servers, accounts, file, saved>>

ServerMeetsHost ==
  /\ \E h \in Hosts, status \in {"PENDING", "APPROVED"} :
       /\ KnownHost(h) => servers[h].status = "PENDING" /\ status = "APPROVED"
       /\ servers' = [servers EXCEPT ![h] = IF @ = None
                                            THEN [status |-> status, note |-> None]
                                            ELSE [@ EXCEPT !.status = status]]
  /\ UNCHANGED <<licenses, accounts, file, saved>>

ServerMeetsAccount ==
  /\ \E a \in Accounts, status \in {"PENDING", "APPROVED"} :
       /\ accounts[a] = None
       /\ accounts' = [accounts EXCEPT ![a] = status]
  /\ UNCHANGED <<licenses, servers, file, saved>>

EditFile ==
  /\ \E n \in 0 .. MaxFile : \E entries \in [1 .. n -> Entries] : file' = entries
  /\ saved' = None
  /\ UNCHANGED registry

Outside ==
  /\ events < MaxEvents
  /\ events' = events + 1
  /\ ServerIssues \/ ServerRevokes \/ ServerMeetsHost \/ ServerMeetsAccount \/ EditFile
  /\ UNCHANGED <<pc, cmd, todo>>

-----------------------------------------------------------------------------
Call(p) ==
  \/ CallAdd(p) \/ CallGenerate(p) \/ CallImport(p) \/ CallKey(p)
  \/ CallExport(p) \/ CallHosts(p) \/ CallRemoveHost(p) \/ CallAccount(p)

Step(p) ==
  \/ Nothing(p) \/ Add(p) \/ SetDue(p) \/ RemoveLicense(p) \/ Export(p) \/ ExportWrite(p)
  \/ SetHost(p) \/ SetNote(p) \/ RemoveHost(p) \/ SetAccount(p) \/ Kill(p)

(* What changes in this step, for the commands that did not do it. *)
Changed ==
       {k \in Keys : licenses'[k] # licenses[k]}
  \cup {h \in Hosts : servers'[h] # servers[h]}
  \cup {a \in Accounts : accounts'[a] # accounts[a]}
  \cup (IF file' # file THEN {"file"} ELSE {})

Observe(self) ==
  touched' = [q \in Processes |->
                IF q = self THEN IF cmd'[q] = NoCommand THEN {} ELSE touched[q]
                ELSE IF cmd[q] = NoCommand THEN {} ELSE touched[q] \cup Changed]

Next ==
  \/ \E p \in Processes : (Call(p) \/ Step(p)) /\ Observe(p)
  \/ Outside /\ Observe(None)

Spec == Init /\ [][Next]_vars

-----------------------------------------------------------------------------
Items == Entry \cup Keys \cup Hosts \cup Accounts
IsList(l) == Len(l) \in Nat /\ \A i \in DOMAIN l : l[i] \in Items
IsCommand(c) ==
  /\ c.kind \in Kinds /\ c.status \in Statuses /\ c.due \in Dues
  /\ c.force \in BOOLEAN /\ c.note \in BOOLEAN
  /\ IsList(c.list)
  /\ c.source \in {None} \cup [Keys -> License \cup {None}]

TypeOK ==
  /\ licenses \in [Keys -> License \cup {None}]
  /\ servers \in [Hosts -> Host \cup {None}]
  /\ accounts \in [Accounts -> Statuses \cup {None}]
  /\ file \in {None, Torn} \/ IsList(file)
  /\ pc \in [Processes -> {"idle", "run", "write", "note", "ok", "failed", "killed"}]
  /\ \A p \in Processes : IsCommand(cmd[p]) /\ IsList(todo[p])
  /\ events \in 0 .. MaxEvents
  /\ saved \in {None} \cup [Keys -> License \cup {None}]
  /\ \A p \in Processes : touched[p] \subseteq Keys \cup Hosts \cup Accounts \cup {"file"}

-----------------------------------------------------------------------------
(* "Every subscription must carry the 1ab signature" (README.md:232): no way in,
   forced, imported, generated or issued, leaves another key in the registry. *)
OnlyLabKeys == \A k \in Keys : Known(k) => k \in LabKeys

(* A command that reports success has done all it listed: whatever nobody else
   changed since it began is in the registry the way the command wants it, for
   every license of an imported file, the last one of a key winning, for every
   host of --all, with its note, and for the exported file. *)
Landed(p, i) ==
  LET c == cmd[p]
      item == c.list[i]
  IN CASE c.kind \in {"add", "import"} ->
            (\A j \in DOMAIN c.list : j > i => c.list[j].key # item.key) =>
               item.key \in touched[p] \/ licenses'[item.key] = Defaulted(item)
       [] c.kind = "set-due" -> item \in touched[p] \/ licenses'[item].due = c.due
       [] c.kind = "remove" -> item \in touched[p] \/ licenses'[item] = None
       [] c.kind = "hosts" ->
            \/ item \in touched[p]
            \/ /\ servers'[item] # None
               /\ servers'[item].status = c.status
               /\ c.note => servers'[item].note = p
       [] c.kind = "remove-host" -> item \in touched[p] \/ servers'[item] = None
       [] c.kind = "account" -> item \in touched[p] \/ accounts'[item] = c.status
       [] c.kind = "export" -> "file" \in touched[p] \/ file' = c.list

SuccessLands ==
  [][\A p \in Processes :
       (pc[p] # "ok" /\ pc'[p] = "ok") => \A i \in DOMAIN cmd[p].list : Landed(p, i)]_vars

(* Command p has just done the first item of its list. *)
Does(p) == pc[p] = "run" /\ todo'[p] # todo[p] /\ pc'[p] \in {"run", "ok"}

(* An inactive license becomes active, and an issued one loses its owner, only
   by an add or an import that names its key: never by a new date, whatever
   was decided since the key was picked. *)
Names(p, k) == Does(p) /\ cmd[p].kind \in {"add", "import"} /\ Item(p).key = k

RecordStands ==
  [][\A k \in Keys :
       (Known(k) /\ licenses'[k] # None
          /\ \/ ~ActiveStatus(licenses[k].status) /\ ActiveStatus(licenses'[k].status)
             \/ licenses'[k].account # licenses[k].account)
         => \E p \in Processes : Names(p, k)]_vars

(* Each license that importing an unedited export brings back has the status and
   the date it had: a revoked one stays revoked.  That a success brings them all
   is SuccessLands. *)
RestoreMatchesExport ==
  [][\A p \in Processes :
       (Does(p) /\ cmd[p].kind = "import" /\ cmd[p].source # None) =>
          LET k == Item(p).key
          IN /\ cmd[p].source[k] # None
             /\ licenses'[k].status = cmd[p].source[k].status
             /\ licenses'[k].due = cmd[p].source[k].due]_vars
=============================================================================
