------------------------ MODULE AdminCommands_proof ------------------------
(***************************************************************************)
(* What a command reports is true, what it was not asked to change stands, *)
(* and only lab keys get in, for any number of commands, licenses, hosts   *)
(* and accounts, whoever else changes the registry meanwhile.              *)
(***************************************************************************)
EXTENDS AdminCommands, FiniteSetTheorems, SequenceTheorems, TLAPS

Sources == {None} \cup [Keys -> License \cup {None}]
Commands == [kind : Kinds, force : BOOLEAN, status : Statuses, due : Dues, note : BOOLEAN,
             list : Seq(Items), source : Sources]
Places == {"idle", "run", "write", "note", "ok", "failed", "killed"}

ItemsOf(kind) ==
  CASE kind \in {"add", "import", "export"} -> Entry
    [] kind \in {"set-due", "remove"} -> Keys
    [] kind \in {"hosts", "remove-host"} -> Hosts
    [] kind = "account" -> Accounts

Registered ==
  /\ licenses \in [Keys -> License \cup {None}]
  /\ servers \in [Hosts -> Host \cup {None}]
  /\ accounts \in [Accounts -> Statuses \cup {None}]

Filed ==
  /\ file \in {None, Torn} \cup Seq(Entry)
  /\ saved \in Sources

(* The items of a command are of the kind it works on. *)
Commanded ==
  /\ cmd \in [Processes -> Commands]
  /\ todo \in [Processes -> Seq(Items)]
  /\ \A p \in Processes : /\ todo[p] \in Seq(ItemsOf(cmd[p].kind))
                          /\ cmd[p].list \in Seq(ItemsOf(cmd[p].kind))

Placed ==
  /\ pc \in [Processes -> Places]
  /\ \A p \in Processes : /\ pc[p] = "write" => cmd[p].kind = "export"
                          /\ pc[p] = "note" => cmd[p].kind = "hosts" /\ todo[p] # <<>>

Counted ==
  /\ events \in 0 .. MaxEvents
  /\ touched \in [Processes -> SUBSET (Keys \cup Hosts \cup Accounts \cup {"file"})]

Typed == Registered /\ Filed /\ Commanded /\ Placed /\ Counted

LEMMA ItemsOfKind ==
  ASSUME NEW kind \in Kinds PROVE ItemsOf(kind) \subseteq Items
BY DEF ItemsOf, Items, Kinds

LEMMA EmptyLists == \A S : <<>> \in Seq(S)
BY EmptySeq

LEMMA Nothings ==
  /\ NoCommand \in Commands
  /\ NoCommand.kind = "add" /\ NoCommand.list = <<>> /\ NoCommand.source = None
<1>1. <<>> \in Seq(Items)
  BY EmptyLists
<1>2. "add" \in Kinds /\ "APPROVED" \in Statuses /\ DefaultDue \in Dues /\ None \in Sources
  BY AdminAssumption DEF Kinds, Statuses, Sources
<1> QED BY <1>1, <1>2 DEF NoCommand, Commands

LEMMA ListIsList ==
  ASSUME NEW l \in Seq(Items) PROVE IsList(l)
BY LenProperties, ElementOfSeq DEF IsList

LEMMA CommandIsCommand ==
  ASSUME NEW c \in Commands PROVE IsCommand(c)
<1>1. /\ c.kind \in Kinds /\ c.status \in Statuses /\ c.due \in Dues
      /\ c.list \in Seq(Items) /\ c.source \in Sources
  BY DEF Commands
<1>2. c.force \in BOOLEAN /\ c.note \in BOOLEAN
  BY Zenon DEF Commands
<1> QED BY <1>1, <1>2, ListIsList DEF IsCommand, Sources

LEMMA TypedIsTypeOK == Typed => TypeOK
<1> SUFFICES ASSUME Typed PROVE TypeOK
  OBVIOUS
<1>1. file \in {None, Torn} \/ IsList(file)
  <2>1. file \in Seq(Entry) => file \in Seq(Items)
    BY SeqMonotonic, ElementOfSeq DEF Items
  <2> QED BY <2>1, ListIsList DEF Typed, Filed
<1>2. \A p \in Processes : IsCommand(cmd[p]) /\ IsList(todo[p])
  BY CommandIsCommand, ListIsList DEF Typed, Commanded
<1>3. \A p \in Processes : touched[p] \subseteq Keys \cup Hosts \cup Accounts \cup {"file"}
  BY DEF Typed, Counted
<1> QED
  BY <1>1, <1>2, <1>3 DEF Typed, TypeOK, Registered, Filed, Placed, Places, Counted, Sources

LEMMA InitTyped == Init => Typed
<1> SUFFICES ASSUME Init PROVE Typed
  OBVIOUS
<1>1. licenses \in [Keys -> License \cup {None}]
  BY AdminAssumption DEF Init
<1>2. servers \in [Hosts -> Host \cup {None}]
  <2>1. [status |-> "PENDING", note |-> None] \in Host
    BY DEF Host, Statuses
  <2> QED BY <2>1 DEF Init
<1>3. accounts \in [Accounts -> Statuses \cup {None}]
  BY DEF Init, Statuses
<1>4. Filed
  BY DEF Init, Filed, Sources
<1>5. Commanded
  BY EmptyLists, Nothings DEF Init, Commanded
<1>6. Placed
  BY DEF Init, Placed, Places
<1>7. Counted
  BY AdminAssumption DEF Init, Counted
<1> QED BY <1>1, <1>2, <1>3, <1>4, <1>5, <1>6, <1>7 DEF Typed, Registered

-----------------------------------------------------------------------------
(* Calls *)

LEMMA BeginsTyped ==
  ASSUME Typed, NEW p \in Processes, NEW command \in Commands,
         NEW items \in Seq(ItemsOf(command.kind)), Begins(p, command, items)
  PROVE  Commanded' /\ Placed'
<1> DEFINE source == CASE command.kind = "export" -> licenses
                       [] command.kind = "import" -> saved
                       [] OTHER -> None
           c == [command EXCEPT !.list = items, !.source = source]
<1>1. source \in Sources
  BY DEF Typed, Registered, Filed, Sources
<1>2. command.kind \in Kinds /\ items \in Seq(Items)
  <2>1. command.kind \in Kinds
    BY DEF Commands
  <2> QED BY <2>1, ItemsOfKind, SeqMonotonic, ElementOfSeq
<1>3. cmd' = [cmd EXCEPT ![p] = c]
  BY DEF Begins
<1> HIDE DEF source
<1>4. c \in Commands /\ c.kind = command.kind /\ c.list = items
  BY <1>1, <1>2 DEF Commands
<1> HIDE DEF c
<1>5. Commanded'
  BY <1>2, <1>3, <1>4 DEF Begins, Typed, Commanded
<1>6. Placed'
  BY <1>3, <1>4 DEF Begins, Typed, Commanded, Placed, Places
<1> QED BY <1>5, <1>6

LEMMA ListingTyped ==
  ASSUME NEW S, IsFiniteSet(S), NEW l \in Listings(S)
  PROVE  l \in Seq(S)
<1>1. Cardinality(S) \in Nat
  BY FS_CardinalityType
<1>2. l \in [1 .. Cardinality(S) -> S]
  BY DEF Listings
<1> QED BY <1>1, <1>2, SeqDef

LEMMA SingleTyped ==
  ASSUME NEW S, NEW x \in S PROVE <<x>> \in Seq(S)
OBVIOUS

(* What all calls have in common. *)
Called(p, command, items) ==
  /\ Begins(p, command, items)
  /\ command.kind = "add" => items # <<>>
  /\ command.kind = "import" => file \notin {None, Torn} /\ items = file
  /\ command.kind = "export" =>
       \A i \in DOMAIN items : \E k \in Keys : Known(k) /\ items[i] = Exported(k)

Calls(p) ==
  \E command \in Commands : \E items \in Seq(ItemsOf(command.kind)) : Called(p, command, items)

LEMMA OtherCall ==
  ASSUME NEW p \in Processes, NEW kind \in Kinds \ {"add", "import", "export"},
         NEW command \in Commands, command.kind = kind,
         NEW items \in Seq(ItemsOf(kind)), Begins(p, command, items)
  PROVE  Calls(p)
BY DEF Calls, Called

LEMMA AddCall ==
  ASSUME Typed, NEW p \in Processes, CallAdd(p) \/ CallGenerate(p)
  PROVE  Calls(p)
<1>1. ASSUME NEW command \in Commands, command.kind = "add", NEW e \in Entry,
             Begins(p, command, <<e>>)
      PROVE  Calls(p)
  <2>1. <<e>> \in Seq(ItemsOf("add")) /\ <<e>> # <<>>
    BY SingleTyped DEF ItemsOf
  <2> QED BY <1>1, <2>1 DEF Calls, Called
<1>2. CASE CallAdd(p)
  <2>1. PICK e \in Entries, force \in BOOLEAN :
          Begins(p, [NoCommand EXCEPT !.force = force], <<e>>)
    BY <1>2 DEF CallAdd
  <2>2. [NoCommand EXCEPT !.force = force] \in Commands
    BY Nothings DEF Commands
  <2>3. [NoCommand EXCEPT !.force = force].kind = "add"
    BY Nothings DEF NoCommand
  <2> QED BY <1>1, <2>1, <2>2, <2>3, AdminAssumption
<1>3. CASE CallGenerate(p)
  <2>1. PICK k \in Keys :
          Begins(p, NoCommand, <<[key |-> k, status |-> "APPROVED", due |-> DefaultDue]>>)
    BY <1>3, AdminAssumption DEF CallGenerate
  <2>2. [key |-> k, status |-> "APPROVED", due |-> DefaultDue] \in Entry
    BY AdminAssumption DEF Entry, Statuses
  <2> QED BY <1>1, <2>1, <2>2, Nothings
<1> QED BY <1>2, <1>3

LEMMA FileCall ==
  ASSUME Typed, NEW p \in Processes, CallImport(p) \/ CallExport(p)
  PROVE  Calls(p)
<1>1. CASE CallImport(p)
  <2> DEFINE c == [NoCommand EXCEPT !.kind = "import"]
  <2>1. c \in Commands /\ c.kind = "import"
    BY Nothings DEF Commands, Kinds
  <2>2. file \notin {None, Torn} /\ Begins(p, c, file)
    BY <1>1 DEF CallImport
  <2> HIDE DEF c
  <2>3. file \in Seq(ItemsOf("import"))
    BY <2>2 DEF Typed, Filed, ItemsOf
  <2> QED BY <2>1, <2>2, <2>3 DEF Calls, Called
<1>2. CASE CallExport(p)
  <2> DEFINE c == [NoCommand EXCEPT !.kind = "export"]
             known == {k \in Keys : Known(k)}
  <2>1. c \in Commands /\ c.kind = "export"
    BY Nothings DEF Commands, Kinds
  <2>2. PICK keys \in Listings(known) : Begins(p, c, [i \in DOMAIN keys |-> Exported(keys[i])])
    BY <1>2 DEF CallExport
  <2> HIDE DEF c
  <2>3. keys \in Seq(known)
    BY ListingTyped, FS_Subset, AdminAssumption
  <2> DEFINE items == [i \in DOMAIN keys |-> Exported(keys[i])]
  <2>4. \A i \in 1 .. Len(keys) : keys[i] \in known
    BY <2>3, ElementOfSeq
  <2>5. DOMAIN keys = 1 .. Len(keys) /\ Len(keys) \in Nat
    BY <2>3, LenProperties
  <2>6. \A k \in known : Exported(k) \in Entry
    <3> TAKE k \in known
    <3>1. licenses[k] \in License
      BY DEF Typed, Registered, Known
    <3>2. licenses[k].status \in Statuses /\ licenses[k].due \in Dues
      BY <3>1 DEF License
    <3> QED BY <3>2 DEF Exported, Entry
  <2>7. items \in Seq(Entry)
    <3> HIDE DEF known
    <3>1. \A i \in 1 .. Len(keys) : Exported(keys[i]) \in Entry
      BY <2>4, <2>6
    <3> QED BY <2>5, <3>1, IsASeq
  <2>8. \A i \in DOMAIN items : \E k \in Keys : Known(k) /\ items[i] = Exported(k)
    BY <2>4, <2>5
  <2> HIDE DEF items
  <2> QED BY <2>1, <2>2, <2>7, <2>8 DEF Calls, Called, ItemsOf, items
<1> QED BY <1>1, <1>2

LEMMA HostsCall ==
  ASSUME Typed, NEW p \in Processes, CallHosts(p)
  PROVE  Calls(p)
<1>1. PICK status \in Decisions, note \in BOOLEAN, given \in SUBSET Hosts :
        \E items \in Listings(given) : Begins(p, HostCommand(status, note), items)
  <2> DEFINE pending == {h \in Hosts : KnownHost(h) /\ servers[h].status = "PENDING"}
  <2>1. pending \in SUBSET Hosts
    OBVIOUS
  <2> QED BY <2>1 DEF CallHosts
<1>2. PICK items \in Listings(given) : Begins(p, HostCommand(status, note), items)
  BY <1>1
<1>3. HostCommand(status, note) \in Commands /\ HostCommand(status, note).kind = "hosts"
  <2>1. status \in Statuses
    BY AdminAssumption DEF Statuses
  <2> QED BY <2>1, Nothings DEF HostCommand, Commands, Kinds
<1>4. items \in Seq(Hosts)
  <2>1. items \in Seq(given)
    BY ListingTyped, FS_Subset, AdminAssumption
  <2> QED BY <2>1, SeqMonotonic, ElementOfSeq
<1> QED BY <1>2, <1>3, <1>4, OtherCall DEF ItemsOf, Kinds

LEMMA SingleCall ==
  ASSUME Typed, NEW p \in Processes, CallKey(p) \/ CallRemoveHost(p) \/ CallAccount(p)
  PROVE  Calls(p)
<1>1. CASE CallKey(p)
  <2>1. PICK kind \in {"set-due", "remove"}, k \in Keys, due \in Dues :
          Begins(p, [NoCommand EXCEPT !.kind = kind, !.due = due], <<k>>)
    BY <1>1 DEF CallKey
  <2> DEFINE c == [NoCommand EXCEPT !.kind = kind, !.due = due]
  <2>2. c \in Commands /\ c.kind = kind
    BY Nothings DEF Commands, Kinds
  <2> HIDE DEF c
  <2>3. <<k>> \in Seq(ItemsOf(kind))
    BY SingleTyped DEF ItemsOf
  <2> QED BY <2>1, <2>2, <2>3, OtherCall DEF c, Kinds
<1>2. CASE CallRemoveHost(p)
  <2> DEFINE c == [NoCommand EXCEPT !.kind = "remove-host"]
  <2>1. PICK h \in Hosts : Begins(p, c, <<h>>)
    BY <1>2 DEF CallRemoveHost
  <2>2. c \in Commands /\ c.kind = "remove-host"
    BY Nothings DEF Commands, Kinds
  <2> HIDE DEF c
  <2>3. <<h>> \in Seq(ItemsOf("remove-host"))
    BY SingleTyped DEF ItemsOf
  <2> QED BY <2>1, <2>2, <2>3, OtherCall DEF Kinds
<1>3. CASE CallAccount(p)
  <2>1. PICK a \in Accounts, status \in {"APPROVED", "BLOCKED"} :
          Begins(p, [NoCommand EXCEPT !.kind = "account", !.status = status], <<a>>)
    BY <1>3 DEF CallAccount
  <2> DEFINE c == [NoCommand EXCEPT !.kind = "account", !.status = status]
  <2>2. c \in Commands /\ c.kind = "account"
    BY Nothings DEF Commands, Kinds, Statuses
  <2> HIDE DEF c
  <2>3. <<a>> \in Seq(ItemsOf("account"))
    BY SingleTyped DEF ItemsOf
  <2> QED BY <2>1, <2>2, <2>3, OtherCall DEF c, Kinds
<1> QED BY <1>1, <1>2, <1>3

LEMMA CallCalls ==
  ASSUME Typed, NEW p \in Processes, Call(p)
  PROVE  Calls(p)
BY AddCall, FileCall, HostsCall, SingleCall DEF Call

-----------------------------------------------------------------------------
(* Items *)

LEMMA ReportsTyped ==
  ASSUME Typed, NEW p \in Processes, NEW what \in {"ok", "failed", "killed"}, Reports(p, what)
  PROVE  Commanded' /\ Placed'
<1>1. Commanded'
  BY Nothings, EmptyLists DEF Reports, Typed, Commanded
<1>2. Placed'
  BY <1>1 DEF Reports, Typed, Commanded, Placed, Places
<1> QED BY <1>1, <1>2

LEMMA AdvanceTyped ==
  ASSUME Typed, NEW p \in Processes, todo[p] # <<>>, Advance(p)
  PROVE  Commanded' /\ Placed'
<1>1. CASE Reports(p, "ok")
  BY <1>1, ReportsTyped
<1>2. CASE /\ pc' = [pc EXCEPT ![p] = "run"]
           /\ todo' = [todo EXCEPT ![p] = Tail(@)]
           /\ UNCHANGED cmd
  <2>1. Tail(todo[p]) \in Seq(Items) /\ Tail(todo[p]) \in Seq(ItemsOf(cmd[p].kind))
    BY HeadTailProperties DEF Typed, Commanded
  <2>2. Commanded'
    BY <1>2, <2>1 DEF Typed, Commanded
  <2>3. Placed'
    BY <1>2 DEF Typed, Commanded, Placed, Places
  <2> QED BY <2>2, <2>3
<1> QED BY <1>1, <1>2 DEF Advance

LEMMA ItemTyped ==
  ASSUME Typed, NEW p \in Processes, todo[p] # <<>>
  PROVE  Item(p) \in ItemsOf(cmd[p].kind)
BY HeadTailProperties DEF Typed, Commanded, Item

LEMMA CommandFields ==
  ASSUME Typed, NEW p \in Processes
  PROVE  /\ cmd[p].kind \in Kinds /\ cmd[p].status \in Statuses /\ cmd[p].due \in Dues
         /\ cmd[p].list \in Seq(Items) /\ cmd[p].source \in Sources
BY DEF Typed, Commanded, Commands

LEMMA DefaultedTyped ==
  ASSUME NEW e \in Entry, NEW force, Accepted(e, force)
  PROVE  Defaulted(e) \in License
<1>1. e.status \in Statuses \cup {None} /\ e.due \in Dues \cup {None}
  BY DEF Accepted, Entry
<1>2. Given(e.status, "APPROVED") \in Statuses /\ Given(e.due, DefaultDue) \in Dues
  BY <1>1, AdminAssumption DEF Given, Statuses
<1> QED BY <1>2 DEF Defaulted, License

(* What a step of command p does to the registry and the file. *)
Added(p) ==
  /\ At(p, {"add", "import"})
  /\ Accepted(Item(p), cmd[p].force)
  /\ licenses' = [licenses EXCEPT ![Item(p).key] = Defaulted(Item(p))]
  /\ UNCHANGED <<servers, accounts, file, saved>>
  /\ Advance(p)

Dated(p) ==
  /\ At(p, {"set-due"})
  /\ Known(Item(p))
  /\ licenses' = [licenses EXCEPT ![Item(p)].due = cmd[p].due]
  /\ UNCHANGED <<servers, accounts, file, saved>>
  /\ Advance(p)

Removed(p) ==
  /\ At(p, {"remove"})
  /\ licenses' = [licenses EXCEPT ![Item(p)] = None]
  /\ UNCHANGED <<servers, accounts, file, saved>>
  /\ Advance(p)

Truncated(p) ==
  /\ pc[p] = "run" /\ cmd[p].kind = "export"
  /\ file' = Torn /\ saved' = None
  /\ pc' = [pc EXCEPT ![p] = "write"]
  /\ UNCHANGED <<registry, cmd, todo>>

Written(p) ==
  /\ pc[p] = "write"
  /\ \/ file' = cmd[p].list /\ saved' = cmd[p].source
     \/ file # Torn /\ file' = Torn /\ saved' = None
  /\ Reports(p, "ok")
  /\ UNCHANGED registry

Decided(p) ==
  /\ At(p, {"hosts"})
  /\ KnownHost(Item(p))
  /\ servers' = [servers EXCEPT ![Item(p)].status = cmd[p].status]
  /\ UNCHANGED <<licenses, accounts, file, saved>>
  /\ IF cmd[p].note
     THEN pc' = [pc EXCEPT ![p] = "note"] /\ UNCHANGED <<cmd, todo>>
     ELSE Advance(p)

Noted(p) ==
  /\ pc[p] = "note"
  /\ servers' = IF KnownHost(Item(p)) THEN [servers EXCEPT ![Item(p)].note = p] ELSE servers
  /\ UNCHANGED <<licenses, accounts, file, saved>>
  /\ Advance(p)

RemovedHost(p) ==
  /\ At(p, {"remove-host"})
  /\ servers' = [servers EXCEPT ![Item(p)] = None]
  /\ UNCHANGED <<licenses, accounts, file, saved>>
  /\ Advance(p)

DecidedAccount(p) ==
  /\ At(p, {"account"})
  /\ accounts' = [accounts EXCEPT ![Item(p)] = cmd[p].status]
  /\ UNCHANGED <<licenses, servers, file, saved>>
  /\ Advance(p)

(* It is over without a change. *)
Gone(p) ==
  /\ \/ Reports(p, "failed") \/ Reports(p, "killed")
     \/ pc[p] = "run" /\ todo[p] = <<>> /\ cmd[p].kind = "import" /\ Reports(p, "ok")
  /\ UNCHANGED <<registry, file, saved>>

LEMMA StepCases ==
  ASSUME NEW p \in Processes, Step(p)
  PROVE  /\ UNCHANGED events
         /\ \/ Added(p) \/ Dated(p) \/ Removed(p) \/ Truncated(p) \/ Written(p) \/ Decided(p)
            \/ Noted(p) \/ RemovedHost(p) \/ DecidedAccount(p) \/ Gone(p)
<1>1. CASE Nothing(p) \/ Kill(p)
  BY <1>1 DEF Nothing, Kill, Gone
<1>2. CASE Add(p)
  BY <1>2 DEF Add, Added, Gone, Fails
<1>3. CASE SetDue(p)
  BY <1>3 DEF SetDue, Dated, Gone, Fails
<1>4. CASE RemoveLicense(p)
  BY <1>4 DEF RemoveLicense, Removed, Gone, Fails
<1>5. CASE Export(p)
  BY <1>5 DEF Export, Truncated, Gone, Fails
<1>6. CASE ExportWrite(p)
  BY <1>6 DEF ExportWrite, Written, Gone, Fails
<1>7. CASE SetHost(p)
  BY <1>7 DEF SetHost, Decided, Gone, Fails
<1>8. CASE SetNote(p)
  BY <1>8 DEF SetNote, Noted, Gone, Fails
<1>9. CASE RemoveHost(p)
  BY <1>9 DEF RemoveHost, RemovedHost, Gone, Fails
<1>10. CASE SetAccount(p)
  BY <1>10 DEF SetAccount, DecidedAccount, Gone, Fails
<1> QED
  BY <1>1, <1>2, <1>3, <1>4, <1>5, <1>6, <1>7, <1>8, <1>9, <1>10 DEF Step

LEMMA StepTyped ==
  ASSUME Typed, NEW p \in Processes, Step(p)
  PROVE  Registered' /\ Filed' /\ Commanded' /\ Placed'
<1> USE DEF Typed
<1>1. CASE Added(p)
  <2>1. Item(p) \in Entry /\ todo[p] # <<>>
    BY <1>1, ItemTyped DEF Added, At, ItemsOf
  <2>2. Defaulted(Item(p)) \in License
    BY <1>1, <2>1, DefaultedTyped DEF Added
  <2>3. Registered'
    BY <1>1, <2>2 DEF Added, Registered
  <2> QED BY <1>1, <2>1, <2>3, AdvanceTyped DEF Added, Filed
<1>2. CASE Dated(p)
  <2>1. Item(p) \in Keys /\ todo[p] # <<>>
    BY <1>2, ItemTyped DEF Dated, At, ItemsOf
  <2>2. licenses[Item(p)] \in License
    BY <1>2, <2>1 DEF Dated, Known, Registered
  <2>3. [licenses[Item(p)] EXCEPT !.due = cmd[p].due] \in License
    BY <2>2, CommandFields DEF License
  <2>4. Registered'
    BY <1>2, <2>3 DEF Dated, Registered
  <2> QED BY <1>2, <2>1, <2>4, AdvanceTyped DEF Dated, Filed
<1>3. CASE Removed(p) \/ RemovedHost(p)
  <2>1. todo[p] # <<>> /\ Advance(p) /\ UNCHANGED <<file, saved>>
    BY <1>3 DEF Removed, RemovedHost, At
  <2>2. Registered'
    BY <1>3 DEF Removed, RemovedHost, Registered
  <2> QED BY <2>1, <2>2, AdvanceTyped DEF Filed
<1>4. CASE Truncated(p)
  BY <1>4 DEF Truncated, registry, Registered, Filed, Sources, Commanded, Placed, Places
<1>5. CASE Written(p)
  <2>1. cmd[p].list \in Seq(Entry)
    BY <1>5 DEF Written, Placed, Commanded, ItemsOf
  <2>2. Filed'
    BY <1>5, <2>1, CommandFields DEF Written, Filed, Sources
  <2> QED BY <1>5, <2>2, ReportsTyped DEF Written, registry, Registered
<1>6. CASE Decided(p)
  <2>1. Item(p) \in Hosts /\ todo[p] # <<>>
    BY <1>6, ItemTyped DEF Decided, At, ItemsOf
  <2>2. servers[Item(p)] \in Host
    BY <1>6, <2>1 DEF Decided, KnownHost, Registered
  <2>3. [servers[Item(p)] EXCEPT !.status = cmd[p].status] \in Host
    BY <2>2, CommandFields DEF Host
  <2>4. Registered' /\ Filed'
    BY <1>6, <2>3 DEF Decided, Registered, Filed
  <2>5. Commanded' /\ Placed'
    <3>1. CASE Advance(p)
      BY <2>1, <3>1, AdvanceTyped
    <3>2. CASE pc' = [pc EXCEPT ![p] = "note"] /\ UNCHANGED <<cmd, todo>>
      BY <1>6, <2>1, <3>2 DEF Decided, At, Commanded, Placed, Places
    <3> QED BY <1>6, <3>1, <3>2 DEF Decided
  <2> QED BY <2>4, <2>5
<1>7. CASE Noted(p)
  <2>1. todo[p] # <<>> /\ cmd[p].kind = "hosts"
    BY <1>7 DEF Noted, Placed
  <2>2. Item(p) \in Hosts
    BY <2>1, ItemTyped DEF ItemsOf
  <2>3. KnownHost(Item(p)) => [servers[Item(p)] EXCEPT !.note = p] \in Host
    BY <2>2 DEF KnownHost, Registered, Host
  <2>4. Registered' /\ Filed'
    BY <1>7, <2>3 DEF Noted, Registered, Filed
  <2> QED BY <1>7, <2>1, <2>4, AdvanceTyped DEF Noted
<1>8. CASE DecidedAccount(p)
  <2>1. todo[p] # <<>>
    BY <1>8 DEF DecidedAccount, At
  <2>2. Registered' /\ Filed'
    BY <1>8, CommandFields DEF DecidedAccount, Registered, Filed
  <2> QED BY <1>8, <2>1, <2>2, AdvanceTyped DEF DecidedAccount
<1>9. CASE Gone(p)
  BY <1>9, ReportsTyped DEF Gone, registry, Registered, Filed
<1> QED
  BY <1>1, <1>2, <1>3, <1>4, <1>5, <1>6, <1>7, <1>8, <1>9, StepCases

LEMMA OutsideTyped ==
  ASSUME Typed, Outside
  PROVE  Registered' /\ Filed' /\ Commanded' /\ Placed' /\ events' \in 0 .. MaxEvents
<1> USE DEF Typed
<1>1. Registered' /\ Filed'
  <2>1. CASE ServerIssues
    <3>1. \A a \in Accounts : [status |-> "APPROVED", account |-> a, due |-> DefaultDue] \in License
      BY AdminAssumption DEF License, Statuses
    <3> QED BY <2>1, <3>1 DEF ServerIssues, Registered, Filed
  <2>2. CASE ServerRevokes
    <3>1. \A k \in Keys : Known(k) => [licenses[k] EXCEPT !.status = "REVOKED"] \in License
      BY DEF Registered, Known, License, Statuses
    <3> QED BY <2>2, <3>1 DEF ServerRevokes, Registered, Filed
  <2>3. CASE ServerMeetsHost
    <3>1. PICK h \in Hosts, status \in {"PENDING", "APPROVED"} :
            servers' = [servers EXCEPT ![h] = IF @ = None
                                              THEN [status |-> status, note |-> None]
                                              ELSE [@ EXCEPT !.status = status]]
      BY <2>3 DEF ServerMeetsHost
    <3>2. status \in Statuses
      BY DEF Statuses
    <3>3. [status |-> status, note |-> None] \in Host
      BY <3>2 DEF Host
    <3>4. servers[h] # None => [servers[h] EXCEPT !.status = status] \in Host
      BY <3>2 DEF Registered, Host
    <3>5. servers' \in [Hosts -> Host \cup {None}]
      BY <3>1, <3>3, <3>4 DEF Registered
    <3> QED BY <2>3, <3>5 DEF ServerMeetsHost, Registered, Filed
  <2>4. CASE ServerMeetsAccount
    BY <2>4 DEF ServerMeetsAccount, Registered, Filed, Statuses
  <2>5. CASE EditFile
    <3>1. PICK n \in 0 .. MaxFile : file' \in [1 .. n -> Entries]
      BY <2>5 DEF EditFile
    <3>2. n \in Nat /\ file' \in [1 .. n -> Entry]
      BY <3>1, AdminAssumption
    <3>3. file' \in Seq(Entry)
      BY <3>2, SeqDef
    <3> QED BY <2>5, <3>3 DEF EditFile, registry, Registered, Filed, Sources
  <2> QED BY <2>1, <2>2, <2>3, <2>4, <2>5 DEF Outside
<1>2. Commanded' /\ Placed'
  BY DEF Outside, Commanded, Placed
<1>3. events' \in 0 .. MaxEvents
  BY AdminAssumption DEF Outside, Counted
<1> QED BY <1>1, <1>2, <1>3

LEMMA ObserveTyped ==
  ASSUME Typed, NEW self, Observe(self)
  PROVE  touched' \in [Processes -> SUBSET (Keys \cup Hosts \cup Accounts \cup {"file"})]
<1>1. Changed \subseteq Keys \cup Hosts \cup Accounts \cup {"file"}
  BY DEF Changed
<1> QED BY <1>1 DEF Observe, Typed, Counted

LEMMA CallTyped ==
  ASSUME Typed, NEW p \in Processes, Call(p)
  PROVE  Registered' /\ Filed' /\ Commanded' /\ Placed' /\ UNCHANGED events
<1>1. PICK command \in Commands : \E items \in Seq(ItemsOf(command.kind)) : Called(p, command, items)
  BY CallCalls DEF Calls
<1>2. PICK items \in Seq(ItemsOf(command.kind)) : Begins(p, command, items)
  BY <1>1 DEF Called
<1>3. Commanded' /\ Placed'
  BY <1>2, BeginsTyped
<1> QED BY <1>2, <1>3 DEF Begins, registry, Typed, Registered, Filed

LEMMA NextTyped == Typed /\ [Next]_vars => Typed'
<1> SUFFICES ASSUME Typed, [Next]_vars PROVE Typed'
  OBVIOUS
<1>1. ASSUME NEW p \in Processes, Call(p) \/ Step(p), Observe(p) PROVE Typed'
  <2>1. UNCHANGED events /\ Registered' /\ Filed' /\ Commanded' /\ Placed'
    BY <1>1, CallTyped, StepTyped, StepCases
  <2> QED BY <2>1, <1>1, ObserveTyped DEF Typed, Counted
<1>2. CASE Outside /\ Observe(None)
  BY <1>2, OutsideTyped, ObserveTyped DEF Typed, Counted
<1>3. CASE UNCHANGED vars
  BY <1>3 DEF vars, registry, Typed, Registered, Filed, Commanded, Placed, Counted
<1> QED BY <1>1, <1>2, <1>3 DEF Next

(* TypeOK: whatever users type, files hold and the server does, registry, file
   and lists keep their types; no text that does not parse gets into a license. *)
THEOREM AdminTypes == Spec => []TypeOK
BY InitTyped, NextTyped, TypedIsTypeOK, PTL DEF Spec

-----------------------------------------------------------------------------
(* Lab keys *)

LEMMA OnlyLabStep ==
  ASSUME Typed, OnlyLabKeys, [Next]_vars
  PROVE  OnlyLabKeys'
<1> USE DEF OnlyLabKeys, Known
<1>1. CASE UNCHANGED licenses
  BY <1>1
<1>2. ASSUME NEW p \in Processes, Call(p) PROVE UNCHANGED licenses
  BY <1>2, CallCalls DEF Calls, Called, Begins, registry
<1>3. ASSUME NEW p \in Processes, Added(p) PROVE OnlyLabKeys'
  BY <1>3 DEF Added, Accepted, Typed, Registered
<1>4. ASSUME NEW p \in Processes, Dated(p) PROVE OnlyLabKeys'
  BY <1>4 DEF Dated, Typed, Registered
<1>5. ASSUME NEW p \in Processes, Removed(p) PROVE OnlyLabKeys'
  BY <1>5 DEF Removed, Typed, Registered
<1>6. ASSUME NEW p \in Processes,
             Truncated(p) \/ Written(p) \/ Decided(p) \/ Noted(p) \/ RemovedHost(p)
               \/ DecidedAccount(p) \/ Gone(p)
      PROVE  UNCHANGED licenses
  BY <1>6 DEF Truncated, Written, Decided, Noted, RemovedHost, DecidedAccount, Gone, registry
<1>7. ASSUME NEW p \in Processes, Step(p) PROVE OnlyLabKeys'
  BY <1>1, <1>3, <1>4, <1>5, <1>6, <1>7, StepCases
<1>8. CASE Outside
  <2>1. CASE ServerIssues
    BY <2>1 DEF ServerIssues, Typed, Registered
  <2>2. CASE ServerRevokes
    BY <2>2 DEF ServerRevokes, Typed, Registered
  <2>3. CASE ServerMeetsHost \/ ServerMeetsAccount \/ EditFile
    BY <1>1, <2>3 DEF ServerMeetsHost, ServerMeetsAccount, EditFile, registry
  <2> QED BY <1>8, <2>1, <2>2, <2>3 DEF Outside
<1>9. CASE UNCHANGED vars
  BY <1>1, <1>9 DEF vars
<1> QED BY <1>1, <1>2, <1>7, <1>8, <1>9 DEF Next

(* OnlyLabKeys: no key without the lab signature gets into the registry by any
   command, handler or file. *)
THEOREM NoForeignKey == Spec => []OnlyLabKeys
<1>1. Init => OnlyLabKeys
  BY DEF Init, OnlyLabKeys, Known
<1> QED BY <1>1, InitTyped, NextTyped, OnlyLabStep, PTL DEF Spec

-----------------------------------------------------------------------------
(* Records *)

(* The step of a command that has done an item is seen as such. *)
LEMMA AdvanceDoes ==
  ASSUME Typed, NEW p \in Processes, pc[p] = "run", todo[p] # <<>>, Advance(p)
  PROVE  Does(p)
<1>1. todo[p] \in Seq(Items) /\ todo \in [Processes -> Seq(Items)] /\ pc \in [Processes -> Places]
  BY DEF Typed, Commanded, Placed
<1>2. Tail(todo[p]) # todo[p]
  BY <1>1, HeadTailProperties, LenProperties
<1> QED BY <1>1, <1>2 DEF Advance, Reports, Does

Revived(k) ==
  /\ Known(k) /\ licenses'[k] # None
  /\ \/ ~ActiveStatus(licenses[k].status) /\ ActiveStatus(licenses'[k].status)
     \/ licenses'[k].account # licenses[k].account

LEMMA RecordStep ==
  ASSUME Typed, [Next]_vars, NEW k \in Keys, Revived(k)
  PROVE  \E p \in Processes : Names(p, k)
<1> USE DEF Known, Revived
<1>1. licenses'[k] # licenses[k]
  OBVIOUS
<1>2. licenses[k] \in License
  BY DEF Typed, Registered
<1>3. ASSUME NEW p \in Processes, Call(p) PROVE FALSE
  BY <1>1, <1>3, CallCalls DEF Calls, Called, Begins, registry
<1>4. ASSUME NEW p \in Processes, Added(p) PROVE Names(p, k)
  <2>1. Item(p).key = k
    BY <1>1, <1>4 DEF Added, Typed, Registered
  <2> QED BY <1>4, <2>1, AdvanceDoes DEF Added, At, Names
<1>5. ASSUME NEW p \in Processes, Dated(p) PROVE FALSE
  <2>1. licenses'[k] = [licenses[k] EXCEPT !.due = cmd[p].due]
    BY <1>1, <1>5 DEF Dated, Typed, Registered
  <2>2. licenses'[k].status = licenses[k].status /\ licenses'[k].account = licenses[k].account
    BY <1>2, <2>1 DEF License
  <2> QED BY <2>2
<1>6. ASSUME NEW p \in Processes, Removed(p) PROVE FALSE
  BY <1>1, <1>6 DEF Removed, Typed, Registered
<1>7. ASSUME NEW p \in Processes,
             Truncated(p) \/ Written(p) \/ Decided(p) \/ Noted(p) \/ RemovedHost(p)
               \/ DecidedAccount(p) \/ Gone(p)
      PROVE  FALSE
  BY <1>1, <1>7 DEF Truncated, Written, Decided, Noted, RemovedHost, DecidedAccount, Gone, registry
<1>8. CASE Outside
  <2>1. CASE ServerIssues
    BY <1>1, <2>1 DEF ServerIssues, Typed, Registered
  <2>2. CASE ServerRevokes
    <3>1. licenses'[k] = [licenses[k] EXCEPT !.status = "REVOKED"]
      BY <1>1, <2>2 DEF ServerRevokes, Typed, Registered
    <3>2. licenses'[k].status = "REVOKED" /\ licenses'[k].account = licenses[k].account
      BY <1>2, <3>1 DEF License
    <3> QED BY <3>2 DEF ActiveStatus
  <2>3. CASE ServerMeetsHost \/ ServerMeetsAccount \/ EditFile
    BY <1>1, <2>3 DEF ServerMeetsHost, ServerMeetsAccount, EditFile, registry
  <2> QED BY <1>8, <2>1, <2>2, <2>3 DEF Outside
<1>9. CASE UNCHANGED vars
  BY <1>1, <1>9 DEF vars
<1>10. ASSUME NEW p \in Processes, Step(p) PROVE Names(p, k)
  BY <1>4, <1>5, <1>6, <1>7, <1>10, StepCases
<1> QED BY <1>3, <1>8, <1>9, <1>10 DEF Next

(* RecordStands: a license becomes active again, or loses its owner, only by an
   add or an import that names its key. *)
THEOREM OnlyNamedRevives == Spec => RecordStands
<1>1. Typed /\ [Next]_vars => [\A k \in Keys : Revived(k) => \E p \in Processes : Names(p, k)]_vars
  BY RecordStep
<1>2. [\A k \in Keys : Revived(k) => \E p \in Processes : Names(p, k)]_vars
        => [\A k \in Keys :
              (Known(k) /\ licenses'[k] # None
                 /\ \/ ~ActiveStatus(licenses[k].status) /\ ActiveStatus(licenses'[k].status)
                    \/ licenses'[k].account # licenses[k].account)
                => \E p \in Processes : Names(p, k)]_vars
  BY DEF Revived
<1> QED BY <1>1, <1>2, InitTyped, NextTyped, PTL DEF Spec, RecordStands

-----------------------------------------------------------------------------
(* What the other commands do not see *)

LEMMA BystanderOfCall ==
  ASSUME Typed, NEW p \in Processes, Call(p)
  PROVE  /\ pc[p] = "idle"
         /\ UNCHANGED <<licenses, servers, accounts, file, saved>>
         /\ \A q \in Processes \ {p} : pc'[q] = pc[q] /\ cmd'[q] = cmd[q] /\ todo'[q] = todo[q]
<1>1. PICK command \in Commands : \E items \in Seq(ItemsOf(command.kind)) : Called(p, command, items)
  BY CallCalls DEF Calls
<1>2. PICK items \in Seq(ItemsOf(command.kind)) : Begins(p, command, items)
  BY <1>1 DEF Called
<1> QED BY <1>2 DEF Begins, registry, Typed, Commanded, Placed

LEMMA BystanderOfStep ==
  ASSUME Typed, NEW p \in Processes, Step(p)
  PROVE  /\ pc[p] \in {"run", "write", "note"}
         /\ \A q \in Processes \ {p} : pc'[q] = pc[q] /\ cmd'[q] = cmd[q] /\ todo'[q] = todo[q]
<1> USE DEF Typed, Commanded, Placed, Advance, Reports, At, Fails
<1>1. CASE Nothing(p) \/ Kill(p)
  BY <1>1 DEF Nothing, Kill
<1>2. CASE Add(p) \/ SetDue(p) \/ RemoveLicense(p)
  BY <1>2 DEF Add, SetDue, RemoveLicense
<1>3. CASE Export(p) \/ ExportWrite(p)
  BY <1>3 DEF Export, ExportWrite
<1>4. CASE SetHost(p) \/ SetNote(p)
  BY <1>4 DEF SetHost, SetNote
<1>5. CASE RemoveHost(p) \/ SetAccount(p)
  BY <1>5 DEF RemoveHost, SetAccount
<1> QED BY <1>1, <1>2, <1>3, <1>4, <1>5 DEF Step

-----------------------------------------------------------------------------
(* Restore *)

(* The entries are licenses of the registry that was exported. *)
Matches(list, source) ==
  source # None =>
    \A i \in DOMAIN list :
      /\ source[list[i].key] # None
      /\ source[list[i].key].status = list[i].status
      /\ source[list[i].key].due = list[i].due

Faithful ==
  /\ IF file \in {None, Torn} THEN saved = None ELSE Matches(file, saved)
  /\ \A p \in Processes : cmd[p].kind \in {"import", "export"} =>
       Matches(cmd[p].list, cmd[p].source) /\ Matches(todo[p], cmd[p].source)

LEMMA TailMatches ==
  ASSUME NEW list \in Seq(Items), list # <<>>, NEW source, Matches(list, source)
  PROVE  Matches(Tail(list), source)
<1>1. /\ Tail(list) \in Seq(Items) /\ Len(Tail(list)) = Len(list) - 1
      /\ \A i \in 1 .. Len(Tail(list)) : Tail(list)[i] = list[i + 1]
  BY HeadTailProperties
<1>2. DOMAIN list = 1 .. Len(list) /\ DOMAIN Tail(list) = 1 .. Len(Tail(list)) /\ Len(list) \in Nat
  BY <1>1, LenProperties
<1>3. \A i \in DOMAIN Tail(list) : i + 1 \in DOMAIN list /\ Tail(list)[i] = list[i + 1]
  BY <1>1, <1>2
<1> QED BY <1>3 DEF Matches

LEMMA FaithfulCall ==
  ASSUME Typed, Faithful, NEW p \in Processes, Call(p)
  PROVE  Faithful'
<1>1. PICK command \in Commands : \E items \in Seq(ItemsOf(command.kind)) : Called(p, command, items)
  BY CallCalls DEF Calls
<1>2. PICK items \in Seq(ItemsOf(command.kind)) : Called(p, command, items)
  BY <1>1
<1> DEFINE source == CASE command.kind = "export" -> licenses
                       [] command.kind = "import" -> saved
                       [] OTHER -> None
           c == [command EXCEPT !.list = items, !.source = source]
<1>3. cmd' = [cmd EXCEPT ![p] = c] /\ todo' = [todo EXCEPT ![p] = items]
  BY <1>2 DEF Called, Begins
<1>4. command.kind \in {"import", "export"} => Matches(items, source)
  <2>1. CASE command.kind = "import"
    BY <1>2, <2>1 DEF Called, Faithful
  <2>2. CASE command.kind = "export"
    <3>1. \A i \in DOMAIN items : \E k \in Keys : Known(k) /\ items[i] = Exported(k)
      BY <1>2, <2>2 DEF Called
    <3> QED BY <2>2, <3>1 DEF Matches, Exported, Known
  <2> QED BY <2>1, <2>2
<1> HIDE DEF source
<1>5. c.kind = command.kind /\ c.list = items /\ c.source = source
  BY DEF Commands
<1> HIDE DEF c
<1>6. \A q \in Processes : cmd'[q].kind \in {"import", "export"} =>
        Matches(cmd'[q].list, cmd'[q].source) /\ Matches(todo'[q], cmd'[q].source)
  BY <1>3, <1>4, <1>5 DEF Typed, Commanded, Faithful
<1>7. UNCHANGED <<file, saved>>
  BY BystanderOfCall
<1> QED BY <1>6, <1>7 DEF Faithful, Matches

LEMMA FaithfulStep ==
  ASSUME Typed, Faithful, NEW p \in Processes, Step(p)
  PROVE  Faithful'
<1>1. ASSUME NEW q \in Processes, cmd'[q].kind \in {"import", "export"}
      PROVE  Matches(cmd'[q].list, cmd'[q].source) /\ Matches(todo'[q], cmd'[q].source)
  <2>1. CASE q # p
    BY <1>1, <2>1, BystanderOfStep DEF Faithful
  <2>2. CASE cmd'[q] = NoCommand
    BY <1>1, <2>2, Nothings
  <2>3. CASE q = p /\ UNCHANGED <<cmd, todo>>
    BY <1>1, <2>3 DEF Faithful
  <2>4. CASE q = p /\ todo[p] # <<>> /\ todo' = [todo EXCEPT ![p] = Tail(@)] /\ UNCHANGED cmd
    BY <1>1, <2>4, TailMatches DEF Faithful, Typed, Commanded
  <2>5. Reports(p, "ok") \/ Reports(p, "failed") \/ Reports(p, "killed") => cmd'[p] = NoCommand
    BY DEF Reports, Typed, Commanded
  <2>6. Advance(p) => \/ cmd'[p] = NoCommand
                      \/ todo' = [todo EXCEPT ![p] = Tail(@)] /\ UNCHANGED cmd
    BY <2>5 DEF Advance
  <2>7. CASE Added(p) \/ Dated(p) \/ Removed(p) \/ RemovedHost(p) \/ DecidedAccount(p)
    BY <2>1, <2>2, <2>4, <2>6, <2>7 DEF Added, Dated, Removed, RemovedHost, DecidedAccount, At
  <2>8. CASE Truncated(p) \/ Written(p) \/ Gone(p)
    BY <2>1, <2>2, <2>3, <2>5, <2>8 DEF Truncated, Written, Gone
  <2>9. CASE Decided(p) \/ Noted(p)
    BY <2>1, <2>2, <2>3, <2>4, <2>6, <2>9 DEF Decided, Noted, At, Typed, Placed
  <2> QED BY <2>7, <2>8, <2>9, StepCases
<1>2. IF file' \in {None, Torn} THEN saved' = None ELSE Matches(file', saved')
  <2>1. CASE UNCHANGED <<file, saved>>
    BY <2>1 DEF Faithful
  <2>2. CASE Truncated(p)
    BY <2>2 DEF Truncated
  <2>3. CASE Written(p)
    <3>1. cmd[p].kind = "export"
      BY <2>3 DEF Written, Typed, Placed
    <3>2. cmd[p].list \in Seq(Entry)
      BY <3>1 DEF Typed, Commanded, ItemsOf
    <3>3. cmd[p].list \notin {None, Torn}
      BY <3>2, AdminAssumption
    <3> QED BY <2>3, <3>1, <3>3 DEF Written, Faithful
  <2> QED
    BY <2>1, <2>2, <2>3, StepCases
    DEF Added, Dated, Removed, Decided, Noted, RemovedHost, DecidedAccount, Gone
<1> QED BY <1>1, <1>2 DEF Faithful, Matches

LEMMA NextFaithful == Typed /\ Faithful /\ [Next]_vars => Faithful'
<1> SUFFICES ASSUME Typed, Faithful, [Next]_vars PROVE Faithful'
  OBVIOUS
<1>1. CASE Outside
  <2>1. UNCHANGED <<cmd, todo>> /\ (UNCHANGED <<file, saved>> \/ saved' = None)
    BY <1>1 DEF Outside, ServerIssues, ServerRevokes, ServerMeetsHost, ServerMeetsAccount, EditFile
  <2> QED BY <2>1 DEF Faithful, Matches
<1>2. CASE UNCHANGED vars
  BY <1>2 DEF vars, Faithful, Matches
<1> QED BY <1>1, <1>2, FaithfulCall, FaithfulStep DEF Next

LEMMA RestoreStep ==
  ASSUME Typed, Faithful, [Next]_vars, NEW p \in Processes,
         Does(p), cmd[p].kind = "import", cmd[p].source # None
  PROVE  /\ cmd[p].source[Item(p).key] # None
         /\ licenses'[Item(p).key].status = cmd[p].source[Item(p).key].status
         /\ licenses'[Item(p).key].due = cmd[p].source[Item(p).key].due
<1>1. Step(p)
  <2>1. ~ UNCHANGED todo[p]
    BY DEF Does
  <2>2. ~Outside /\ ~ UNCHANGED vars
    BY <2>1 DEF Outside, vars
  <2>3. PICK q \in Processes : Call(q) \/ Step(q)
    BY <2>2 DEF Next
  <2>4. q = p
    BY <2>1, <2>3, BystanderOfCall, BystanderOfStep
  <2> QED BY <2>3, <2>4, BystanderOfCall DEF Does
<1>2. Added(p)
  <2>1. ~Gone(p)
    BY DEF Gone, Reports, Does, Typed, Commanded, Placed
  <2> QED
    BY <1>1, <2>1, StepCases
    DEF Dated, Removed, Truncated, Written, Decided, Noted, RemovedHost, DecidedAccount, At, Does
<1> DEFINE e == Item(p)
           source == cmd[p].source
<1>3. e \in Entry /\ todo[p] # <<>>
  BY <1>2, ItemTyped DEF Added, At, ItemsOf
<1>4. e.key \in Keys
  BY <1>3 DEF Entry
<1>5. source[e.key] # None /\ source[e.key].status = e.status /\ source[e.key].due = e.due
  <2>1. 1 \in DOMAIN todo[p] /\ todo[p][1] = e
    BY <1>3, LenProperties DEF Item, Typed, Commanded
  <2> QED BY <2>1 DEF Faithful, Matches
<1>6. e.status # None /\ e.due # None
  <2>1. source \in [Keys -> License \cup {None}]
    BY CommandFields DEF Sources
  <2>2. source[e.key] \in License
    BY <1>4, <1>5, <2>1
  <2>3. source[e.key].status \in Statuses /\ source[e.key].due \in Dues
    BY <2>2 DEF License
  <2> QED BY <1>5, <2>3, AdminAssumption
<1>7. licenses'[e.key] = Defaulted(e)
  BY <1>2, <1>4 DEF Added, Typed, Registered
<1> QED BY <1>5, <1>6, <1>7 DEF Defaulted, Given

(* RestoreMatchesExport: each license that importing an unedited export brings
   back has the status and the date it had, whatever happened in between. *)
THEOREM RestoreIsFaithful == Spec => RestoreMatchesExport
<1>1. Init => Faithful
  BY Nothings DEF Init, Faithful
<1>2. Typed /\ Faithful /\ [Next]_vars =>
        [\A p \in Processes :
          (Does(p) /\ cmd[p].kind = "import" /\ cmd[p].source # None) =>
            LET k == Item(p).key
            IN /\ cmd[p].source[k] # None
               /\ licenses'[k].status = cmd[p].source[k].status
               /\ licenses'[k].due = cmd[p].source[k].due]_vars
  BY RestoreStep
<1> QED
  BY <1>1, <1>2, InitTyped, NextTyped, NextFaithful, PTL DEF Spec, RestoreMatchesExport

-----------------------------------------------------------------------------
(* Success *)

Running(p) == pc[p] \in {"run", "write", "note"}
Count(p) == Len(cmd[p].list) - Len(todo[p])

(* Item i of command p is in the registry as the command wants it, or was
   changed by somebody else since. *)
InPlace(p, i) ==
  LET c == cmd[p]
      item == c.list[i]
  IN CASE c.kind \in {"add", "import"} ->
            (\A j \in DOMAIN c.list : j > i => c.list[j].key # item.key) =>
               item.key \in touched[p] \/ licenses[item.key] = Defaulted(item)
       [] c.kind = "set-due" -> item \in touched[p] \/ licenses[item].due = c.due
       [] c.kind = "remove" -> item \in touched[p] \/ licenses[item] = None
       [] c.kind = "hosts" ->
            \/ item \in touched[p]
            \/ /\ servers[item] # None
               /\ servers[item].status = c.status
               /\ c.note => servers[item].note = p
       [] c.kind = "remove-host" -> item \in touched[p] \/ servers[item] = None
       [] c.kind = "account" -> item \in touched[p] \/ accounts[item] = c.status
       [] c.kind = "export" -> "file" \in touched[p] \/ file = c.list

(* What is left to do is the end of the list, and what is not left is done. *)
InOrder(p) ==
  /\ Count(p) \in Nat
  /\ \A i \in 1 .. Len(todo[p]) : todo[p][i] = cmd[p].list[Count(p) + i]

Progress(p) ==
  /\ cmd[p] # NoCommand
  /\ InOrder(p)
  /\ cmd[p].kind # "export" => \A i \in 1 .. Count(p) : InPlace(p, i)
  /\ pc[p] = "write" => file = Torn \/ "file" \in touched[p]
  /\ pc[p] = "note" => /\ cmd[p].note
                       /\ \/ Item(p) \in touched[p]
                          \/ servers[Item(p)] # None /\ servers[Item(p)].status = cmd[p].status

Progressing == \A p \in Processes : Running(p) => Progress(p)

LEMMA ListItems ==
  ASSUME Typed, NEW p \in Processes, NEW i \in DOMAIN cmd[p].list
  PROVE  cmd[p].list[i] \in ItemsOf(cmd[p].kind)
<1>1. cmd[p].list \in Seq(ItemsOf(cmd[p].kind))
  BY DEF Typed, Commanded
<1> QED BY <1>1, LenProperties, ElementOfSeq

LEMMA Lengths ==
  ASSUME Typed, NEW p \in Processes
  PROVE  /\ Len(todo[p]) \in Nat /\ DOMAIN todo[p] = 1 .. Len(todo[p])
         /\ Len(cmd[p].list) \in Nat /\ DOMAIN cmd[p].list = 1 .. Len(cmd[p].list)
         /\ todo[p] # <<>> <=> Len(todo[p]) > 0
<1>1. todo[p] \in Seq(Items) /\ cmd[p].list \in Seq(Items)
  BY CommandFields DEF Typed, Commanded
<1> QED BY <1>1, LenProperties, EmptySeq

(* The item that is worked on is the next one of the list. *)
LEMMA HeadOfList ==
  ASSUME Typed, NEW p \in Processes, InOrder(p), todo[p] # <<>>
  PROVE  /\ Item(p) = cmd[p].list[Count(p) + 1]
         /\ Count(p) + 1 \in DOMAIN cmd[p].list
<1>1. Item(p) = todo[p][1]
  BY Lengths DEF Item
<1>2. /\ Len(todo[p]) \in Nat /\ Len(todo[p]) > 0 /\ Len(cmd[p].list) \in Nat
      /\ DOMAIN cmd[p].list = 1 .. Len(cmd[p].list)
  BY Lengths
<1>3. Count(p) \in Nat /\ \A i \in 1 .. Len(todo[p]) : todo[p][i] = cmd[p].list[Count(p) + i]
  BY DEF InOrder
<1>4. todo[p][1] = cmd[p].list[Count(p) + 1]
  BY <1>2, <1>3
<1>5. Count(p) + 1 \in 1 .. Len(cmd[p].list)
  <2> DEFINE c == Count(p)
             l == Len(cmd[p].list)
             t == Len(todo[p])
  <2>1. c = l - t
    BY DEF Count
  <2>2. l \in Nat /\ t \in Nat /\ t > 0 /\ c \in Nat
    BY <1>2, <1>3
  <2> HIDE DEF c, l, t
  <2>3. c + 1 \in 1 .. l
    BY <2>1, <2>2
  <2> QED BY <2>3 DEF c, l
<1> QED BY <1>1, <1>2, <1>4, <1>5

(* A step of somebody else takes nothing away that it does not leave a mark of. *)
LEMMA OthersKeep ==
  ASSUME Typed, NEW p \in Processes, Progress(p),
         pc'[p] = pc[p], cmd'[p] = cmd[p], todo'[p] = todo[p],
         touched'[p] = touched[p] \cup Changed
  PROVE  Progress(p)'
<1>1. /\ \A k \in Keys : k \in touched'[p] \/ licenses'[k] = licenses[k]
      /\ \A h \in Hosts : h \in touched'[p] \/ servers'[h] = servers[h]
      /\ \A a \in Accounts : a \in touched'[p] \/ accounts'[a] = accounts[a]
      /\ "file" \in touched'[p] \/ file' = file
  BY DEF Changed
<1>2. touched[p] \subseteq touched'[p]
  OBVIOUS
<1>3. Count(p)' = Count(p)
  BY DEF Count
<1>4. ASSUME NEW i \in DOMAIN cmd[p].list, InPlace(p, i) PROVE InPlace(p, i)'
  <2> DEFINE item == cmd[p].list[i]
  <2>1. item \in ItemsOf(cmd[p].kind)
    BY ListItems
  <2>2. CASE cmd[p].kind \in {"add", "import"}
    <3>1. item.key \in Keys
      BY <2>1, <2>2 DEF ItemsOf, Entry
    <3> QED BY <1>1, <1>2, <1>4, <2>2, <3>1 DEF InPlace
  <2>3. CASE cmd[p].kind \in {"set-due", "remove"}
    BY <1>1, <1>2, <1>4, <2>1, <2>3 DEF InPlace, ItemsOf
  <2>4. CASE cmd[p].kind \in {"hosts", "remove-host"}
    BY <1>1, <1>2, <1>4, <2>1, <2>4 DEF InPlace, ItemsOf
  <2>5. CASE cmd[p].kind = "account"
    BY <1>1, <1>2, <1>4, <2>1, <2>5 DEF InPlace, ItemsOf
  <2>6. CASE cmd[p].kind = "export"
    BY <1>1, <1>2, <1>4, <2>6 DEF InPlace
  <2> QED BY <2>2, <2>3, <2>4, <2>5, <2>6, CommandFields DEF Kinds
<1>5. \A i \in 1 .. Count(p) : i \in DOMAIN cmd[p].list
  BY Lengths DEF Progress, InOrder, Count
<1>6. cmd[p].kind # "export" => \A i \in 1 .. Count(p) : InPlace(p, i)'
  BY <1>4, <1>5 DEF Progress
<1>7. InOrder(p)'
  BY <1>3 DEF Progress, InOrder
<1>8. pc[p] = "write" => file' = Torn \/ "file" \in touched'[p]
  BY <1>1, <1>2 DEF Progress
<1>9. pc[p] = "note" => \/ Item(p) \in touched'[p]
                        \/ servers'[Item(p)] # None /\ servers'[Item(p)].status = cmd[p].status
  <2> SUFFICES ASSUME pc[p] = "note"
               PROVE  \/ Item(p) \in touched'[p]
                      \/ servers'[Item(p)] # None /\ servers'[Item(p)].status = cmd[p].status
    OBVIOUS
  <2>1. Item(p) \in Hosts
    BY ItemTyped DEF Typed, Placed, ItemsOf
  <2> QED BY <1>1, <1>2, <2>1 DEF Progress
<1>10. Item(p)' = Item(p)
  BY DEF Item
<1> QED BY <1>3, <1>6, <1>7, <1>8, <1>9, <1>10 DEF Progress

(* A step by which p has done the next item of its list leaves that item and all
   before it as they should be. *)
LandsSoFar(p) == \A i \in 1 .. Count(p) + 1 : Landed(p, i)

LEMMA AddedLands ==
  ASSUME Typed, NEW p \in Processes, Progress(p), Added(p)
  PROVE  LandsSoFar(p)
<1>1. /\ todo[p] # <<>> /\ cmd[p].kind \in {"add", "import"}
      /\ Item(p) = cmd[p].list[Count(p) + 1] /\ Count(p) + 1 \in DOMAIN cmd[p].list
  BY HeadOfList DEF Added, At, Progress
<1>2. Item(p) \in Entry
  BY <1>1, ItemTyped DEF ItemsOf
<1>3. /\ licenses'[Item(p).key] = Defaulted(Item(p))
      /\ \A k \in Keys \ {Item(p).key} : licenses'[k] = licenses[k]
  BY <1>2 DEF Added, Typed, Registered, Entry
<1>4. ASSUME NEW i \in 1 .. Count(p) + 1 PROVE Landed(p, i)
  <2>1. CASE i = Count(p) + 1
    BY <1>1, <1>3, <2>1 DEF Landed
  <2>2. CASE i \in 1 .. Count(p)
    <3>1. InPlace(p, i) /\ i < Count(p) + 1
      BY <1>1, <2>2 DEF Progress, InOrder
    <3>2. i \in DOMAIN cmd[p].list
      BY <1>1, <2>2, Lengths DEF Progress, InOrder
    <3>3. cmd[p].list[i].key \in Keys
      BY <1>1, <3>2, ListItems DEF ItemsOf, Entry
    <3>4. CASE cmd[p].list[i].key = Item(p).key
      BY <1>1, <3>1, <3>4 DEF Landed
    <3>5. CASE cmd[p].list[i].key # Item(p).key
      BY <1>1, <1>3, <3>1, <3>3, <3>5 DEF Landed, InPlace
    <3> QED BY <3>4, <3>5
  <2> QED BY <2>1, <2>2 DEF Progress, InOrder
<1> QED BY <1>4 DEF LandsSoFar

LEMMA DatedLands ==
  ASSUME Typed, NEW p \in Processes, Progress(p), Dated(p) \/ Removed(p)
  PROVE  LandsSoFar(p)
<1>1. /\ todo[p] # <<>> /\ cmd[p].kind \in {"set-due", "remove"}
      /\ Item(p) = cmd[p].list[Count(p) + 1] /\ Count(p) + 1 \in DOMAIN cmd[p].list
  BY HeadOfList DEF Dated, Removed, At, Progress
<1>2. Item(p) \in Keys
  BY <1>1, ItemTyped DEF ItemsOf
<1>3. /\ \A k \in Keys \ {Item(p)} : licenses'[k] = licenses[k]
      /\ cmd[p].kind = "set-due" => licenses'[Item(p)].due = cmd[p].due
      /\ cmd[p].kind = "remove" => licenses'[Item(p)] = None
  <2>1. CASE Dated(p)
    <3>1. licenses[Item(p)] \in License
      BY <1>2, <2>1 DEF Dated, Known, Typed, Registered
    <3>2. [licenses[Item(p)] EXCEPT !.due = cmd[p].due].due = cmd[p].due
      BY <3>1 DEF License
    <3> QED BY <1>2, <2>1, <3>2 DEF Dated, At, Typed, Registered
  <2>2. CASE Removed(p)
    BY <1>2, <2>2 DEF Removed, At, Typed, Registered
  <2> QED BY <2>1, <2>2
<1>4. ASSUME NEW i \in 1 .. Count(p) + 1 PROVE Landed(p, i)
  <2>1. i \in DOMAIN cmd[p].list
    BY <1>1, Lengths DEF Progress, InOrder
  <2>2. cmd[p].list[i] \in Keys
    BY <1>1, <2>1, ListItems DEF ItemsOf
  <2>3. CASE cmd[p].list[i] = Item(p)
    BY <1>1, <1>3, <2>3 DEF Landed
  <2>4. CASE cmd[p].list[i] # Item(p)
    <3>1. i # Count(p) + 1 /\ Count(p) \in Nat
      BY <1>1, <2>4 DEF Progress, InOrder
    <3>2. InPlace(p, i)
      BY <1>1, <3>1 DEF Progress
    <3> QED BY <1>1, <1>3, <2>2, <2>4, <3>2 DEF Landed, InPlace
  <2> QED BY <2>3, <2>4
<1> QED BY <1>4 DEF LandsSoFar

LEMMA HostLands ==
  ASSUME Typed, NEW p \in Processes, Progress(p),
         \/ Decided(p) /\ ~cmd[p].note
         \/ Noted(p)
         \/ RemovedHost(p)
  PROVE  LandsSoFar(p)
<1>1. /\ todo[p] # <<>> /\ cmd[p].kind \in {"hosts", "remove-host"}
      /\ Item(p) = cmd[p].list[Count(p) + 1] /\ Count(p) + 1 \in DOMAIN cmd[p].list
  <2>1. todo[p] # <<>> /\ cmd[p].kind \in {"hosts", "remove-host"}
    BY DEF Decided, Noted, RemovedHost, At, Typed, Placed
  <2> QED BY <2>1, HeadOfList DEF Progress
<1>2. Item(p) \in Hosts
  BY <1>1, ItemTyped DEF ItemsOf
<1>3. /\ \A h \in Hosts \ {Item(p)} : servers'[h] = servers[h]
      /\ cmd[p].kind = "remove-host" => servers'[Item(p)] = None
      /\ cmd[p].kind = "hosts" =>
           \/ Item(p) \in touched[p]
           \/ /\ servers'[Item(p)] # None
              /\ servers'[Item(p)].status = cmd[p].status
              /\ cmd[p].note => servers'[Item(p)].note = p
  <2>1. CASE Decided(p) /\ ~cmd[p].note
    <3>1. servers[Item(p)] \in Host
      BY <1>2, <2>1 DEF Decided, KnownHost, Typed, Registered
    <3> DEFINE s == [servers[Item(p)] EXCEPT !.status = cmd[p].status]
    <3>2. s \in Host /\ s.status = cmd[p].status
      BY <3>1, CommandFields DEF Host
    <3>3. servers' = [servers EXCEPT ![Item(p)] = s] /\ cmd[p].kind = "hosts"
      BY <2>1 DEF Decided, At
    <3> HIDE DEF s
    <3> QED BY <1>2, <2>1, <3>2, <3>3, AdminAssumption DEF Typed, Registered
  <2>2. CASE Noted(p)
    <3>1. cmd[p].kind = "hosts" /\ cmd[p].note
      BY <2>2 DEF Noted, Typed, Placed, Progress
    <3>2. CASE servers[Item(p)] = None
      <4>1. UNCHANGED servers /\ Item(p) \in touched[p]
        BY <2>2, <3>2 DEF Noted, KnownHost, Progress
      <4> QED BY <3>1, <4>1
    <3>3. CASE servers[Item(p)] # None
      <4>1. servers[Item(p)] \in Host
        BY <1>2, <3>3 DEF Typed, Registered
      <4> DEFINE s == [servers[Item(p)] EXCEPT !.note = p]
      <4>2. s \in Host /\ s.note = p /\ s.status = servers[Item(p)].status
        BY <4>1 DEF Host
      <4>3. servers' = [servers EXCEPT ![Item(p)] = s]
        BY <2>2, <3>3 DEF Noted, KnownHost
      <4> HIDE DEF s
      <4>4. Item(p) \in touched[p] \/ servers[Item(p)].status = cmd[p].status
        BY <2>2 DEF Noted, Progress
      <4> QED BY <1>2, <3>1, <4>2, <4>3, <4>4, AdminAssumption DEF Typed, Registered
    <3> QED BY <3>2, <3>3
  <2>3. CASE RemovedHost(p)
    BY <1>2, <2>3 DEF RemovedHost, At, Typed, Registered
  <2> QED BY <2>1, <2>2, <2>3
<1>4. ASSUME NEW i \in 1 .. Count(p) + 1 PROVE Landed(p, i)
  <2>1. i \in DOMAIN cmd[p].list
    BY <1>1, Lengths DEF Progress, InOrder
  <2>2. cmd[p].list[i] \in Hosts
    BY <1>1, <2>1, ListItems DEF ItemsOf
  <2>3. CASE cmd[p].list[i] = Item(p)
    BY <1>1, <1>3, <2>3 DEF Landed
  <2>4. CASE cmd[p].list[i] # Item(p)
    <3>1. i # Count(p) + 1 /\ Count(p) \in Nat
      BY <1>1, <2>4 DEF Progress, InOrder
    <3>2. InPlace(p, i)
      BY <1>1, <3>1 DEF Progress
    <3> QED BY <1>1, <1>3, <2>2, <2>4, <3>2 DEF Landed, InPlace
  <2> QED BY <2>3, <2>4
<1> QED BY <1>4 DEF LandsSoFar

LEMMA AccountLands ==
  ASSUME Typed, NEW p \in Processes, Progress(p), DecidedAccount(p)
  PROVE  LandsSoFar(p)
<1>1. /\ todo[p] # <<>> /\ cmd[p].kind = "account"
      /\ Item(p) = cmd[p].list[Count(p) + 1] /\ Count(p) + 1 \in DOMAIN cmd[p].list
  BY HeadOfList DEF DecidedAccount, At, Progress
<1>2. Item(p) \in Accounts
  BY <1>1, ItemTyped DEF ItemsOf
<1>3. /\ \A a \in Accounts \ {Item(p)} : accounts'[a] = accounts[a]
      /\ accounts'[Item(p)] = cmd[p].status
  BY <1>2 DEF DecidedAccount, Typed, Registered
<1>4. ASSUME NEW i \in 1 .. Count(p) + 1 PROVE Landed(p, i)
  <2>1. i \in DOMAIN cmd[p].list
    BY <1>1, Lengths DEF Progress, InOrder
  <2>2. cmd[p].list[i] \in Accounts
    BY <1>1, <2>1, ListItems DEF ItemsOf
  <2>3. CASE cmd[p].list[i] = Item(p)
    BY <1>1, <1>3, <2>3 DEF Landed
  <2>4. CASE cmd[p].list[i] # Item(p)
    <3>1. i # Count(p) + 1 /\ Count(p) \in Nat
      BY <1>1, <2>4 DEF Progress, InOrder
    <3>2. InPlace(p, i)
      BY <1>1, <3>1 DEF Progress
    <3> QED BY <1>1, <1>3, <2>2, <2>4, <3>2 DEF Landed, InPlace
  <2> QED BY <2>3, <2>4
<1> QED BY <1>4 DEF LandsSoFar

(* The steps that do one item of the list. *)
Advancing(p) ==
  \/ Added(p) \/ Dated(p) \/ Removed(p) \/ (Decided(p) /\ ~cmd[p].note)
  \/ Noted(p) \/ RemovedHost(p) \/ DecidedAccount(p)

LEMMA AdvancingLands ==
  ASSUME Typed, NEW p \in Processes, Progress(p), Advancing(p)
  PROVE  LandsSoFar(p) /\ Advance(p) /\ todo[p] # <<>>
<1>1. LandsSoFar(p)
  BY AddedLands, DatedLands, HostLands, AccountLands DEF Advancing
<1>2. Advance(p)
  BY DEF Advancing, Added, Dated, Removed, Decided, Noted, RemovedHost, DecidedAccount
<1>3. todo[p] # <<>>
  <2>1. pc[p] = "note" => todo[p] # <<>>
    BY DEF Typed, Placed
  <2> QED BY <2>1 DEF Advancing, Added, Dated, Removed, Decided, Noted, RemovedHost,
                      DecidedAccount, At
<1> QED BY <1>1, <1>2, <1>3

(* What has landed in this step is in place after it. *)
LEMMA LandedInPlace ==
  ASSUME NEW p \in Processes, NEW i, Landed(p, i), cmd'[p] = cmd[p], touched'[p] = touched[p]
  PROVE  InPlace(p, i)'
BY DEF Landed, InPlace

LEMMA AdvanceProgress ==
  ASSUME Typed, NEW p \in Processes, Progress(p), Advancing(p), Running(p)',
         touched'[p] = touched[p]
  PROVE  Progress(p)'
<1>1. LandsSoFar(p) /\ Advance(p) /\ todo[p] # <<>>
  BY AdvancingLands
<1>2. ~Reports(p, "ok")
  BY DEF Reports, Running, Typed, Placed
<1>3. /\ pc'[p] = "run" /\ todo'[p] = Tail(todo[p]) /\ cmd'[p] = cmd[p]
  BY <1>1, <1>2 DEF Advance, Typed, Commanded, Placed
<1>4. todo[p] \in Seq(Items)
  BY DEF Typed, Commanded
<1>5. /\ Len(todo'[p]) = Len(todo[p]) - 1 /\ Len(todo[p]) \in Nat /\ Len(todo[p]) > 0
      /\ \A i \in 1 .. Len(todo'[p]) : todo'[p][i] = todo[p][i + 1]
  BY <1>1, <1>3, <1>4, HeadTailProperties, LenProperties, EmptySeq
<1>6. Count(p)' = Count(p) + 1 /\ Count(p) \in Nat /\ Len(cmd[p].list) \in Nat
  <2>1. Count(p) \in Nat /\ Len(cmd[p].list) \in Nat
    BY Lengths DEF Progress, InOrder
  <2>2. Count(p) = Len(cmd[p].list) - Len(todo[p])
    BY DEF Count
  <2>3. Count(p)' = Len(cmd[p].list) - Len(todo'[p])
    BY <1>3 DEF Count
  <2> QED BY <1>5, <2>1, <2>2, <2>3
<1>7. InOrder(p)'
  <2>1. \A i \in 1 .. Len(todo'[p]) : todo'[p][i] = cmd'[p].list[Count(p)' + i]
    <3> TAKE i \in 1 .. Len(todo'[p])
    <3>1. i + 1 \in 1 .. Len(todo[p])
      BY <1>5
    <3>2. todo[p][i + 1] = cmd[p].list[Count(p) + (i + 1)]
      BY <3>1 DEF Progress, InOrder
    <3>3. Count(p) + (i + 1) = Count(p)' + i
      BY <1>6
    <3> QED BY <1>3, <1>5, <3>2, <3>3
  <2>2. Count(p)' \in Nat
    BY <1>6
  <2> QED BY <2>1, <2>2 DEF InOrder
<1>8. \A i \in 1 .. Count(p)' : InPlace(p, i)'
  BY <1>1, <1>3, <1>6, LandedInPlace DEF LandsSoFar
<1> QED BY <1>3, <1>7, <1>8 DEF Progress

(* A status is set, and the note is still to come. *)
LEMMA DecidedProgress ==
  ASSUME Typed, NEW p \in Processes, Progress(p), Decided(p), cmd[p].note,
         touched'[p] = touched[p]
  PROVE  Progress(p)'
<1>1. /\ cmd[p].kind = "hosts" /\ todo[p] # <<>> /\ KnownHost(Item(p))
      /\ cmd'[p] = cmd[p] /\ todo'[p] = todo[p] /\ pc'[p] = "note"
  BY DEF Decided, At, Typed, Placed
<1>2. Item(p) \in Hosts /\ Item(p)' = Item(p)
  <2>1. Item(p) \in Hosts
    BY <1>1, ItemTyped DEF ItemsOf
  <2> QED BY <1>1, <2>1 DEF Item
<1> DEFINE s == [servers[Item(p)] EXCEPT !.status = cmd[p].status]
<1>3. servers[Item(p)] \in Host
  BY <1>1, <1>2 DEF KnownHost, Typed, Registered
<1>4. s \in Host /\ s.status = cmd[p].status /\ s.note = servers[Item(p)].note
  BY <1>3, CommandFields DEF Host
<1>5. servers' = [servers EXCEPT ![Item(p)] = s]
  BY DEF Decided
<1> HIDE DEF s
<1>6. /\ servers'[Item(p)] = s /\ s # None
      /\ \A h \in Hosts \ {Item(p)} : servers'[h] = servers[h]
  BY <1>2, <1>4, <1>5, AdminAssumption DEF Typed, Registered
<1>7. Count(p)' = Count(p) /\ Count(p) \in Nat
  BY <1>1 DEF Count, Progress, InOrder
<1>8. InOrder(p)'
  BY <1>1, <1>7 DEF Progress, InOrder
<1>9. ASSUME NEW i \in 1 .. Count(p) PROVE InPlace(p, i)'
  <2>1. InPlace(p, i)
    BY <1>1 DEF Progress
  <2>2. i \in DOMAIN cmd[p].list
    BY <1>1, HeadOfList, Lengths DEF Progress, InOrder
  <2>3. cmd[p].list[i] \in Hosts
    BY <1>1, <2>2, ListItems DEF ItemsOf
  <2>4. CASE cmd[p].list[i] = Item(p)
    <3>1. CASE Item(p) \in touched[p]
      BY <1>1, <2>4, <3>1 DEF InPlace
    <3>2. CASE Item(p) \notin touched[p]
      <4>1. servers[Item(p)].note = p
        BY <1>1, <2>1, <2>4, <3>2 DEF InPlace
      <4>2. /\ servers'[Item(p)] # None /\ servers'[Item(p)].status = cmd[p].status
            /\ servers'[Item(p)].note = p
        BY <1>4, <1>6, <4>1
      <4> QED BY <1>1, <2>4, <4>2 DEF InPlace
    <3> QED BY <3>1, <3>2
  <2>5. CASE cmd[p].list[i] # Item(p)
    BY <1>1, <1>6, <2>1, <2>3, <2>5 DEF InPlace
  <2> QED BY <2>4, <2>5
<1> QED BY <1>1, <1>2, <1>4, <1>6, <1>7, <1>8, <1>9 DEF Progress

LEMMA OwnProgress ==
  ASSUME Typed, NEW p \in Processes, Progress(p), Step(p), Running(p)', Observe(p)
  PROVE  Progress(p)'
<1>1. ~Reports(p, "ok") /\ ~Reports(p, "failed") /\ ~Reports(p, "killed")
  BY DEF Reports, Running, Typed, Placed
<1>2. CASE Advancing(p)
  <2>1. cmd'[p] = cmd[p]
    BY <1>1, <1>2, AdvancingLands DEF Advance
  <2>2. touched'[p] = touched[p]
    BY <2>1 DEF Observe, Progress
  <2> QED BY <1>2, <2>2, AdvanceProgress
<1>3. CASE Decided(p) /\ cmd[p].note
  <2>1. touched'[p] = touched[p]
    BY <1>3 DEF Decided, Observe, Progress
  <2> QED BY <1>3, <2>1, DecidedProgress
<1>4. CASE Truncated(p)
  <2>1. /\ cmd'[p] = cmd[p] /\ todo'[p] = todo[p] /\ pc'[p] = "write"
        /\ cmd[p].kind = "export" /\ file' = Torn
    BY <1>4 DEF Truncated, Typed, Placed
  <2>2. Count(p)' = Count(p)
    BY <2>1 DEF Count
  <2>3. InOrder(p)'
    BY <2>1, <2>2 DEF Progress, InOrder
  <2> QED BY <2>1, <2>3 DEF Progress
<1>5. CASE Written(p) \/ Gone(p)
  BY <1>1, <1>5 DEF Written, Gone
<1> QED BY <1>2, <1>3, <1>4, <1>5, StepCases DEF Advancing

LEMMA CalledProgress ==
  ASSUME Typed, NEW p \in Processes, Call(p)
  PROVE  Progress(p)'
<1>1. PICK command \in Commands : \E items \in Seq(ItemsOf(command.kind)) : Called(p, command, items)
  BY CallCalls DEF Calls
<1>2. PICK items \in Seq(ItemsOf(command.kind)) : Called(p, command, items)
  BY <1>1
<1> DEFINE source == CASE command.kind = "export" -> licenses
                       [] command.kind = "import" -> saved
                       [] OTHER -> None
           c == [command EXCEPT !.list = items, !.source = source]
<1>3. c.kind = command.kind /\ c.list = items
  BY DEF Commands
<1>4. cmd' = [cmd EXCEPT ![p] = c] /\ todo' = [todo EXCEPT ![p] = items]
      /\ pc' = [pc EXCEPT ![p] = "run"]
  BY <1>2 DEF Called, Begins
<1> HIDE DEF c
<1>5. cmd'[p] = c /\ todo'[p] = items /\ pc'[p] = "run"
  BY <1>4 DEF Typed, Commanded, Placed
<1>6. c # NoCommand
  BY <1>2, <1>3 DEF Called, NoCommand
<1>7. Len(items) \in Nat
  BY LenProperties
<1>8. Count(p)' = 0
  BY <1>3, <1>5, <1>7 DEF Count
<1>9. InOrder(p)'
  BY <1>3, <1>5, <1>7, <1>8 DEF InOrder
<1> QED BY <1>5, <1>6, <1>8, <1>9 DEF Progress

LEMMA NextProgressing == Typed /\ Progressing /\ [Next]_vars => Progressing'
<1> SUFFICES ASSUME Typed, Progressing, [Next]_vars, NEW q \in Processes, Running(q)'
             PROVE  Progress(q)'
  BY DEF Progressing
<1>1. ASSUME pc'[q] = pc[q], cmd'[q] = cmd[q], todo'[q] = todo[q],
             NEW self, self # q, Observe(self)
      PROVE  Progress(q)'
  <2>1. Progress(q)
    BY <1>1 DEF Progressing, Running
  <2>2. touched'[q] = touched[q] \cup Changed
    BY <1>1, <2>1 DEF Observe, Progress
  <2> QED BY <1>1, <2>1, <2>2, OthersKeep
<1>2. ASSUME NEW p \in Processes, Call(p), Observe(p) PROVE Progress(q)'
  <2>1. CASE p = q
    BY <1>2, <2>1, CalledProgress
  <2>2. CASE p # q
    BY <1>1, <1>2, <2>2, BystanderOfCall
  <2> QED BY <2>1, <2>2
<1>3. ASSUME NEW p \in Processes, Step(p), Observe(p) PROVE Progress(q)'
  <2>1. CASE p = q
    <3>1. Progress(q)
      BY <1>3, <2>1, BystanderOfStep DEF Progressing, Running
    <3> QED BY <1>3, <2>1, <3>1, OwnProgress
  <2>2. CASE p # q
    BY <1>1, <1>3, <2>2, BystanderOfStep
  <2> QED BY <2>1, <2>2
<1>4. CASE Outside /\ Observe(None)
  <2>1. pc'[q] = pc[q] /\ cmd'[q] = cmd[q] /\ todo'[q] = todo[q]
    BY <1>4 DEF Outside
  <2>2. None # q
    BY AdminAssumption
  <2> QED BY <1>1, <1>4, <2>1, <2>2
<1>5. CASE UNCHANGED vars
  <2>1. Progress(q)
    BY <1>5 DEF vars, Progressing, Running
  <2> QED BY <1>5, <2>1 DEF vars, registry, Progress, InOrder, Count, InPlace, Item
<1> QED BY <1>2, <1>3, <1>4, <1>5 DEF Next

LEMMA SuccessStep ==
  ASSUME Typed, Progressing, Next, NEW p \in Processes, pc[p] # "ok", pc'[p] = "ok",
         NEW i \in DOMAIN cmd[p].list
  PROVE  Landed(p, i)
<1>1. Step(p)
  <2>1. ASSUME NEW q \in Processes, Call(q) PROVE FALSE
    <3>1. PICK command \in Commands : \E items \in Seq(ItemsOf(command.kind)) : Called(q, command, items)
      BY <2>1, CallCalls DEF Calls
    <3>2. pc' = [pc EXCEPT ![q] = "run"]
      BY <3>1 DEF Called, Begins
    <3> QED BY <3>2 DEF Typed, Placed
  <2>2. ASSUME NEW q \in Processes, Step(q), q # p PROVE FALSE
    BY <2>2, BystanderOfStep
  <2>3. ~Outside
    BY DEF Outside
  <2> QED BY <2>1, <2>2, <2>3 DEF Next
<1>2. Progress(p)
  BY <1>1, BystanderOfStep DEF Progressing, Running
<1>3. CASE Advancing(p)
  <2>1. LandsSoFar(p) /\ Advance(p) /\ todo[p] # <<>>
    BY <1>2, <1>3, AdvancingLands
  <2>2. Len(todo[p]) = 1
    BY <2>1 DEF Advance, Typed, Placed
  <2>3. Count(p) + 1 = Len(cmd[p].list)
    BY <2>2, Lengths DEF Count
  <2> QED BY <2>1, <2>3, Lengths DEF LandsSoFar
<1>4. CASE Written(p)
  <2>1. cmd[p].kind = "export"
    BY <1>4 DEF Written, Typed, Placed
  <2>2. file = Torn \/ "file" \in touched[p]
    BY <1>2, <1>4 DEF Written, Progress
  <2>3. file' = cmd[p].list \/ file # Torn
    BY <1>4 DEF Written
  <2> QED BY <2>1, <2>2, <2>3 DEF Landed
<1>5. CASE Gone(p)
  <2>1. todo[p] = <<>> /\ cmd[p].kind = "import"
    BY <1>5 DEF Gone, Reports, Typed, Placed
  <2>2. Count(p) = Len(cmd[p].list)
    BY <2>1, Lengths DEF Count
  <2>3. InPlace(p, i)
    BY <1>2, <2>1, <2>2, Lengths DEF Progress
  <2> QED BY <1>5, <2>1, <2>3 DEF Gone, registry, InPlace, Landed
<1>6. CASE Truncated(p) \/ (Decided(p) /\ cmd[p].note)
  BY <1>6 DEF Truncated, Decided, Typed, Placed
<1> QED BY <1>1, <1>3, <1>4, <1>5, <1>6, StepCases DEF Advancing

(* A command that reports success has done all that it listed, whatever other
   commands and the server did between its mutations: each item is the way the
   command wants it, unless somebody else has changed it since the command
   began.  What is done is always the part of the list before what is left. *)
THEOREM SuccessIsTrue == Spec => SuccessLands
<1>1. Init => Progressing
  BY DEF Init, Progressing, Running
<1>2. Typed /\ Progressing /\ [Next]_vars =>
        [\A p \in Processes :
           (pc[p] # "ok" /\ pc'[p] = "ok") => \A i \in DOMAIN cmd[p].list : Landed(p, i)]_vars
  BY SuccessStep
<1> QED
  BY <1>1, <1>2, InitTyped, NextTyped, NextProgressing, PTL DEF Spec, SuccessLands
=============================================================================
