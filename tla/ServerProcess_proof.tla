------------------------ MODULE ServerProcess_proof ------------------------
(***************************************************************************)
(* The server process keeps its registry, the certificate hosts trust and  *)
(* the requests it was given, for any number of certificates and requests  *)
(* and any delays, wherever file operations fail and the process dies.     *)
(***************************************************************************)
EXTENDS ServerProcess, TLAPS

Saving == {"save_open", "save_write"}
Up == {"serving", "draining", "closing"}

(* Where the process is and what it holds there.  While it may still copy the
   registry there is none of this version, unless it was misled; a file it has
   opened is torn, unless a command replaced it; what it serves of its own making
   is a pair; requests run only in a server that is up. *)
Placed ==
  /\ pc \in Saving => at \in {3, 4} /\ mode = "auto"
  /\ pc \notin Copying \cup Saving \cup {"listen"} => at = 1
  /\ pc = "copy" /\ at = 1 => dir.registry # "current" \/ misled
  /\ pc = "copy_write" => \/ dir[Files[at]] = Torn
                          \/ at = 1 /\ dir.registry = "current"
  /\ pc \in Saving \cup {"listen"} /\ mode = "auto" => pem.crt \in Certs /\ pem.key = pem.crt
  /\ running # {} => pc \in Up

Constant == TypeOK /\ Placed

LEMMA Indices ==
  /\ Len(Files) = 4
  /\ Files[1] = "registry" /\ Files[2] = "backup" /\ Files[3] = "crt" /\ Files[4] = "key"
  /\ \A i \in 1 .. 4 : Files[i] \in FileNames
  /\ \A i \in 2 .. 4 : Files[i] # "registry"
BY DEF Files, FileNames

(* There is always a certificate that is not in use. *)
LEMMA Fresh == Generated \in Certs /\ Generated \notin InUse
<1> DEFINE N(c) == IF c \in Certs THEN c ELSE Default
<1>1. Default \in Certs
  BY ServerAssumption DEF Default
<1>2. \A c : N(c) \in Certs
  BY <1>1
<1>3. Certs \ {N(dir.crt), N(dir.key), N(trusted), N(old.crt)} # {}
  BY <1>2, ServerAssumption
<1>4. PICK c \in Certs : c \notin {N(dir.crt), N(dir.key), N(trusted), N(old.crt)}
  BY <1>3
<1>5. c \notin InUse
  BY <1>4 DEF InUse
<1> QED BY <1>5 DEF Generated

LEMMA Constants ==
  /\ DrainDelay \in Nat /\ Grace \in Nat /\ ProbeEvery \in Nat
  /\ Certs \subseteq Contents
  /\ {"legacy", "current", "own", Torn, None} \subseteq Contents
  /\ Torn # "current" /\ None # "current" /\ None # Torn
  /\ None \notin Certs /\ Torn \notin Certs
  /\ Certs \cap {"legacy", "current", "own"} = {}
  /\ Default \in Certs
  /\ NoPair \in Pairs /\ OwnPairs \subseteq Pairs
<1>1. Default \in Certs
  BY ServerAssumption DEF Default
<1>2. /\ Certs \subseteq Contents
      /\ {"legacy", "current", "own", Torn, None} \subseteq Contents
  BY DEF Contents
<1>3. \A c, k \in Contents : [crt |-> c, key |-> k] \in Pairs
  BY DEF Pairs
<1>4. NoPair \in Pairs
  BY <1>2, <1>3 DEF NoPair
<1>5. OwnPairs \subseteq Pairs
  BY <1>2, <1>3 DEF OwnPairs
<1> QED BY <1>1, <1>2, <1>4, <1>5, ServerAssumption

LEMMA InitConstant == Init => Constant
<1> SUFFICES ASSUME Init PROVE Constant
  OBVIOUS
<1> USE Constants
<1>1. old \in [FileNames -> Contents] /\ old.crt \in {None, Default}
  BY DEF Init, FileNames, Contents
<1>2. dir \in [FileNames -> Contents]
  BY DEF Init, FileNames, Contents
<1>3. own \in Pairs
  BY DEF Init
<1>4. trusted \in Certs \cup {None} /\ valid \subseteq Certs
  BY <1>1 DEF Init
<1>5. ran \in [Requests -> 0 .. Grace]
  BY DEF Init
<1>6. pem \in Pairs /\ pc \in PCs /\ at \in 1 .. 4 /\ timer \in Nat /\ probe \in 0 .. ProbeEvery
  BY DEF Init, PCs
<1>7. /\ mode \in Modes /\ running \subseteq Requests
      /\ inPool \in BOOLEAN /\ asked \in BOOLEAN /\ calm \in BOOLEAN
      /\ excused \in BOOLEAN /\ clean \in BOOLEAN /\ misled \in BOOLEAN /\ deaf \in Nat
  BY DEF Init
<1>8. TypeOK
  BY <1>1, <1>2, <1>3, <1>4, <1>5, <1>6, <1>7 DEF TypeOK
<1>9. Placed
  BY DEF Init, Placed, Saving, Copying, Up
<1> QED BY <1>8, <1>9 DEF Constant

LEMMA WriteKeeps ==
  ASSUME Constant, NEW f \in FileNames, NEW c \in Contents, Write(f, c)
  PROVE  /\ dir' \in [FileNames -> Contents]
         /\ dir'[f] = c
         /\ \A g \in FileNames \ {f} : dir'[g] = dir[g]
BY DEF Constant, TypeOK, Write

LEMMA Onwards ==
  ASSUME Constant, pc \in Copying, Onward
  PROVE  \/ at < 4 /\ at' = at + 1 /\ pc' = "copy"
         \/ at = 4 /\ at' = 1 /\ pc' = "probe"
BY Indices DEF Constant, TypeOK, Onward

LEMMA CopyConstant ==
  ASSUME Constant, Copy PROVE Constant'
<1> USE Constants, Indices DEF Constant, TypeOK, Placed, Saving, Copying, Up, PCs, Starting, Migrating
<1>1. /\ UNCHANGED <<old, own, mode, valid, pem, timer, running, ran, inPool, probe>>
      /\ UNCHANGED <<asked, calm, trusted, clean, deaf>>
      /\ misled' = FALSE /\ pc = "copy"
  BY DEF Copy, traffic, world
<1>2. CASE Write(Files[at], Torn) /\ pc' = "copy_write" /\ UNCHANGED <<at, excused>>
  <2>1. Files[at] \in FileNames /\ Torn \in Contents
    OBVIOUS
  <2>2. dir' \in [FileNames -> Contents] /\ dir'[Files[at]] = Torn
    BY <2>1, <1>2, WriteKeeps
  <2> QED BY <1>1, <1>2, <2>2
<1>3. CASE Onward /\ UNCHANGED dir /\ excused' \in BOOLEAN
  <2>1. \/ at' \in 2 .. 4 /\ pc' = "copy"
        \/ at' = 1 /\ pc' = "probe"
    BY <1>1, <1>3, Onwards
  <2>2. excused' \in BOOLEAN /\ misled' \in BOOLEAN
    BY <1>1, <1>3
  <2>4. TypeOK'
    BY <1>1, <1>3, <2>1, <2>2
  <2>3. Placed'
    BY <1>1, <2>1
  <2> QED BY <2>4, <2>3
<1>4. CASE GiveUp
  <2>1. pc' = "probe" /\ at' = 1 /\ dir' = dir
    BY <1>4 DEF GiveUp
  <2>4. excused' \in BOOLEAN /\ misled' \in BOOLEAN
    BY <1>1, <1>4 DEF GiveUp
  <2>2. TypeOK'
    BY <1>1, <2>1, <2>4
  <2>3. Placed'
    BY <1>1, <2>1
  <2> QED BY <2>2, <2>3
<1> QED BY <1>2, <1>3, <1>4 DEF Copy

LEMMA CopyWriteConstant ==
  ASSUME Constant, CopyWrite PROVE Constant'
<1> USE Constants, Indices DEF Constant, TypeOK, Placed, Saving, Copying, Up, PCs, Starting, Migrating
<1>1. /\ UNCHANGED <<old, own, mode, valid, pem, timer, running, ran, inPool, probe>>
      /\ UNCHANGED <<asked, calm, trusted, clean, misled, deaf>>
      /\ pc = "copy_write"
  BY DEF CopyWrite, traffic, world, past
<1>2. CASE Write(Files[at], Copied(Files[at])) /\ Onward /\ UNCHANGED excused
  <2>1. Files[at] \in FileNames /\ Copied(Files[at]) \in Contents
    BY DEF Copied
  <2>2. dir' \in [FileNames -> Contents]
    BY <2>1, <1>2, WriteKeeps
  <2> QED BY <1>1, <1>2, <2>2, Onwards
<1>3. CASE GiveUp
  BY <1>1, <1>3 DEF GiveUp
<1> QED BY <1>2, <1>3 DEF CopyWrite

LEMMA SetupAutoConstant ==
  ASSUME Constant, SetupAuto PROVE Constant'
<1> USE Constants DEF Constant, TypeOK, Placed, Saving, Copying, Up, PCs, Starting, Migrating
<1>1. CASE Usable(Stored) /\ pem' = Stored /\ pc' = "listen" /\ UNCHANGED <<at, valid, excused>>
  <2>1. pem' \in Pairs
    BY <1>1 DEF Stored, Pairs, FileNames
  <2>2. pem'.crt \in Certs /\ pem'.key = pem'.crt
    BY <1>1 DEF Stored, Usable, Matching
  <2> QED BY <1>1, <2>1, <2>2 DEF SetupAuto, disk, memory, traffic, world, history, past
<1>2. CASE /\ pem' = [crt |-> Generated, key |-> Generated]
           /\ valid' = (valid \cap {dir.crt, trusted, old.crt}) \cup {Generated}
           /\ excused' = (excused \/ Usable(Stored))
           /\ at' = 3
           /\ pc' = "save_open"
  <2>1. Generated \in Certs
    BY Fresh
  <2>2. pem' \in Pairs /\ pem'.crt \in Certs /\ pem'.key = pem'.crt
    BY <1>2, <2>1 DEF Pairs
  <2>3. valid' \subseteq Certs
    BY <1>2, <2>1
  <2>4. excused' \in BOOLEAN
    BY <1>2
  <2> QED BY <1>2, <2>2, <2>3, <2>4 DEF SetupAuto, disk, memory, traffic, world, history, past
<1> QED BY <1>1, <1>2 DEF SetupAuto

LEMMA SaveConstant ==
  ASSUME Constant, SaveOpen \/ SaveWrite PROVE Constant'
<1> USE Constants, Indices DEF Constant, TypeOK, Placed, Saving, Copying, Up, PCs, Starting, Migrating
<1>1. ASSUME NEW c \in {Torn, pem[Files[at]]}, Write(Files[at], c) PROVE dir' \in [FileNames -> Contents]
  <2>1. Files[at] \in {"crt", "key"} /\ pem.crt \in Contents /\ pem.key \in Contents
    BY DEF SaveOpen, SaveWrite, Pairs
  <2>2. c \in Contents /\ Files[at] \in FileNames
    BY <2>1 DEF FileNames
  <2> QED BY <2>2, <1>1, WriteKeeps
<1>2. dir' \in [FileNames -> Contents]
  BY <1>1 DEF SaveOpen, SaveWrite, Unsaved
<1>3. CASE SaveOpen
  BY <1>2, <1>3 DEF SaveOpen, Unsaved, disk, memory, traffic, world, history, past
<1>4. CASE SaveWrite
  <2>1. \/ at' = 4 /\ pc' = "save_open"
        \/ at' = 1 /\ pc' = "listen"
        \/ at' = at /\ pc' = "listen"
    BY <1>4 DEF SaveWrite, Unsaved
  <2>2. excused' \in BOOLEAN
    BY <1>4 DEF SaveWrite, Unsaved
  <2>3. /\ pc = "save_write" /\ mode = "auto" /\ at \in {3, 4} /\ running = {}
        /\ UNCHANGED <<old, own, mode, valid, pem, timer, traffic, world, trusted, clean, misled, deaf>>
    BY <1>4 DEF SaveWrite, past
  <2>4. TypeOK'
    <3>1. /\ UNCHANGED <<old, own, mode, valid, pem, timer, running, ran, inPool, probe>>
          /\ UNCHANGED <<asked, calm, trusted, clean, misled, deaf>>
      BY <2>3 DEF traffic, world
    <3>2. pc' \in PCs /\ at' \in 1 .. 4
      BY <2>1, <2>3
    <3> QED BY <1>2, <2>2, <3>1, <3>2
  <2>5. Placed'
    BY <2>1, <2>3 DEF traffic, world
  <2> QED BY <2>4, <2>5
<1> QED BY <1>3, <1>4

LEMMA ListenConstant ==
  ASSUME Constant, Listen PROVE Constant'
<1> USE Constants DEF Constant, TypeOK, Placed, Saving, Copying, Up, PCs, Starting, Migrating
<1>1. CASE pc' = "serving" /\ UNCHANGED pem
  <2>1. trusted' \in Certs \cup {None}
    BY <1>1 DEF Listen, Ends, history
  <2>2. excused' \in BOOLEAN /\ clean' \in BOOLEAN /\ at' = 1
    BY <1>1 DEF Listen, Ends
  <2> QED BY <1>1, <2>1, <2>2 DEF Listen, disk, memory, traffic, world, history, past
<1>2. CASE Ends /\ UNCHANGED history
  BY <1>2 DEF Listen, Ends, disk, memory, traffic, world, history, past
<1> QED BY <1>1, <1>2 DEF Listen

LEMMA StopConstant ==
  ASSUME Constant, Stop PROVE Constant'
<1> USE Constants DEF Constant, TypeOK, Placed, Saving, Copying, Up, PCs, Starting, Migrating
<1>1. CASE pc \in Starting
  <2>1. /\ Ends /\ timer' = timer /\ asked' = FALSE
        /\ UNCHANGED <<disk, mode, traffic, calm, trusted, clean, misled, deaf>>
    BY <1>1 DEF Stop, Copying, past
  <2>2. excused' \in BOOLEAN
    BY <1>1 DEF Stop, Ends
  <2>3. running = {}
    BY <1>1
  <2>4. TypeOK'
    <3>1. UNCHANGED <<dir, old, own, valid, mode, running, ran, inPool, probe, calm, trusted, clean, misled, deaf>>
      BY <2>1 DEF disk, traffic
    <3>2. pc' \in PCs /\ at' \in 1 .. 4 /\ pem' \in Pairs /\ timer' \in Nat
      BY <2>1 DEF Ends
    <3>3. asked' \in BOOLEAN
      BY <2>1
    <3> QED BY <2>2, <3>1, <3>2, <3>3
  <2>5. Placed'
    BY <2>1, <2>3 DEF Ends, disk, traffic
  <2> QED BY <2>4, <2>5
<1>2. CASE pc = "serving"
  BY <1>2 DEF Stop, disk, memory, traffic, world, history, past
<1>3. CASE pc \in {"down", "draining", "closing"}
  BY <1>3 DEF Stop, disk, memory, traffic, world, history, past
<1> QED BY <1>1, <1>2, <1>3 DEF Stop

LEMMA RequestConstant ==
  ASSUME Constant, NEW r \in Requests, Arrive(r) \/ Answer(r) PROVE Constant'
<1> USE Constants DEF Constant, TypeOK, Placed, Saving, Copying, Up, PCs, Starting, Migrating
<1>1. CASE Arrive(r)
  BY <1>1 DEF Arrive, Listening, disk, memory, traffic, world, history, past
<1>2. CASE Answer(r)
  BY <1>2 DEF Answer, Mutated, FileNames, disk, memory, traffic, world, history, past
<1> QED BY <1>1, <1>2

LEMMA CliConstant ==
  ASSUME Constant, Cli PROVE Constant'
<1> USE Constants, Indices DEF Constant, TypeOK, Placed, Saving, Copying, Up, PCs, Starting, Migrating
<1>1. /\ UNCHANGED <<old, own, mode, valid, pc, at, pem, timer>>
      /\ UNCHANGED <<running, ran, inPool, probe, asked, calm, trusted, clean, deaf>>
  BY DEF Cli, memory, traffic, world
<1>2. /\ dir' \in [FileNames -> Contents]
      /\ dir'.registry = "current"
      /\ \A f \in FileNames \ {"registry"} : dir'[f] = dir[f]
  BY DEF Cli, Mutated, FileNames
<1>3. misled' \in BOOLEAN /\ excused' \in BOOLEAN /\ (misled => misled')
  BY DEF Cli
<1>4. pc = "copy" /\ at = 1 => misled'
  BY DEF Cli, Overtaken
<1>5. TypeOK'
  BY <1>1, <1>2, <1>3
<1>6. pc = "copy_write" /\ at # 1 => dir'[Files[at]] = Torn
  <2>1. pc = "copy_write" /\ at # 1 => Files[at] \in FileNames \ {"registry"}
    OBVIOUS
  <2> QED BY <1>2, <2>1
<1>7. Placed'
  BY <1>1, <1>2, <1>4, <1>6
<1> QED BY <1>5, <1>7

LEMMA NextConstant == Constant /\ [Next]_vars => Constant'
<1> SUFFICES ASSUME Constant, [Next]_vars PROVE Constant'
  OBVIOUS
<1> USE Constants DEF Constant, TypeOK, Placed, Saving, Copying, Up, PCs, Starting, Migrating
<1>1. CASE Start
  BY <1>1 DEF Start, disk, memory, traffic, world, history, past
<1>2. CASE Migrate
  BY <1>2 DEF Migrate, GiveUp, Pending, Contents, disk, memory, traffic, world, history, past
<1>3. CASE Probe
  BY <1>3 DEF Probe, Ends, disk, memory, traffic, world, history, past
<1>4. CASE SetupOther
  BY <1>4 DEF SetupOther, Ends, disk, memory, traffic, world, history, past
<1>5. CASE Shutdown
  BY <1>5 DEF Shutdown, disk, memory, traffic, world, history, past
<1>6. CASE Exit
  BY <1>6 DEF Exit, Ends, disk, memory, traffic, world, history, past
<1>7. CASE Deadline
  BY <1>7 DEF Deadline, Ends, CutOff, disk, memory, traffic, world, history, past
<1>8. CASE Balance
  BY <1>8 DEF Balance, Ready, disk, memory, traffic, world, history, past
<1>9. CASE Tick
  BY <1>9 DEF Tick, Timely, Deaf, disk, memory, traffic, world, history, past
<1>10. CASE StartService
  BY <1>10 DEF StartService, disk, memory, traffic, world, history, past
<1>11. CASE Crash
  BY <1>11 DEF Crash, Ends, CutOff, disk, memory, traffic, world, history, past
<1>12. CASE Outdate
  BY <1>12 DEF Outdate, disk, memory, traffic, world, history, past
<1>13. CASE Cli
  BY <1>13, CliConstant
<1>14. CASE CalmDown
  BY <1>14 DEF CalmDown, disk, memory, traffic, world, history, past
<1>15. CASE Copy
  BY <1>15, CopyConstant
<1>16. CASE CopyWrite
  BY <1>16, CopyWriteConstant
<1>17. CASE SetupAuto
  BY <1>17, SetupAutoConstant
<1>18. CASE SaveOpen \/ SaveWrite
  BY <1>18, SaveConstant
<1>19. CASE Listen
  BY <1>19, ListenConstant
<1>20. CASE Stop
  BY <1>20, StopConstant
<1>21. CASE \E r \in Requests : Arrive(r) \/ Answer(r)
  BY <1>21, RequestConstant
<1>22. CASE UNCHANGED vars
  BY <1>22 DEF vars
<1> QED
  BY <1>1, <1>2, <1>3, <1>4, <1>5, <1>6, <1>7, <1>8, <1>9, <1>10, <1>11, <1>12, <1>13, <1>14, <1>15, <1>16, <1>17, <1>18, <1>19, <1>20, <1>21, <1>22 DEF Next, Process, Environment

(* TypeOK: every variable keeps its type, however starts, deaths, failures,
   stops and requests follow each other. *)
THEOREM ServerTypes == Spec => []TypeOK
<1>1. Constant => TypeOK
  BY DEF Constant
<1> QED BY <1>1, InitConstant, NextConstant, PTL DEF Spec

-----------------------------------------------------------------------------
(* The registry *)

LEMMA RegistryStep ==
  ASSUME Constant, [Next]_vars, dir.registry = "current", ~misled
  PROVE  dir'.registry = "current"
<1> USE Constants, Indices
<1>1. ASSUME NEW f \in FileNames \ {"registry"}, NEW c, Write(f, c)
      PROVE  dir'.registry = "current"
  BY <1>1 DEF Write, Constant, TypeOK, FileNames
<1>2. CASE Copy
  <2>1. at \in 1 .. 4 /\ at # 1
    BY <1>2 DEF Constant, TypeOK, Placed, Copy
  <2>2. Files[at] \in FileNames \ {"registry"}
    BY <2>1
  <2>3. dir' = dir \/ \E c : Write(Files[at], c)
    BY <1>2 DEF Copy, GiveUp
  <2> QED BY <1>1, <2>2, <2>3
<1>10. CASE CopyWrite
  <2>1. at \in 1 .. 4
    BY DEF Constant, TypeOK
  <2>2. CASE dir' = dir
    BY <2>2
  <2>3. CASE Write(Files[at], Copied(Files[at])) /\ at = 1
    BY <2>3 DEF Write, Copied, Constant, TypeOK, FileNames
  <2>4. CASE Write(Files[at], Copied(Files[at])) /\ at # 1
    <3>1. Files[at] \in FileNames \ {"registry"}
      BY <2>1, <2>4
    <3> QED BY <1>1, <2>4, <3>1
  <2> QED BY <1>10, <2>2, <2>3, <2>4 DEF CopyWrite, GiveUp
<1>3. CASE SaveOpen \/ SaveWrite
  <2>1. at \in {3, 4}
    BY <1>3 DEF Constant, Placed, Saving, SaveOpen, SaveWrite
  <2>2. Files[at] \in FileNames \ {"registry"}
    BY <2>1
  <2>3. dir' = dir \/ \E c : Write(Files[at], c)
    BY <1>3 DEF SaveOpen, SaveWrite, Unsaved
  <2> QED BY <1>1, <2>2, <2>3
<1>4. CASE Cli \/ \E r \in Requests : Answer(r)
  BY <1>4 DEF Cli, Answer, Mutated, Constant, TypeOK, FileNames
<1>5. CASE Start \/ Migrate \/ Probe \/ SetupAuto \/ SetupOther
  BY <1>5 DEF Start, Migrate, Probe, SetupAuto, SetupOther, GiveUp, disk
<1>6. CASE Listen \/ Shutdown \/ Exit \/ Deadline \/ Balance \/ Tick
  BY <1>6 DEF Listen, Shutdown, Exit, Deadline, Balance, Tick, disk
<1>7. CASE Stop \/ StartService \/ Crash \/ Outdate \/ CalmDown
  BY <1>7 DEF Stop, StartService, Crash, Outdate, CalmDown, disk
<1>8. CASE \E r \in Requests : Arrive(r)
  BY <1>8 DEF Arrive, disk
<1>9. CASE UNCHANGED vars
  BY <1>9 DEF vars
<1> QED
  BY <1>2, <1>3, <1>4, <1>5, <1>6, <1>7, <1>8, <1>9, <1>10 DEF Next, Process, Environment

(* CurrentRegistryKept: no start, however often it is interrupted and repeated,
   writes over a registry of this version that was there, and could be seen, when
   it looked, among commands that write in the middle of the migration. *)
THEOREM RegistrySurvives == Spec => CurrentRegistryKept
<1>1. Constant /\ [Next]_vars => [dir.registry = "current" /\ ~misled => dir'.registry = "current"]_vars
  BY RegistryStep
<1> QED BY <1>1, InitConstant, NextConstant, PTL DEF Spec, CurrentRegistryKept

-----------------------------------------------------------------------------
(* Plain text *)

LEMMA SealedStep ==
  ASSUME Constant, NoAccidentalPlaintext, [Next]_vars
  PROVE  NoAccidentalPlaintext'
<1> USE DEF NoAccidentalPlaintext, Listening, Matching
<1>1. CASE Listen
  BY <1>1 DEF Listen, Plain, Ends, disk
<1>2. CASE UNCHANGED <<mode, pc, pem>>
  BY <1>2
<1>3. CASE mode' = mode /\ pc = "serving" /\ pc' = "draining" /\ pem' = pem
  BY <1>3
<1>4. CASE pc' \notin {"serving", "draining"}
  BY <1>4
<1> USE DEF Ends, memory, disk
<1>5. CASE Start \/ Migrate \/ Copy \/ CopyWrite \/ Probe
  BY <1>2, <1>4, <1>5 DEF Start, Migrate, Copy, CopyWrite, Probe, GiveUp, Onward
<1>6. CASE SetupAuto \/ SetupOther \/ SaveOpen \/ SaveWrite
  BY <1>4, <1>6 DEF SetupAuto, SetupOther, SaveOpen, SaveWrite, Unsaved
<1>7. CASE Shutdown \/ Exit \/ Deadline \/ Crash
  BY <1>4, <1>7 DEF Shutdown, Exit, Deadline, Crash
<1>8. CASE Balance \/ Tick \/ StartService \/ Outdate \/ Cli \/ CalmDown
  BY <1>2, <1>8 DEF Balance, Tick, StartService, Outdate, Cli, CalmDown
<1>9. CASE Stop
  BY <1>2, <1>3, <1>4, <1>9 DEF Stop
<1>10. CASE \E r \in Requests : Arrive(r) \/ Answer(r)
  BY <1>2, <1>10 DEF Arrive, Answer
<1>11. CASE UNCHANGED vars
  BY <1>2, <1>11 DEF vars
<1> QED
  BY <1>1, <1>5, <1>6, <1>7, <1>8, <1>9, <1>10, <1>11 DEF Next, Process, Environment

(* NoAccidentalPlaintext: a server that listens has a matching pair unless its
   mode is http, whatever was in the files and whatever mode was given. *)
THEOREM NeverPlainByAccident == Spec => []NoAccidentalPlaintext
<1>1. Init => NoAccidentalPlaintext
  BY DEF Init, NoAccidentalPlaintext, Listening
<1> QED BY <1>1, InitConstant, NextConstant, SealedStep, PTL DEF Spec

-----------------------------------------------------------------------------
(* Drain *)

(* A server that listens is deaf to nothing.  What is left until the next probe,
   and what has passed since the listener closed, make up at most what a probe
   period has more than the drain. *)
Noticed ==
  /\ Listening => deaf = 0
  /\ inPool /\ clean /\ pc = "draining" =>
       timer <= DrainDelay /\ probe + DrainDelay <= ProbeEvery + timer
  /\ inPool /\ clean /\ ~Listening => deaf + probe + DrainDelay <= ProbeEvery

LEMMA NoticedStep ==
  ASSUME Constant, Noticed, [Next]_vars
  PROVE  Noticed'
<1> USE Constants DEF Constant, TypeOK, Noticed, Listening
<1> USE DEF Ends, memory, traffic, world, history, past
<1>1. CASE Start \/ Migrate \/ Copy \/ CopyWrite \/ Probe
  BY <1>1 DEF Start, Migrate, Copy, CopyWrite, Probe, GiveUp, Onward
<1>2. CASE SetupAuto \/ SetupOther \/ SaveOpen \/ SaveWrite
  BY <1>2 DEF SetupAuto, SetupOther, SaveOpen, SaveWrite, Unsaved
<1>3. CASE Listen
  BY <1>3 DEF Listen
<1>4. CASE Shutdown
  BY <1>4 DEF Shutdown
<1>5. CASE Exit \/ Deadline
  BY <1>5 DEF Exit, Deadline
<1>6. CASE Crash
  BY <1>6 DEF Crash, Starting, Migrating, Copying
<1>7. CASE Balance
  BY <1>7 DEF Balance, Ready
<1>8. CASE Tick
  BY <1>8 DEF Tick, Deaf, Listening
<1>9. CASE Stop
  BY <1>9 DEF Stop, Starting, Migrating, Copying
<1>10. CASE StartService \/ Outdate \/ Cli \/ CalmDown
  BY <1>10 DEF StartService, Outdate, Cli, CalmDown
<1>11. CASE \E r \in Requests : Arrive(r) \/ Answer(r)
  BY <1>11 DEF Arrive, Answer
<1>12. CASE UNCHANGED vars
  BY <1>12 DEF vars
<1> QED
  BY <1>1, <1>2, <1>3, <1>4, <1>5, <1>6, <1>7, <1>8, <1>9, <1>10, <1>11, <1>12
  DEF Next, Process, Environment

(* RefusedBriefly: after a planned stop a balancer sends requests to the closed
   listener for no longer than its probes are apart, less the drain. *)
THEOREM RefusalsAreBrief == Spec => []RefusedBriefly
<1>1. Init => Noticed
  BY DEF Init, Noticed, Listening
<1>2. Constant /\ Noticed => RefusedBriefly
  BY Constants DEF Constant, TypeOK, Noticed, RefusedBriefly
<1> QED BY <1>1, <1>2, InitConstant, NextConstant, NoticedStep, PTL DEF Spec

-----------------------------------------------------------------------------
(* Shutdown *)

(* What a request has run and what is left of the grace period make it up. *)
Granted == pc = "closing" => timer <= Grace /\ \A r \in running : ran[r] + timer >= Grace

LEMMA GrantedStep ==
  ASSUME Constant, Granted, [Next]_vars
  PROVE  Granted'
<1> USE Constants DEF Constant, TypeOK, Granted
<1> USE DEF Ends, memory, traffic, world, history, past
<1>1. CASE Start \/ Migrate \/ Copy \/ CopyWrite \/ Probe
  BY <1>1 DEF Start, Migrate, Copy, CopyWrite, Probe, GiveUp, Onward
<1>2. CASE SetupAuto \/ SetupOther \/ SaveOpen \/ SaveWrite \/ Listen
  BY <1>2 DEF SetupAuto, SetupOther, SaveOpen, SaveWrite, Unsaved, Listen
<1>3. CASE Shutdown
  BY <1>3 DEF Shutdown
<1>4. CASE Exit \/ Deadline \/ Crash
  BY <1>4 DEF Exit, Deadline, Crash
<1>5. CASE Tick
  BY <1>5 DEF Tick
<1>6. CASE Stop
  BY <1>6 DEF Stop, Starting, Migrating, Copying
<1>7. CASE Balance \/ StartService \/ Outdate \/ Cli \/ CalmDown
  BY <1>7 DEF Balance, StartService, Outdate, Cli, CalmDown
<1>8. CASE \E r \in Requests : Arrive(r) \/ Answer(r)
  BY <1>8 DEF Arrive, Answer, Listening
<1>9. CASE UNCHANGED vars
  BY <1>9 DEF vars
<1> QED
  BY <1>1, <1>2, <1>3, <1>4, <1>5, <1>6, <1>7, <1>8, <1>9 DEF Next, Process, Environment

LEMMA CutStep ==
  ASSUME Constant, Granted, [Next]_vars, pc # "down", pc' = "down", clean'
  PROVE  \A r \in running : ran[r] = Grace
<1> USE Constants DEF Constant, TypeOK
<1>1. pc \in Starting => running = {}
  BY DEF Placed, Starting, Migrating, Copying, Up
<1>2. CASE Deadline
  BY <1>2 DEF Deadline, Granted
<1>3. CASE Exit
  BY <1>3 DEF Exit
<1>4. CASE Stop \/ Crash \/ Probe \/ SetupOther \/ Listen
  <2>1. pc \in Starting
    BY <1>4 DEF Stop, Crash, Probe, SetupOther, Listen, Starting, Migrating, Copying, Ends
  <2> QED BY <2>1, <1>1
<1> USE DEF memory, disk
<1>5. CASE Start \/ Migrate \/ Copy \/ CopyWrite \/ SetupAuto \/ SaveOpen \/ SaveWrite \/ Shutdown
  BY <1>5 DEF Start, Migrate, Copy, CopyWrite, SetupAuto, SaveOpen, SaveWrite, Shutdown,
              GiveUp, Onward, Unsaved
<1>6. CASE Balance \/ Tick \/ StartService \/ Outdate \/ Cli \/ CalmDown
  BY <1>6 DEF Balance, Tick, StartService, Outdate, Cli, CalmDown
<1>7. CASE \E r \in Requests : Arrive(r) \/ Answer(r)
  BY <1>7 DEF Arrive, Answer
<1>8. CASE UNCHANGED vars
  BY <1>8 DEF vars
<1> QED
  BY <1>2, <1>3, <1>4, <1>5, <1>6, <1>7, <1>8 DEF Next, Process, Environment

(* CutOnlyAfterGrace: a stop cuts off no request that has not run for as long as
   the whole grace period. *)
THEOREM GraceIsGranted == Spec => CutOnlyAfterGrace
<1>1. Init => Granted
  BY DEF Init, Granted
<1>2. Constant /\ Granted /\ [Next]_vars
        => [pc # "down" /\ pc' = "down" /\ clean' => \A r \in running : ran[r] = Grace]_vars
  BY CutStep
<1> QED
  BY <1>1, <1>2, InitConstant, NextConstant, GrantedStep, PTL DEF Spec, CutOnlyAfterGrace

-----------------------------------------------------------------------------
(* The certificate *)

(* The hosts trust a certificate that is not outdated, and nothing has failed
   that may cost it. *)
Holds == mode = "auto" /\ trusted # None /\ trusted \in valid /\ ~excused

(* Then it is, with its key, where the process will look for it: in the old
   directory until the migration has copied it, in the new one afterwards. *)
Waiting == {"down", "migrate"}
Kept == dir.crt = trusted /\ dir.key = trusted
Moved ==
  /\ old.registry # None /\ old.crt = trusted /\ old.key = trusted
  /\ at > 1 => dir.registry # None
  /\ at > 3 => dir.crt = trusted

Recoverable ==
  /\ Holds => pc \notin Saving
  /\ Holds /\ pc \in Waiting =>
       IF Pending THEN old.crt = trusted /\ old.key = trusted ELSE Kept
  /\ Holds /\ pc \in Copying => Moved
  /\ Holds /\ pc \notin Waiting \cup Copying => ~Pending /\ Kept
  /\ Holds /\ pc = "listen" => pem.crt = trusted

(* What was generated is saved by the time it is served. *)
Saved ==
  /\ pc \in Saving /\ at = 4 => dir.crt = pem.crt
  /\ pc = "listen" /\ at = 1 /\ mode = "auto" => dir.crt = pem.crt /\ dir.key = pem.key

Trusting == Recoverable /\ Saved

LEMMA InitTrusting == Init => Trusting
<1> SUFFICES ASSUME Init PROVE Trusting
  OBVIOUS
<1>1. pc = "down" /\ at = 1 /\ trusted = (IF dir.registry = None THEN old.crt ELSE None)
  BY DEF Init
<1>2. old.crt # None => old.registry # None /\ old.key = old.crt
  <2>1. "legacy" # None
    BY ServerAssumption
  <2>2. CASE old = [f \in FileNames |-> None]
    BY <2>2 DEF FileNames
  <2>3. CASE old = [registry |-> "legacy", backup |-> None, crt |-> Default, key |-> Default]
    BY <2>1, <2>3
  <2> QED BY <2>2, <2>3 DEF Init
<1> QED
  BY <1>1, <1>2 DEF Trusting, Recoverable, Saved, Holds, Waiting, Copying, Saving, Pending

LEMMA MigrateTrusting ==
  ASSUME Constant, Trusting, Start \/ Migrate PROVE Trusting'
<1> USE DEF Trusting, Recoverable, Saved, Holds, Waiting, Copying, Saving, Kept, Moved, Pending
<1>1. CASE Start
  BY <1>1 DEF Start, disk, memory, history, past
<1>2. CASE Migrate
  BY <1>2 DEF Migrate, GiveUp, Pending, Constant, Placed
<1> QED BY <1>1, <1>2

LEMMA CopyTrusting ==
  ASSUME Constant, Trusting, Copy PROVE Trusting'
<1> USE Indices, Constants DEF Trusting, Recoverable, Saved, Holds, Waiting, Copying, Saving, Kept, Moved
<1>1. UNCHANGED <<old, mode, valid, pem, trusted>> /\ pc = "copy" /\ at \in 1 .. 4
  BY DEF Copy, Constant, TypeOK
<1>2. CASE old[Files[at]] = None /\ Onward /\ UNCHANGED <<dir, excused>>
  <2>1. Holds => at \notin {1, 3, 4}
    BY <1>1, <1>2
  <2>2. Holds => at = 2 /\ at' = 3 /\ pc' = "copy"
    BY <1>1, <1>2, <2>1, Onwards
  <2>3. pc' \in {"copy", "probe"}
    BY <1>1, <1>2, Onwards
  <2> QED BY <1>1, <1>2, <2>2, <2>3
<1>3. CASE excused' = TRUE /\ pc' \in {"copy", "probe"}
  BY <1>1, <1>3
<1>4. CASE Write(Files[at], Torn) /\ pc' = "copy_write" /\ UNCHANGED <<at, excused>>
  <2>1. Files[at] \in FileNames /\ Torn \in Contents
    BY <1>1
  <2>2. /\ dir'[Files[at]] = Torn
        /\ \A g \in FileNames \ {Files[at]} : dir'[g] = dir[g]
    BY <2>1, <1>4, WriteKeeps
  <2>3. /\ at > 1 => dir'.registry = dir.registry
        /\ at = 4 => dir'.crt = dir.crt
    BY <1>1, <2>2 DEF FileNames
  <2> QED BY <1>1, <1>4, <2>3
<1> QED BY <1>1, <1>2, <1>3, <1>4, Onwards DEF Copy, GiveUp

LEMMA CopyWriteTrusting ==
  ASSUME Constant, Trusting, CopyWrite PROVE Trusting'
<1> USE Indices, Constants DEF Trusting, Recoverable, Saved, Holds, Waiting, Copying, Saving, Kept, Moved
<1>1. UNCHANGED <<old, mode, valid, pem, trusted>> /\ pc = "copy_write" /\ at \in 1 .. 4
  BY DEF CopyWrite, past, Constant, TypeOK
<1>2. CASE Write(Files[at], Copied(Files[at])) /\ Onward /\ UNCHANGED excused
  <2>1. Files[at] \in FileNames /\ Copied(Files[at]) \in Contents
    BY <1>1 DEF Copied, Constant, TypeOK
  <2>2. /\ dir'[Files[at]] = Copied(Files[at])
        /\ \A g \in FileNames \ {Files[at]} : dir'[g] = dir[g]
    BY <2>1, <1>2, WriteKeeps
  <2>3. Copied(Files[at]) = old[Files[at]] \/ (at = 1 /\ dir'.registry = "current")
    BY <1>1, <2>2 DEF Copied, Constant, Placed
  <2>4. /\ Holds /\ at = 1 => dir'.registry # None
        /\ at > 1 => dir'.registry = dir.registry
        /\ at = 3 => dir'.crt = old.crt
        /\ at = 4 => dir'.crt = dir.crt /\ dir'.key = old.key
    BY <1>1, <2>2, <2>3 DEF FileNames
  <2>5. \/ at < 4 /\ at' = at + 1 /\ pc' = "copy"
        \/ at = 4 /\ at' = 1 /\ pc' = "probe"
    BY <1>1, <1>2, Onwards
  <2>6. Holds' = Holds
    BY <1>1, <1>2
  <2> QED BY <1>1, <2>4, <2>5, <2>6 DEF Pending
<1>3. CASE GiveUp
  BY <1>1, <1>3 DEF GiveUp
<1> QED BY <1>2, <1>3 DEF CopyWrite

(* A certificate is generated only when the trusted one is of no use. *)
LEMMA SetupTrusting ==
  ASSUME Constant, Trusting, SetupAuto \/ SetupOther PROVE Trusting'
<1> USE DEF Trusting, Recoverable, Saved, Holds, Waiting, Copying, Saving, Kept, Moved
<1>1. CASE SetupOther
  BY <1>1 DEF SetupOther, Ends, Pending, disk, history, past
<1>2. CASE SetupAuto /\ Usable(Stored) /\ pem' = Stored /\ pc' = "listen" /\ UNCHANGED <<at, valid, excused>>
  BY <1>2 DEF SetupAuto, Stored, Pending, past
<1>3. CASE /\ SetupAuto
           /\ valid' = (valid \cap {dir.crt, trusted, old.crt}) \cup {Generated}
           /\ excused' = (excused \/ Usable(Stored))
           /\ at' = 3
           /\ pc' = "save_open"
  <2>1. trusted # Generated
    BY Fresh DEF InUse
  <2>2. Holds => Usable(Stored)
    BY <1>3 DEF SetupAuto, past, Usable, Matching, Stored, Constant, TypeOK
  <2>3. ~Holds'
    BY <1>3, <2>1, <2>2 DEF SetupAuto, past
  <2> QED BY <1>3, <2>3
<1> QED BY <1>1, <1>2, <1>3 DEF SetupAuto

LEMMA SaveTrusting ==
  ASSUME Constant, Trusting, SaveOpen \/ SaveWrite PROVE Trusting'
<1> USE Indices, Constants
<1>1. pc \in Saving /\ at \in {3, 4} /\ ~Holds
  BY DEF Trusting, Recoverable, Saving, SaveOpen, SaveWrite, Constant, Placed
<1>2. UNCHANGED <<old, mode, valid, pem, trusted>> /\ (excused => excused')
  BY DEF SaveOpen, SaveWrite, Unsaved, past
<1>3. ~Holds'
  BY <1>1, <1>2 DEF Holds
<1>4. ASSUME NEW c \in {Torn, pem[Files[at]]}, Write(Files[at], c)
      PROVE  dir'[Files[at]] = c /\ \A g \in FileNames \ {Files[at]} : dir'[g] = dir[g]
  <2>1. Files[at] \in {"crt", "key"} /\ pem.crt \in Contents /\ pem.key \in Contents
    BY <1>1 DEF Constant, TypeOK, Pairs
  <2>2. c \in Contents /\ Files[at] \in FileNames
    BY <2>1 DEF FileNames
  <2> QED BY <2>2, <1>4, WriteKeeps
<1>5. Saved'
  <2>1. CASE UNCHANGED <<dir, at>> /\ pc' = "listen"
    BY <1>1, <2>1 DEF Saved, Saving
  <2>2. CASE Write(Files[at], Torn) /\ pc' = "save_write" /\ at' = at
    <3>1. at = 4 => dir'.crt = dir.crt
      BY <1>4, <2>2 DEF FileNames
    <3> QED BY <1>1, <1>2, <2>2, <3>1 DEF Saved, Trusting, Saving
  <2>3. CASE /\ Write(Files[at], pem[Files[at]])
             /\ IF at = 3 THEN at' = 4 /\ pc' = "save_open" ELSE at' = 1 /\ pc' = "listen"
    <3>1. /\ at = 3 => dir'.crt = pem.crt
          /\ at = 4 => dir'.crt = dir.crt /\ dir'.key = pem.key
      BY <1>4, <2>3 DEF FileNames
    <3> QED BY <1>1, <1>2, <2>3, <3>1 DEF Saved, Trusting, Saving
  <2> QED BY <2>1, <2>2, <2>3 DEF SaveOpen, SaveWrite, Unsaved
<1> QED BY <1>3, <1>5 DEF Trusting, Recoverable

LEMMA ListenTrusting ==
  ASSUME Constant, Trusting, Listen
  PROVE  /\ Trusting'
         /\ trusted # None /\ trusted' # trusted => trusted \notin valid \/ excused
<1> USE DEF Trusting, Recoverable, Saved, Holds, Waiting, Copying, Saving, Kept, Moved
<1>1. CASE /\ pc' = "serving"
           /\ trusted' = IF mode = "auto" THEN pem.crt ELSE trusted
           /\ excused' = (mode = "auto" /\ (at # 1 \/ Pending))
  <2>1. UNCHANGED <<dir, old, mode, valid>> /\ pc = "listen"
    BY <1>1 DEF Listen, disk
  <2>2. Pending' = Pending
    BY <2>1 DEF Pending
  <2>3. CASE mode = "auto"
    <3>1. trusted' = pem.crt /\ pem.key = pem.crt
      BY <1>1, <2>1, <2>3 DEF Constant, Placed
    <3>2. ~excused' => at = 1 /\ ~Pending
      BY <1>1, <2>3
    <3>3. Holds' => ~Pending' /\ Kept'
      BY <2>1, <2>2, <2>3, <3>1, <3>2
    <3>4. Trusting'
      BY <1>1, <3>3
    <3>5. Holds => pem.crt = trusted
      BY <2>1
    <3> QED BY <2>3, <3>1, <3>4, <3>5
  <2>4. CASE mode # "auto"
    BY <1>1, <2>1, <2>4
  <2> QED BY <2>3, <2>4
<1>2. CASE Ends /\ UNCHANGED history
  BY <1>2 DEF Listen, Ends, history, past, Pending, disk
<1> QED BY <1>1, <1>2 DEF Listen

LEMMA StopTrusting ==
  ASSUME Constant, Trusting, Stop \/ Crash PROVE Trusting'
<1>1. UNCHANGED <<dir, old, mode, valid, trusted>>
  BY DEF Stop, Crash, disk, past
<1>2. Pending' = Pending
  BY <1>1 DEF Pending
<1>3. excused => excused'
  BY DEF Stop, Crash
<1> USE <1>3 DEF Trusting, Recoverable, Saved, Holds, Waiting, Copying, Saving, Kept, Moved
<1>4. CASE pc' = "down" /\ (pc \in Migrating => excused')
  BY <1>1, <1>2, <1>4 DEF Migrating
<1>5. CASE pc' = pc /\ pc \in {"down", "draining", "closing"}
  BY <1>1, <1>2, <1>5
<1>6. CASE pc = "serving" /\ pc' = "draining"
  BY <1>1, <1>2, <1>6
<1>7. CASE Stop
  BY <1>4, <1>5, <1>6, <1>7 DEF Stop, Ends
<1>8. CASE Crash
  BY <1>4, <1>8 DEF Crash, Ends
<1> QED BY <1>7, <1>8

LEMMA MutatedTrusting ==
  ASSUME Constant, Trusting, Cli \/ \E r \in Requests : Answer(r)
  PROVE  Trusting'
<1>1. UNCHANGED <<old, mode, valid, pc, at, pem, trusted>>
  BY DEF Cli, Answer, memory, world, history, past
<1>2. excused => excused'
  BY DEF Cli, Answer, history
<1> USE DEF Trusting, Recoverable, Saved, Holds, Waiting, Copying, Saving, Kept, Moved
<1>3. dir' = dir \/ dir' = Mutated
  BY DEF Cli, Answer
<1>4. dir'.crt = dir.crt /\ dir'.key = dir.key
  BY <1>3 DEF Mutated, Constant, TypeOK, FileNames
<1>5. Pending' => Pending
  BY <1>1, <1>3, Constants DEF Pending, Mutated, Constant, TypeOK, FileNames
<1>6. Holds' /\ pc \notin Copying => (Pending => Pending')
  <2>1. CASE Cli
    BY <1>5, <2>1 DEF Cli
  <2>2. CASE \E r \in Requests : Answer(r)
    <3>1. pc \in Up
      BY <2>2 DEF Answer, Constant, Placed
    <3>2. Holds' => ~Pending
      BY <1>1, <1>2, <3>1 DEF Up
    <3> QED BY <1>5, <3>2
  <2> QED BY <2>1, <2>2
<1>7. pc \in Copying /\ at > 1 /\ dir.registry # None => dir'.registry # None
  BY <1>3, Constants DEF Mutated, Constant, TypeOK, FileNames
<1> QED BY <1>1, <1>2, <1>4, <1>5, <1>6, <1>7

LEMMA RestTrusting ==
  ASSUME Constant, Trusting,
         UNCHANGED <<dir, old, mode, pc, at, pem, trusted, excused>>,
         UNCHANGED valid \/ valid' = {}
  PROVE  Trusting'
BY DEF Trusting, Recoverable, Saved, Holds, Waiting, Copying, Saving, Kept, Moved, Pending

LEMMA NextTrusting ==
  ASSUME Constant, Trusting, [Next]_vars
  PROVE  Trusting'
<1> USE DEF disk, memory, history, past
<1>1. CASE Start \/ Migrate
  BY <1>1, MigrateTrusting
<1>2. CASE Copy
  BY <1>2, CopyTrusting
<1>3. CASE CopyWrite
  BY <1>3, CopyWriteTrusting
<1>4. CASE SetupAuto \/ SetupOther
  BY <1>4, SetupTrusting
<1>5. CASE SaveOpen \/ SaveWrite
  BY <1>5, SaveTrusting
<1>6. CASE Listen
  BY <1>6, ListenTrusting
<1>7. CASE Stop \/ Crash
  BY <1>7, StopTrusting
<1>8. CASE Cli \/ \E r \in Requests : Answer(r)
  BY <1>8, MutatedTrusting
<1>9. CASE Probe \/ Shutdown \/ Exit \/ Deadline
  BY <1>9 DEF Probe, Shutdown, Exit, Deadline, Ends, Trusting, Recoverable, Saved, Holds,
              Waiting, Copying, Saving, Kept, Pending
<1>10. CASE Balance \/ Tick \/ StartService \/ Outdate \/ CalmDown
  BY <1>10, RestTrusting DEF Balance, Tick, StartService, Outdate, CalmDown
<1>11. CASE \E r \in Requests : Arrive(r)
  BY <1>11, RestTrusting DEF Arrive
<1>12. CASE UNCHANGED vars
  BY <1>12, RestTrusting DEF vars
<1> QED
  BY <1>1, <1>2, <1>3, <1>4, <1>5, <1>6, <1>7, <1>8, <1>9, <1>10, <1>11, <1>12
  DEF Next, Process, Environment

(* Only Listen changes what hosts trust. *)
LEMMA TrustStep ==
  ASSUME Constant, Trusting, [Next]_vars, trusted # None, trusted' # trusted
  PROVE  trusted \notin valid \/ excused
<1> USE DEF disk, memory, traffic, world, history, past
<1>1. CASE Listen
  BY <1>1, ListenTrusting
<1>2. CASE Start \/ Migrate \/ Copy \/ CopyWrite \/ Probe
  BY <1>2 DEF Start, Migrate, Copy, CopyWrite, Probe
<1>3. CASE SetupAuto \/ SetupOther \/ SaveOpen \/ SaveWrite
  BY <1>3 DEF SetupAuto, SetupOther, SaveOpen, SaveWrite
<1>4. CASE Shutdown \/ Exit \/ Deadline \/ Stop \/ Crash
  BY <1>4 DEF Shutdown, Exit, Deadline, Stop, Crash
<1>5. CASE Balance \/ Tick \/ StartService \/ Outdate \/ Cli \/ CalmDown
  BY <1>5 DEF Balance, Tick, StartService, Outdate, Cli, CalmDown
<1>6. CASE \E r \in Requests : Arrive(r) \/ Answer(r)
  BY <1>6 DEF Arrive, Answer
<1>7. CASE UNCHANGED vars
  BY <1>7 DEF vars
<1> QED
  BY <1>1, <1>2, <1>3, <1>4, <1>5, <1>6, <1>7 DEF Next, Process, Environment

(* TrustKept: through starts, stops, deaths at every step and the migration, a
   server does not change its certificate while hosts trust one that is not
   outdated, unless a failure or an incomplete migration has cost it. *)
THEOREM TrustSurvives == Spec => TrustKept
<1>1. Constant /\ Trusting /\ [Next]_vars
        => [trusted # None /\ trusted' # trusted => trusted \notin valid \/ excused]_vars
  BY TrustStep
<1> QED
  BY <1>1, InitConstant, InitTrusting, NextConstant, NextTrusting, PTL DEF Spec, TrustKept
=============================================================================
