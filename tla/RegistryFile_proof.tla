------------------------- MODULE RegistryFile_proof -------------------------
(***************************************************************************)
(* Theorems about RegistryFile, for any number of mutations, readers and   *)
(* inodes and any faults: the file implements the atomic registry.         *)
(***************************************************************************)
EXTENDS RegistryFile, TLAPS

(***************************************************************************)
(* Why it works.  The lock makes its holder the only writer; the file that *)
(* the path names, and every file a reader has open, is whole and is not   *)
(* the temporary file, which is the only one written to; so what the       *)
(* holder loaded is still the registry when it renames.                    *)
(***************************************************************************)
Holding == {"backup", "backup_write", "tmp", "tmp_write", "rename"}

Exclusive == \A m \in Mutations : pc[m] \in Critical => lock = m

Published ==
  /\ main # None => data[main] \in Registries /\ main # tmp
  /\ \A r \in Readers : fd[r] # None => data[fd[r]] \in Registries /\ fd[r] # tmp

UpToDate ==
  \A m \in Mutations :
    /\ pc[m] \in Holding => reg[m] = Append(Current, m)
    /\ pc[m] \in {"tmp_write", "rename"} => tmp # None /\ out[m] = tmp
    /\ pc[m] = "rename" => data[tmp] = reg[m]

FileInv == TypeOK /\ Exclusive /\ Published /\ UpToDate

USE DEF Holding, Critical

-----------------------------------------------------------------------------
LEMMA AppendRegistry ==
  ASSUME NEW s \in Registries, NEW m \in Mutations
  PROVE  Append(s, m) \in Registries
  BY DEF Registries

LEMMA CurrentRegistry == FileInv => Current \in Registries
  BY DEF FileInv, Published, Current, Registries

(* While a mutation holds the lock every other one is outside. *)
LEMMA Alone ==
  ASSUME FileInv, NEW m \in Mutations, pc[m] \in Critical,
         NEW q \in Mutations, q # m
  PROVE  pc[q] \notin Critical
  BY DEF FileInv, Exclusive

-----------------------------------------------------------------------------
LEMMA InitFile == Init => FileInv
<1> SUFFICES ASSUME Init PROVE FileInv
  OBVIOUS
<1>1. << >> \in Registries
  BY DEF Registries
<1>2. TypeOK
  <2>1. skipped \in BOOLEAN
    BY DEF Init
  <2> QED
    BY <1>1, <2>1, SMT DEF Init, TypeOK, Contents, PCs
<1>3. Exclusive /\ UpToDate
  BY SMT DEF Init, Exclusive, UpToDate
<1>4. Published
  BY SMT DEF Init, Published
<1> QED
  BY <1>2, <1>3, <1>4 DEF FileInv

(* A step that leaves the files the readers can see alone and moves one
   mutation keeps the invariant, if it keeps the mutation's own part. *)
LEMMA QuietStep ==
  ASSUME FileInv, NEW m \in Mutations, NEW s \in PCs,
         pc' = [pc EXCEPT ![m] = s],
         UNCHANGED <<main, tmp, data, readers>>,
         bak' \in Contents \cup {None}, lock' \in Mutations \cup {None},
         reg' \in [Mutations -> Registries], prev' \in [Mutations -> Contents],
         out' = out, skipped' \in BOOLEAN,
         \A q \in Mutations : q # m => reg'[q] = reg[q],
         Exclusive',
         s \in Holding => reg'[m] = Append(Current, m),
         s \in {"tmp_write", "rename"} => pc[m] = s
  PROVE  FileInv'
<1>1. TypeOK'
  <2>1. pc' \in [Mutations -> PCs]
    BY SMT DEF FileInv, TypeOK
  <2> QED
    BY <2>1 DEF FileInv, TypeOK, readers
<1>2. Published'
  BY SMT DEF FileInv, Published, readers
<1>3. Current' = Current
  BY DEF Current
<1>4. UpToDate'
  <2> SUFFICES ASSUME NEW q \in Mutations PROVE UpToDate!(q)'
    BY DEF UpToDate
  <2>1. CASE q = m
    <3>1. pc'[q] = s
      BY <2>1, SMT DEF FileInv, TypeOK
    <3>2. s = "rename" => reg'[q] = reg[q]
      BY <1>3, <2>1 DEF FileInv, UpToDate
    <3> QED
      BY <1>3, <2>1, <3>1, <3>2 DEF FileInv, UpToDate
  <2>2. CASE q # m
    <3>1. pc'[q] = pc[q] /\ reg'[q] = reg[q]
      BY <2>2, SMT DEF FileInv, TypeOK
    <3> QED
      BY <1>3, <3>1 DEF FileInv, UpToDate
  <2> QED
    BY <2>1, <2>2
<1> QED
  BY <1>1, <1>2, <1>4 DEF FileInv

LEMMA StillExclusive ==
  ASSUME FileInv, NEW m \in Mutations, NEW s,
         pc' = [pc EXCEPT ![m] = s],
         \/ pc[m] \in Critical /\ lock' = lock
         \/ s \notin Critical /\ lock' = lock
         \/ s \notin Critical /\ lock' = None /\ lock = m
         \/ lock = None /\ lock' = m
  PROVE  Exclusive'
  BY FileAssumption, SMT DEF FileInv, TypeOK, Exclusive

-----------------------------------------------------------------------------
LEMMA LockFile ==
  ASSUME FileInv, NEW m \in Mutations, Lock(m) \/ LockFails(m)
  PROVE  FileInv'
<1>1. CASE lock = None /\ lock' = m /\ pc' = [pc EXCEPT ![m] = "load"]
  <2>1. Exclusive'
    BY <1>1, StillExclusive
  <2> QED
    BY <1>1, <2>1, QuietStep DEF Lock, LockFails, files, locals, PCs, FileInv, TypeOK
<1>2. CASE lock' = lock /\ pc' = [pc EXCEPT ![m] = "failed"]
  <2>1. Exclusive'
    BY <1>2, StillExclusive
  <2> QED
    BY <1>2, <2>1, QuietStep DEF Lock, LockFails, files, locals, PCs, FileInv, TypeOK
<1> QED
  BY <1>1, <1>2 DEF Lock, LockFails, Goto

LEMMA LoadFile ==
  ASSUME FileInv, NEW m \in Mutations, Load(m)
  PROVE  FileInv'
<1>1. PICK s \in {"backup", "abort"} : pc' = [pc EXCEPT ![m] = s]
  BY DEF Load, Goto
<1>2. Exclusive'
  BY <1>1, StillExclusive DEF Load
<1>3. Append(Current, m) \in Registries
  BY CurrentRegistry, AppendRegistry
<1>4. CASE reg' = [reg EXCEPT ![m] = Append(Current, m)]
  <2>1. reg' \in [Mutations -> Registries]
    BY <1>3, <1>4, SMT DEF FileInv, TypeOK
  <2>2. reg'[m] = Append(Current, m) /\ \A q \in Mutations : q # m => reg'[q] = reg[q]
    BY <1>4, SMT DEF FileInv, TypeOK
  <2> QED
    BY <1>1, <1>2, <2>1, <2>2, QuietStep DEF Load, files, PCs, FileInv, TypeOK
<1>5. CASE pc' = [pc EXCEPT ![m] = "abort"] /\ reg' = reg
  <2>1. reg' \in [Mutations -> Registries]
    BY <1>5 DEF FileInv, TypeOK
  <2> QED
    BY <1>2, <1>5, <2>1, QuietStep DEF Load, files, PCs, FileInv, TypeOK
<1> QED
  BY <1>4, <1>5 DEF Load, Goto

LEMMA BackupFile ==
  ASSUME FileInv, NEW m \in Mutations, Backup(m) \/ BackupWrite(m)
  PROVE  FileInv'
<1>1. PICK s \in {"backup_write", "tmp"} : pc' = [pc EXCEPT ![m] = s]
  BY DEF Backup, BackupWrite, Goto
<1>2. pc[m] \in Holding /\ lock' = lock /\ reg' = reg
  BY DEF Backup, BackupWrite, locals
<1>3. Exclusive'
  BY <1>1, <1>2, StillExclusive
<1>4. reg[m] = Append(Current, m)
  BY <1>2 DEF FileInv, UpToDate
<1>5. bak' \in Contents \cup {None} /\ prev' \in [Mutations -> Contents]
  BY SMT DEF Backup, BackupWrite, locals, FileInv, TypeOK, Contents
<1> QED
  BY <1>1, <1>2, <1>3, <1>4, <1>5, QuietStep
     DEF Backup, BackupWrite, locals, PCs, FileInv, TypeOK

LEMMA UnlockFile ==
  ASSUME FileInv, NEW m \in Mutations, Unlock(m) \/ Crash(m)
  PROVE  FileInv'
<1>1. PICK s \in {"done", "failed", "lost", "dead"} : pc' = [pc EXCEPT ![m] = s]
  BY DEF Unlock, Crash, Goto
<1>2. \/ lock' = lock
      \/ lock = m /\ lock' = None
  BY DEF Unlock, Crash, FileInv, Exclusive
<1>3. Exclusive'
  BY <1>1, <1>2, StillExclusive
<1> QED
  BY <1>1, <1>2, <1>3, QuietStep
     DEF Unlock, Crash, files, locals, PCs, FileInv, TypeOK

(* Writing to the temporary file is writing to no published one. *)
LEMMA TmpFile ==
  ASSUME FileInv, NEW m \in Mutations, TmpOpen(m) \/ TmpWrite(m)
  PROVE  FileInv' /\ Current' = Current /\ \A r \in Readers : fd[r] # None => data'[fd[r]] = data[fd[r]]
<1>1. pc[m] \in Holding /\ lock' = lock /\ reg' = reg /\ main' = main /\ fd' = fd /\ got' = got
  BY DEF TmpOpen, TmpWrite, locals, readers
<1>2. reg[m] = Append(Current, m)
  BY <1>1 DEF FileInv, UpToDate
<1>3. CASE pc' = [pc EXCEPT ![m] = "abort"] /\ UNCHANGED <<data, tmp, out>>
  <2>1. Exclusive'
    BY <1>1, <1>3, StillExclusive
  <2>2. FileInv'
    BY <1>1, <1>3, <2>1, QuietStep DEF TmpOpen, TmpWrite, readers, locals, PCs, FileInv, TypeOK
  <2> QED
    BY <1>1, <1>3, <2>2 DEF Current
<1>4. CASE ~(pc' = [pc EXCEPT ![m] = "abort"] /\ UNCHANGED <<data, tmp, out>>)
  <2>1. PICK s \in {"tmp_write", "rename"}, i \in Inodes, d \in Contents :
          /\ pc' = [pc EXCEPT ![m] = s]
          /\ data' = [data EXCEPT ![i] = d]
          /\ tmp' = i
          /\ out' = [out EXCEPT ![m] = i]
          /\ i = tmp \/ (tmp = None /\ Unused(i))
          /\ s = "rename" => d = reg[m]
    <3>1. CASE TmpOpen(m)
      BY <1>4, <3>1 DEF TmpOpen, Goto, Contents
    <3>2. CASE TmpWrite(m)
      <4>1. tmp \in Inodes /\ out[m] = tmp /\ tmp' = tmp /\ out' = out /\ reg[m] \in Contents
        BY <3>2, SMT DEF TmpWrite, FileInv, TypeOK, UpToDate, locals, Contents
      <4>2. out' = [out EXCEPT ![m] = tmp]
        BY <4>1, SMT DEF FileInv, TypeOK
      <4> QED
        BY <1>4, <3>2, <4>1, <4>2 DEF TmpWrite, Goto, locals
    <3> QED
      BY <3>1, <3>2
  <2>2. /\ main # None => i # main
        /\ \A r \in Readers : fd[r] # None => i # fd[r]
    BY <2>1 DEF FileInv, Published, Unused
  <2>3. Exclusive'
    BY <1>1, <2>1, StillExclusive
  <2>4. TypeOK'
    BY <1>1, <2>1, SMT DEF TmpOpen, TmpWrite, readers, locals, PCs, FileInv, TypeOK
  <2>5. /\ main # None => data'[main] = data[main]
        /\ \A r \in Readers : fd[r] # None => data'[fd[r]] = data[fd[r]]
    BY <2>1, <2>2, SMT DEF FileInv, TypeOK
  <2>6. Current' = Current
    BY <1>1, <2>5 DEF Current
  <2>7. Published'
    BY <1>1, <2>1, <2>2, <2>5 DEF FileInv, Published
  <2>8. UpToDate'
    <3> SUFFICES ASSUME NEW q \in Mutations PROVE UpToDate!(q)'
      BY DEF UpToDate
    <3>1. CASE q = m
      BY <1>1, <1>2, <2>1, <2>6, <3>1, FileAssumption, SMT DEF FileInv, TypeOK
    <3>2. CASE q # m
      <4>1. pc[q] \notin Critical
        BY <1>1, <3>2, Alone
      <4>2. pc'[q] = pc[q]
        BY <2>1, <3>2, SMT DEF FileInv, TypeOK
      <4> QED
        BY <4>1, <4>2
    <3> QED
      BY <3>1, <3>2
  <2> QED
    BY <2>3, <2>4, <2>5, <2>6, <2>7, <2>8 DEF FileInv
<1> QED
  BY <1>3, <1>4

LEMMA RenameFile ==
  ASSUME FileInv, NEW m \in Mutations, Rename(m)
  PROVE  FileInv'
<1>1. pc[m] = "rename" /\ lock' = lock /\ reg' = reg /\ out' = out /\ data' = data /\ fd' = fd
  BY DEF Rename, locals, readers
<1>2. PICK s \in {"unlock", "abort"} : pc' = [pc EXCEPT ![m] = s]
  BY DEF Rename, Goto
<1>3. Exclusive'
  BY <1>1, <1>2, StillExclusive
<1>4. CASE UNCHANGED <<main, tmp>>
  BY <1>1, <1>2, <1>3, <1>4, QuietStep DEF Rename, locals, PCs, FileInv, TypeOK
<1>5. CASE tmp # None /\ main' = tmp /\ tmp' = None
  <2>1. TypeOK'
    BY <1>2, <1>5, SMT DEF Rename, locals, readers, PCs, FileInv, TypeOK
  <2>2. Published'
    <3>1. data[tmp] = reg[m] /\ reg[m] \in Registries
      BY <1>1 DEF FileInv, TypeOK, UpToDate
    <3> QED
      BY <1>1, <1>5, <3>1, FileAssumption, SMT DEF FileInv, TypeOK, Published
  <2>3. \A q \in Mutations : pc'[q] \notin Holding
    <3> SUFFICES ASSUME NEW q \in Mutations PROVE pc'[q] \notin Holding
      OBVIOUS
    <3>1. CASE q = m
      BY <1>2, <3>1, SMT DEF FileInv, TypeOK
    <3>2. CASE q # m
      BY <1>1, <1>2, <3>2, Alone, SMT DEF FileInv, TypeOK
    <3> QED
      BY <3>1, <3>2
  <2> QED
    BY <1>3, <2>1, <2>2, <2>3 DEF FileInv, UpToDate
<1> QED
  BY <1>4, <1>5 DEF Rename

LEMMA ReaderFile ==
  ASSUME FileInv, NEW r \in Readers, Open(r) \/ Read(r)
  PROVE  FileInv'
<1>1. UNCHANGED <<files, lock, pc, locals>>
  BY DEF Open, Read
<1>2. << >> \in Contents
  BY DEF Contents, Registries
<1>3. TypeOK'
  BY <1>1, <1>2, SMT DEF Open, Read, files, locals, FileInv, TypeOK
<1>4. Published'
  BY <1>1, SMT DEF Open, Read, files, FileInv, TypeOK, Published
<1>5. Exclusive' /\ UpToDate'
  BY <1>1 DEF files, locals, FileInv, Exclusive, UpToDate, Current
<1> QED
  BY <1>3, <1>4, <1>5 DEF FileInv

LEMMA NextFile == FileInv /\ [Next]_vars => FileInv'
<1> SUFFICES ASSUME FileInv, [Next]_vars PROVE FileInv'
  OBVIOUS
<1>1. CASE UNCHANGED vars
  BY <1>1 DEF vars, FileInv, TypeOK, Exclusive, Published, UpToDate, Current
<1>2. CASE \E m \in Mutations : Step(m) \/ LockFails(m) \/ Crash(m)
  BY <1>2, LockFile, LoadFile, BackupFile, TmpFile, RenameFile, UnlockFile DEF Step
<1>3. CASE \E r \in Readers : Open(r) \/ Read(r)
  BY <1>3, ReaderFile
<1> QED
  BY <1>1, <1>2, <1>3 DEF Next

LEMMA FileInvariant == Spec => []FileInv
  BY InitFile, NextFile, PTL DEF Spec

(* The files, the lock and what every process holds keep their types. *)
THEOREM FileTypes == Spec => []TypeOK
<1>1. FileInv => TypeOK
  BY DEF FileInv
<1> QED
  BY <1>1, FileInvariant, PTL

-----------------------------------------------------------------------------
(* The refinement.  `Seen' and `Fates' are the mapped variables. *)

Seen == [r \in Readers |-> IF fd[r] = None THEN got[r] ELSE data[fd[r]]]
Fates == [m \in Mutations |-> Fate(m)]

LEMMA Stutter ==
  ASSUME Current' = Current, Fates' = Fates, Seen' = Seen
  PROVE  UNCHANGED Atomic!vars
  BY DEF Atomic!vars, Fates, Seen

LEMMA AbstractActions ==
  /\ \A m \in Mutations :
       /\ Atomic!Apply(m) <=> /\ Fate(m) = "waiting"
                              /\ Fates' = [Fates EXCEPT ![m] = "applied"]
                              /\ Current' = Append(Current, m)
                              /\ Seen' = Seen
       /\ Atomic!GiveUp(m) <=> /\ Fate(m) = "waiting"
                               /\ Fates' = [Fates EXCEPT ![m] = "failed"]
                               /\ Current' = Current /\ Seen' = Seen
  /\ \A r \in Readers :
       Atomic!Look(r) <=> /\ Seen' = [Seen EXCEPT ![r] = Current]
                         /\ Current' = Current /\ Fates' = Fates
  BY DEF Atomic!Apply, Atomic!GiveUp, Atomic!Look, Fates, Seen

(* A step of mutation m changes no other fate. *)
LEMMA FateOfOne ==
  ASSUME TypeOK, NEW m \in Mutations, NEW s, pc' = [pc EXCEPT ![m] = s]
  PROVE  /\ s \in {"unlock", "done", "lost"} => Fates' = [Fates EXCEPT ![m] = "applied"]
         /\ s \in {"abort", "failed", "dead"} => Fates' = [Fates EXCEPT ![m] = "failed"]
         /\ Fate(m)' = Fate(m) => Fates' = Fates
         /\ s \in {"lock"} \cup Holding \cup {"load"} => Fate(m)' = "waiting"
<1>1. pc'[m] = s /\ \A q \in Mutations : q # m => pc'[q] = pc[q]
  BY SMT DEF TypeOK
<1>2. \A q \in Mutations : q # m => Fate(q)' = Fate(q)
  BY <1>1 DEF Fate
<1>3. /\ s \in {"unlock", "done", "lost"} => Fate(m)' = "applied"
      /\ s \in {"abort", "failed", "dead"} => Fate(m)' = "failed"
      /\ s \in {"lock"} \cup Holding \cup {"load"} => Fate(m)' = "waiting"
  BY <1>1, SMT DEF Fate
<1>4. ASSUME NEW f, s \in {"unlock", "done", "lost", "abort", "failed", "dead"} => Fate(m)' = f
      PROVE  s \in {"unlock", "done", "lost", "abort", "failed", "dead"} =>
               Fates' = [Fates EXCEPT ![m] = f]
  BY <1>2, <1>4 DEF Fates
<1>5. Fate(m)' = Fate(m) => Fates' = Fates
  BY <1>2 DEF Fates
<1> QED
  BY <1>3, <1>4, <1>5

(* Writing to unpublished files and moving locks shows the readers nothing. *)
LEMMA SeenUnchanged ==
  ASSUME fd' = fd, got' = got,
         \A r \in Readers : fd[r] # None => data'[fd[r]] = data[fd[r]]
  PROVE  Seen' = Seen
  BY DEF Seen

(* A step that leaves the registry and the readers alone is a stutter, or its
   mutation gives up. *)
LEMMA QuietRefines ==
  ASSUME TypeOK, NEW m \in Mutations, NEW s, pc' = [pc EXCEPT ![m] = s],
         Current' = Current, Seen' = Seen,
         \/ Fate(m) = "waiting" /\ s \in {"load", "abort", "failed", "dead"} \cup Holding
         \/ Fate(m) = "applied" /\ s \in {"done", "lost"}
         \/ Fate(m) = "failed" /\ s \in {"failed", "dead"}
  PROVE  [Atomic!Next]_(Atomic!vars)
<1>1. CASE Fate(m) = "waiting" /\ s \in {"abort", "failed", "dead"}
  BY <1>1, FateOfOne, AbstractActions DEF Atomic!Next
<1>2. CASE Fate(m) = "waiting" /\ s \in {"load"} \cup Holding
  BY <1>2, FateOfOne, Stutter
<1>3. CASE Fate(m) \in {"applied", "failed"}
  <2>1. pc'[m] = s
    BY SMT DEF TypeOK
  <2>2. Fate(m)' = Fate(m)
    BY <1>3, <2>1, SMT DEF Fate
  <2> QED
    BY <2>2, FateOfOne, Stutter
<1> QED
  BY <1>1, <1>2, <1>3

LEMMA InitRefines == Init => Atomic!Init
<1> SUFFICES ASSUME Init PROVE Atomic!Init
  OBVIOUS
<1>1. Current = << >>
  BY DEF Init, Current
<1>2. Fates = [m \in Mutations |-> "waiting"]
  BY SMT DEF Init, Fates, Fate
<1>3. Seen = [r \in Readers |-> << >>]
  BY SMT DEF Init, Seen
<1> QED
  BY <1>1, <1>2, <1>3 DEF Atomic!Init, Fates, Seen

LEMMA RenameRefines ==
  ASSUME FileInv, NEW m \in Mutations, Rename(m)
  PROVE  [Atomic!Next]_(Atomic!vars)
<1>1. pc[m] = "rename" /\ data' = data /\ fd' = fd /\ got' = got /\ TypeOK
  BY DEF Rename, readers, FileInv
<1>2. Fate(m) = "waiting"
  BY <1>1 DEF Fate
<1>3. Seen' = Seen
  BY <1>1, SeenUnchanged
<1>4. CASE tmp # None /\ main' = tmp /\ pc' = [pc EXCEPT ![m] = "unlock"]
  <2>1. data[tmp] = Append(Current, m)
    BY <1>1 DEF FileInv, UpToDate
  <2>2. Current' = Append(Current, m)
    BY <1>1, <1>4, <2>1 DEF Current
  <2> QED
    BY <1>1, <1>2, <1>3, <1>4, <2>2, FateOfOne, AbstractActions DEF Atomic!Next
<1>5. CASE main' = main /\ pc' = [pc EXCEPT ![m] = "abort"]
  <2>1. Current' = Current
    BY <1>1, <1>5 DEF Current
  <2> QED
    BY <1>1, <1>2, <1>3, <1>5, <2>1, QuietRefines
<1> QED
  BY <1>4, <1>5 DEF Rename, Goto

LEMMA MutationRefines ==
  ASSUME FileInv, NEW m \in Mutations, Step(m) \/ LockFails(m) \/ Crash(m)
  PROVE  [Atomic!Next]_(Atomic!vars)
<1>0. TypeOK
  BY DEF FileInv
<1>1. CASE Lock(m) \/ LockFails(m) \/ Load(m) \/ Backup(m) \/ BackupWrite(m)
  <2>1. Current' = Current /\ Seen' = Seen /\ Fate(m) = "waiting"
    BY <1>1 DEF Lock, LockFails, Load, Backup, BackupWrite, files, locals, readers, Current, Seen, Fate
  <2>2. PICK s \in {"load", "abort", "failed"} \cup Holding : pc' = [pc EXCEPT ![m] = s]
    BY <1>1 DEF Lock, LockFails, Load, Backup, BackupWrite, Goto
  <2> QED
    BY <1>0, <2>1, <2>2, QuietRefines
<1>2. CASE TmpOpen(m) \/ TmpWrite(m)
  <2>1. Current' = Current /\ Seen' = Seen
    BY <1>2, TmpFile, SeenUnchanged DEF TmpOpen, TmpWrite, readers
  <2>2. Fate(m) = "waiting"
    BY <1>2 DEF TmpOpen, TmpWrite, Fate
  <2>3. PICK s \in {"abort"} \cup Holding : pc' = [pc EXCEPT ![m] = s]
    BY <1>2 DEF TmpOpen, TmpWrite, Goto
  <2> QED
    BY <1>0, <2>1, <2>2, <2>3, QuietRefines
<1>3. CASE Rename(m)
  BY <1>3, RenameRefines
<1>4. CASE Unlock(m) \/ Crash(m)
  <2>1. Current' = Current /\ Seen' = Seen
    BY <1>4 DEF Unlock, Crash, files, locals, readers, Current, Seen
  <2>2. PICK s : /\ pc' = [pc EXCEPT ![m] = s]
                 /\ \/ Fate(m) = "waiting" /\ s = "dead"
                    \/ Fate(m) = "applied" /\ s \in {"done", "lost"}
                    \/ Fate(m) = "failed" /\ s \in {"failed", "dead"}
    BY <1>4 DEF Unlock, Crash, Goto, Fate
  <2> QED
    BY <1>0, <2>1, <2>2, QuietRefines
<1> QED
  BY <1>1, <1>2, <1>3, <1>4 DEF Step

(* A reader has seen the registry when it opens the file. *)
LEMMA ReaderRefines ==
  ASSUME FileInv, NEW r \in Readers, Open(r) \/ Read(r)
  PROVE  [Atomic!Next]_(Atomic!vars)
<1>1. Current' = Current /\ Fates' = Fates
  BY DEF Open, Read, files, Current, Fates, Fate
<1>2. CASE Open(r)
  <2>1. Seen' = [Seen EXCEPT ![r] = Current]
    <3> DEFINE show(q) == IF fd[q] = None THEN got[q] ELSE data[fd[q]]
    <3>1. fd[r] = None /\ data' = data
      BY <1>2 DEF Open, files
    <3>2. ASSUME main # None, fd' = [fd EXCEPT ![r] = main], got' = got
          PROVE  show(r)' = Current /\ \A q \in Readers : q # r => show(q)' = show(q)
      <4>1. fd'[r] = main /\ \A q \in Readers : q # r => fd'[q] = fd[q]
        BY <3>2, SMT DEF FileInv, TypeOK
      <4> QED
        BY <3>1, <3>2, <4>1 DEF Current
    <3>3. ASSUME main = None, got' = [got EXCEPT ![r] = << >>], fd' = fd
          PROVE  show(r)' = Current /\ \A q \in Readers : q # r => show(q)' = show(q)
      <4>1. got'[r] = << >> /\ \A q \in Readers : q # r => got'[q] = got[q]
        BY <3>3, SMT DEF FileInv, TypeOK
      <4> QED
        BY <3>1, <3>3, <4>1 DEF Current
    <3>4. show(r)' = Current /\ \A q \in Readers : q # r => show(q)' = show(q)
      BY <1>2, <3>2, <3>3 DEF Open
    <3>5. Seen = [q \in Readers |-> show(q)] /\ Seen' = [q \in Readers |-> show(q)']
      BY DEF Seen
    <3> HIDE DEF show
    <3> QED
      BY <3>4, <3>5
  <2> QED
    BY <1>1, <2>1, AbstractActions DEF Atomic!Next
<1>3. CASE Read(r)
  <2>1. Seen' = Seen
    BY <1>3, SMT DEF Read, files, FileInv, TypeOK, Seen
  <2> QED
    BY <1>1, <2>1, Stutter
<1> QED
  BY <1>2, <1>3

(* Every mutation is applied once, in one step, or not at all, and every reader
   sees a whole registry that was current during its call. *)
THEOREM FileIsAtomic == Spec => ImplementsAtomic
<1>1. FileInv /\ [Next]_vars => [Atomic!Next]_(Atomic!vars)
  <2> SUFFICES ASSUME FileInv, [Next]_vars PROVE [Atomic!Next]_(Atomic!vars)
    OBVIOUS
  <2>1. CASE UNCHANGED vars
    <3>1. Current' = Current /\ Fates' = Fates /\ Seen' = Seen
      BY <2>1 DEF vars, Current, Fates, Fate, Seen
    <3> QED
      BY <3>1, Stutter
  <2>2. CASE \E m \in Mutations : Step(m) \/ LockFails(m) \/ Crash(m)
    BY <2>2, MutationRefines
  <2>3. CASE \E r \in Readers : Open(r) \/ Read(r)
    BY <2>3, ReaderRefines
  <2> QED
    BY <2>1, <2>2, <2>3 DEF Next
<1> QED
  BY <1>1, InitRefines, FileInvariant, PTL DEF Spec, ImplementsAtomic, Atomic!Spec

-----------------------------------------------------------------------------
(***************************************************************************)
(* The backup, for every combination of faults.                            *)
(***************************************************************************)
BackupInv ==
  /\ main = None => bak = None /\ ~skipped
  /\ BackupAtMostOneBehind
  /\ \A m \in Mutations :
       /\ pc[m] = "backup_write" => prev[m] = Current /\ main # None /\ bak = Torn
       /\ pc[m] \in {"tmp", "tmp_write", "rename"} => skipped \/ bak \in {None, Torn, Current}

(* A step of m that keeps the registry keeps what the others know of it. *)
LEMMA BackupStep ==
  ASSUME FileInv, BackupInv, NEW m \in Mutations, NEW s, pc' = [pc EXCEPT ![m] = s],
         Current' = Current, main' = main,
         \A q \in Mutations : q # m => prev'[q] = prev[q],
         \/ bak' = bak /\ skipped' = skipped
         \/ /\ pc[m] \in Critical /\ main # None
            /\ skipped' \/ bak' \in {Torn, Current},
         s = "backup_write" => prev'[m] = Current /\ main # None /\ bak' = Torn,
         s \in {"tmp", "tmp_write", "rename"} => skipped' \/ bak' \in {None, Torn, Current}
  PROVE  BackupInv'
<1>1. BackupAtMostOneBehind'
  BY SMT DEF BackupInv, BackupAtMostOneBehind
<1>2. main' = None => bak' = None /\ ~skipped'
  BY DEF BackupInv
<1>3. ASSUME NEW q \in Mutations
      PROVE  /\ pc'[q] = "backup_write" => prev'[q] = Current' /\ main' # None /\ bak' = Torn
             /\ pc'[q] \in {"tmp", "tmp_write", "rename"} => skipped' \/ bak' \in {None, Torn, Current'}
  <2>1. CASE q = m
    BY <2>1, SMT DEF FileInv, TypeOK
  <2>2. CASE q # m
    <3>1. pc'[q] = pc[q]
      BY <2>2, SMT DEF FileInv, TypeOK
    <3>2. CASE pc[m] \in Critical
      BY <2>2, <3>1, <3>2, Alone
    <3>3. CASE bak' = bak /\ skipped' = skipped
      BY <2>2, <3>1, <3>3 DEF BackupInv
    <3> QED
      BY <3>2, <3>3
  <2> QED
    BY <2>1, <2>2
<1> QED
  BY <1>1, <1>2, <1>3 DEF BackupInv

LEMMA BackupNext ==
  ASSUME FileInv, BackupInv, [Next]_vars
  PROVE  BackupInv'
<1>2. CASE UNCHANGED vars \/ \E r \in Readers : Open(r) \/ Read(r)
  BY <1>2 DEF vars, Open, Read, files, locals, BackupInv, BackupAtMostOneBehind, Current
<1>3. ASSUME NEW m \in Mutations, Lock(m) \/ LockFails(m) \/ Load(m) \/ Unlock(m) \/ Crash(m)
      PROVE  BackupInv'
  <2>1. main' = main /\ Current' = Current /\ bak' = bak /\ prev' = prev /\ skipped' = skipped
    BY <1>3 DEF Lock, LockFails, Load, Unlock, Crash, files, locals, Current
  <2>2. PICK s \in {"load", "backup", "abort", "done", "failed", "lost", "dead"} :
          pc' = [pc EXCEPT ![m] = s]
    BY <1>3 DEF Lock, LockFails, Load, Unlock, Crash, Goto
  <2> QED
    BY <2>1, <2>2, BackupStep
<1>4. ASSUME NEW m \in Mutations, Backup(m)
      PROVE  BackupInv'
  <2>1. main' = main /\ Current' = Current /\ pc[m] \in Critical
    BY <1>4 DEF Backup, Current
  <2>2. CASE main # None /\ prev' = [prev EXCEPT ![m] = data[main]] /\ bak' = Torn
             /\ pc' = [pc EXCEPT ![m] = "backup_write"]
    <3>1. prev'[m] = Current /\ \A q \in Mutations : q # m => prev'[q] = prev[q]
      BY <2>2, SMT DEF FileInv, TypeOK, Current
    <3> QED
      BY <2>1, <2>2, <3>1, BackupStep
  <2>3. CASE /\ prev' = prev /\ bak' = bak /\ skipped' = (main # None)
             /\ pc' = [pc EXCEPT ![m] = "tmp"]
    <3>1. CASE main = None
      <4>1. bak' = None /\ skipped' = skipped
        BY <2>3, <3>1, SMT DEF BackupInv, FileInv, TypeOK
      <4> QED
        BY <2>1, <2>3, <4>1, BackupStep
    <3>2. CASE main # None
      BY <2>1, <2>3, <3>2, BackupStep
    <3> QED
      BY <3>1, <3>2
  <2> QED
    BY <1>4, <2>2, <2>3 DEF Backup, Goto
<1>5. ASSUME NEW m \in Mutations, BackupWrite(m)
      PROVE  BackupInv'
  <2>1. /\ main' = main /\ Current' = Current /\ prev' = prev /\ skipped' = skipped
        /\ pc[m] \in Critical
        /\ pc' = [pc EXCEPT ![m] = "tmp"]
        /\ bak' = Current \/ bak' = Torn
        /\ main # None
    BY <1>5 DEF BackupWrite, locals, Goto, Current, BackupInv
  <2> QED
    BY <2>1, BackupStep
<1>6. ASSUME NEW m \in Mutations, TmpOpen(m) \/ TmpWrite(m)
      PROVE  BackupInv'
  <2>1. main' = main /\ bak' = bak /\ prev' = prev /\ Current' = Current /\ skipped' = skipped
    BY <1>6, TmpFile DEF TmpOpen, TmpWrite, locals
  <2>2. PICK s \in {"tmp_write", "rename", "abort"} : pc' = [pc EXCEPT ![m] = s]
    BY <1>6 DEF TmpOpen, TmpWrite, Goto
  <2>3. skipped \/ bak \in {None, Torn, Current}
    BY <1>6 DEF TmpOpen, TmpWrite, BackupInv
  <2> QED
    BY <2>1, <2>2, <2>3, BackupStep
<1>7. ASSUME NEW m \in Mutations, Rename(m)
      PROVE  BackupInv'
  <2>1. /\ pc[m] = "rename" /\ bak' = bak /\ prev' = prev /\ data' = data /\ skipped' = skipped
        /\ skipped \/ bak \in {None, Torn, Current}
        /\ tmp # None /\ data[tmp] = Append(Current, m)
    BY <1>7 DEF Rename, locals, BackupInv, FileInv, UpToDate
  <2>2. CASE main' = tmp /\ pc' = [pc EXCEPT ![m] = "unlock"]
    <3>1. Current' = Append(Current, m)
      BY <2>1, <2>2 DEF Current
    <3>2. BackupAtMostOneBehind'
      BY <2>1, <3>1 DEF BackupAtMostOneBehind
    <3>3. \A q \in Mutations : pc'[q] \notin {"backup_write", "tmp", "tmp_write", "rename"}
      <4> SUFFICES ASSUME NEW q \in Mutations
                   PROVE  pc'[q] \notin {"backup_write", "tmp", "tmp_write", "rename"}
        OBVIOUS
      <4>1. CASE q = m
        BY <2>2, <4>1, SMT DEF FileInv, TypeOK
      <4>2. CASE q # m
        BY <2>1, <2>2, <4>2, Alone, SMT DEF FileInv, TypeOK
      <4> QED
        BY <4>1, <4>2
    <3> QED
      BY <2>1, <2>2, <3>2, <3>3 DEF BackupInv
  <2>3. CASE main' = main /\ pc' = [pc EXCEPT ![m] = "abort"]
    <3>1. Current' = Current
      BY <2>1, <2>3 DEF Current
    <3> QED
      BY <2>1, <2>3, <3>1, BackupStep
  <2> QED
    BY <1>7, <2>1, <2>2, <2>3 DEF Rename, Goto
<1> QED
  BY <1>2, <1>3, <1>4, <1>5, <1>6, <1>7 DEF Next, Step

(* Unless its last attempt failed, a readable backup is at most one change
   behind, wherever processes die and calls fail. *)
THEOREM BackupIsRecent == Spec => []BackupAtMostOneBehind
<1>1. Init => BackupInv
  BY SMT DEF Init, BackupInv, BackupAtMostOneBehind
<1>2. FileInv /\ BackupInv /\ [Next]_vars => BackupInv'
  BY BackupNext
<1>3. BackupInv => BackupAtMostOneBehind
  BY DEF BackupInv
<1> QED
  BY <1>1, <1>2, <1>3, FileInvariant, PTL DEF Spec
=============================================================================
